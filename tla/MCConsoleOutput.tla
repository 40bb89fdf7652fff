--------------------------- MODULE MCConsoleOutput ---------------------------
(***************************************************************************)
(* Three texts: one that is split, with a color in front and a word that   *)
(* is longer than a message; one without a color; one that ends in one.    *)
(***************************************************************************)
EXTENDS ConsoleOutput

CONSTANTS main, worker, long, plain, short

MCThreads == {main, worker}
MCDepth == [t \in MCThreads |-> IF t = main THEN 3 ELSE 2]
Tagged(len, color) == [len |-> len, color |-> color]
MCWords ==
  (long :> <<Tagged(3, 1), Tagged(2, 0), Tagged(1, 2), Tagged(12, 0)>>)
  @@ (plain :> <<Tagged(4, 0), Tagged(2, 0)>>)
  @@ (short :> <<Tagged(2, 0), Tagged(2, 3)>>)

=============================================================================

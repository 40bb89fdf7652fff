------------------------------- MODULE MCVotes -------------------------------
(***************************************************************************)
(* The main thread nests a call, the worker does not.                      *)
(***************************************************************************)
EXTENDS Votes

CONSTANTS main, worker

MCThreads == {main, worker}
MCDepth == [t \in MCThreads |-> IF t = main THEN 2 ELSE 1]

=============================================================================

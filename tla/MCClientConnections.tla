------------------------- MODULE MCClientConnections -------------------------
(***************************************************************************)
(* Two slots that are alike; the first connection may be a bot's, and the  *)
(* second goes through a change of map.  The main thread nests a call, the *)
(* worker does not.                                                        *)
(***************************************************************************)
EXTENDS ClientConnections, TLC

CONSTANTS main, worker, slot0, slot1

MCThreads == {main, worker}
MCSlots == {slot0, slot1}
MCMaps == <<0, 1>>
MCDepth == [t \in MCThreads |-> IF t = main THEN 2 ELSE 1]

SlotsAreAlike == Permutations(MCSlots)

=============================================================================

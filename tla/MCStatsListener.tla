--------------------------- MODULE MCStatsListener ---------------------------
(***************************************************************************)
(* One player, who may kill himself and switch between two teams.  The     *)
(* teams are interchangeable, which only safety may make use of.           *)
(***************************************************************************)
EXTENDS StatsListener

CONSTANTS a, red, blue

MCPlayers == {a}
MCTeams == {red, blue}
MCSymmetry == Permutations(MCTeams)

=============================================================================

-------------------------- MODULE MCCommandRegistry --------------------------
(***************************************************************************)
(* One plugin instance with two commands that answer to the same word.     *)
(***************************************************************************)
EXTENDS CommandRegistry

CONSTANTS main, worker, plugin, kick, ban

MCThreads == {main, worker}
MCInstances == {plugin}
MCCommands == {kick, ban}
MCOwner == [c \in MCCommands |-> plugin]

MCAnswering == [i \in Inputs |-> MCCommands]

\* One command at either of two priorities, the other at one of them.
MCOffered == {<<kick, 2>>, <<ban, 1>>, <<ban, 2>>}

MCDepth == [t \in MCThreads |-> 1]

=============================================================================

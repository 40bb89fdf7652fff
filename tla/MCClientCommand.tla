--------------------------- MODULE MCClientCommand ---------------------------
(***************************************************************************)
(* Commands of every kind, handlers that answer with a chat message, an    *)
(* empty string, or user info.                                             *)
(***************************************************************************)
EXTENDS ClientCommand

MCBodies == 0 .. 2

MCText(kind, body) == [kind |-> kind, body |-> body]

MCCommands == {MCText(k, 0) : k \in Kinds \ {"empty"}}

MCReplacements == {MCText("say", 1), MCText("empty", 0), MCText("userinfo", 1)}

\* Body 1 is a message with quotes.
MCRequote == [b \in MCBodies |-> IF b = 1 THEN 2 ELSE b]

MCUpdateInfo == [x \in MCBodies \X MCBodies |-> IF x[2] = x[1] THEN x[1] ELSE 2]

=============================================================================

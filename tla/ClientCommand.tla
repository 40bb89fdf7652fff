---------------------------- MODULE ClientCommand ----------------------------
(***************************************************************************)
(* The way of a client command from the engine through the plugins and     *)
(* back: the client_command event, the registered commands, the event the  *)
(* command stands for (chat, vote_called, vote, team_switch_attempt,       *)
(* userinfo), and what the engine executes in the end.                     *)
(*                                                                         *)
(* A handler answers with a return code or with a value.  The filtering    *)
(* dispatchers hand a replacement on to the next handler; the others pass  *)
(* it to handle_return, which logs it.  Which commands match and who hooks *)
(* what is input: every dispatch has some number of handlers.              *)
(***************************************************************************)
EXTENDS Naturals, SequencesExt

CONSTANTS
  Bodies,        \* what follows the first word of a command
  Requote,       \* a chat message with its quotes replaced
  UpdateInfo,    \* user info overwritten by a changed dictionary
  Commands,      \* bound: the commands clients send
  Replacements,  \* bound: the values handlers answer with
  MaxHandlers,   \* bound: handlers of one event
  MaxCommands    \* bound: commands eligible for one input

EventOf ==
  [say |-> "chat", callvote |-> "vote_called", vote |-> "vote",
   team |-> "team_switch_attempt", userinfo |-> "userinfo"]

\* "blank" is only white space; an "empty" command is what a handler may answer.
Kinds == DOMAIN EventOf \cup {"other", "blank", "empty"}

Text == [kind: Kinds, body: Bodies]

ASSUME ConstantsAssumption ==
  /\ Requote \in [Bodies -> Bodies]
  /\ UpdateInfo \in [Bodies \X Bodies -> Bodies]
  /\ Commands \subseteq {c \in Text : c.kind # "empty"}
  /\ Replacements \subseteq Text
  /\ MaxHandlers \in Nat /\ MaxCommands \in Nat

\* The dispatchers that take a replacement: a string, or a dict for userinfo.
Filtering == {"client_command", "userinfo"}

Events == Range(EventOf) \cup {"client_command"}

Codes == {"none", "stop", "stop_event", "stop_all", "unknown", "raise"}

Answers == [code: Codes] \cup [code: {"value"}, value: Replacements]

Results == [is: {"allow", "deny"}] \cup [is: {"replace"}, text: Replacements]

Allow == [is |-> "allow"]
Deny == [is |-> "deny"]
Replace(c) == [is |-> "replace", text |-> c]

VARIABLES
  pc,         \* "idle", "handlers", "commands", "settled"
  event,      \* the event being dispatched
  original,   \* the command the client sent
  updated,    \* updated_cmd: what client_command made of it
  left,       \* handlers or commands that are still to come, if none stops it
  forwarded,  \* what the next handler is given
  result,     \* return_value of the dispatch
  pass,       \* pass_through of handle_input
  executed,   \* what the engine executed: at most one command
  calls,      \* history: per event, what its handlers were given and answered
  ran         \* history: the verdicts of the commands the event was given to

vars == <<pc, event, original, updated, left, forwarded, result, pass, executed,
          calls, ran>>

-----------------------------------------------------------------------------
StartHandlers(e, c) ==
  /\ pc' = "handlers"
  /\ event' = e
  /\ forwarded' = c
  /\ result' = Allow
  /\ left' \in 0 .. MaxHandlers

StartCommands(e) ==
  /\ pc' = "commands"
  /\ event' = e
  /\ pass' = TRUE
  /\ left' \in 0 .. MaxCommands

\* An empty command is not executed.
Execute(c) ==
  /\ pc' = "idle"
  /\ executed' = IF c.kind = "empty" THEN <<>> ELSE <<c>>

\* The engine calls for a client with an entity.  Nothing of the last command is kept.
Receive(c) ==
  /\ pc = "idle"
  /\ StartHandlers("client_command", c)
  /\ original' = c
  /\ updated' = c
  /\ pass' = TRUE
  /\ executed' = <<>>
  /\ calls' = [e \in Events |-> <<>>]
  /\ ran' = <<>>

\* Not initialised, or a client without an entity: no plugin is asked.
ReceiveUndispatched(c) ==
  /\ pc = "idle"
  /\ original' = c
  /\ updated' = c
  /\ Execute(c)
  /\ calls' = [e \in Events |-> <<>>]
  /\ ran' = <<>>
  /\ UNCHANGED <<event, left, forwarded, result, pass>>

-----------------------------------------------------------------------------
(***************************************************************************)
(* One turn of the loop over the handlers.                                 *)
(***************************************************************************)
\* Mutant: RET_STOP returns what has been settled so far.
HandlerReturnsKeepingVeto(a) ==
  /\ pc = "handlers"
  /\ left > 0
  /\ calls' = [calls EXCEPT ![event] = Append(@, [saw |-> forwarded, answer |-> a])]
  /\ left' = IF a.code \in {"stop", "stop_all"} THEN 0 ELSE left - 1
  /\ result' = CASE a.code \in {"stop_event", "stop_all"} -> Deny
                 [] a.code = "value" /\ event \in Filtering -> Replace(a.value)
                 [] OTHER -> result
  /\ forwarded' = IF a.code = "value" /\ event \in Filtering THEN a.value ELSE forwarded
  /\ pc' = IF a.code \in {"stop", "stop_all"} THEN "settled" ELSE pc
  /\ UNCHANGED <<event, original, updated, pass, executed, ran>>

\* Mutant: a replacement is handed on as it came, not as the value extracted from it.
HandlerReturnsForwardingAnswer(a) ==
  /\ pc = "handlers"
  /\ left > 0
  /\ calls' = [calls EXCEPT ![event] = Append(@, [saw |-> forwarded, answer |-> a])]
  /\ left' = IF a.code \in {"stop", "stop_all"} THEN 0 ELSE left - 1
  /\ result' = CASE a.code = "stop" -> Allow
                 [] a.code \in {"stop_event", "stop_all"} -> Deny
                 [] a.code = "value" /\ event \in Filtering -> Replace(a.value)
                 [] OTHER -> result
  /\ forwarded' = IF a.code = "value" /\ event \in Filtering THEN a ELSE forwarded
  /\ pc' = IF a.code \in {"stop", "stop_all"} THEN "settled" ELSE pc
  /\ UNCHANGED <<event, original, updated, pass, executed, ran>>

HandlerReturns(a) ==
  /\ pc = "handlers"
  /\ left > 0
  /\ calls' = [calls EXCEPT ![event] = Append(@, [saw |-> forwarded, answer |-> a])]
  /\ left' = IF a.code \in {"stop", "stop_all"} THEN 0 ELSE left - 1
  /\ result' = CASE a.code = "stop" -> Allow
                 [] a.code \in {"stop_event", "stop_all"} -> Deny
                 [] a.code = "value" /\ event \in Filtering -> Replace(a.value)
                 [] OTHER -> result
  /\ forwarded' = IF a.code = "value" /\ event \in Filtering THEN a.value ELSE forwarded
  /\ pc' = IF a.code \in {"stop", "stop_all"} THEN "settled" ELSE pc
  /\ UNCHANGED <<event, original, updated, pass, executed, ran>>

\* After the last handler the client_command dispatcher tries the registered commands,
\* with the command as the client sent it; blank input is not passed on.
HandlersDone ==
  /\ pc = "handlers"
  /\ left = 0
  /\ \/ /\ event = "client_command" /\ result # Deny /\ original.kind # "blank"
        /\ StartCommands(event)
        /\ UNCHANGED result
     \/ /\ event = "client_command" /\ result # Deny /\ original.kind = "blank"
        /\ pc' = "settled"
        /\ result' = Deny
        /\ UNCHANGED <<event, left, pass>>
     \/ /\ event # "client_command" \/ result = Deny
        /\ pc' = "settled"
        /\ UNCHANGED <<event, left, pass, result>>
  /\ UNCHANGED <<original, updated, forwarded, executed, calls, ran>>

-----------------------------------------------------------------------------
(***************************************************************************)
(* handle_input, for client_command after the handlers, for chat before.   *)
(***************************************************************************)
\* A client command starts from the setting of the command at hand.
Passing(client_cmd_pass) == IF event = "client_command" THEN client_cmd_pass ELSE pass

Verdicts == {"stops", "overrides", "withholds", "passes"}

Ran(client_cmd_pass, code) ==
  ran' = Append(ran,
    CASE code \in {"stop", "stop_event", "stop_all"} -> "stops"
      [] code \in {"vetoed", "raise"} -> "overrides"
      [] OTHER -> IF event = "client_command" /\ ~client_cmd_pass THEN "withholds" ELSE "passes")

\* Mutant: a denied command event ends the loop with what the earlier commands left.
CommandVetoedKeepsPass ==
  /\ pc = "commands"
  /\ left > 0
  /\ left' = 0
  /\ Ran(TRUE, "vetoed")
  /\ UNCHANGED <<pc, event, original, updated, forwarded, result, pass, executed, calls>>

\* The command event, dispatched before the command runs, is denied.
CommandVetoed ==
  /\ pc = "commands"
  /\ left > 0
  /\ pass' = TRUE
  /\ left' = 0
  /\ Ran(TRUE, "vetoed")
  /\ UNCHANGED <<pc, event, original, updated, forwarded, result, executed, calls>>

\* Mutant: RET_STOP_ALL ends the loop with what the earlier commands left.
CommandReturnsWithoutStopAll(client_cmd_pass, code) ==
  /\ pc = "commands"
  /\ left > 0
  /\ pass' = CASE code \in {"stop", "stop_event"} -> FALSE
               [] code = "raise" -> TRUE
               [] OTHER -> Passing(client_cmd_pass)
  /\ left' = IF code \in {"stop", "stop_all", "raise"} THEN 0 ELSE left - 1
  /\ Ran(client_cmd_pass, code)
  /\ UNCHANGED <<pc, event, original, updated, forwarded, result, executed, calls>>

\* "unknown" includes RET_USAGE, which replies.  An exception leaves handle_input; it is
\* logged and the command is passed on.
CommandReturns(client_cmd_pass, code) ==
  /\ pc = "commands"
  /\ left > 0
  /\ pass' = CASE code \in {"stop", "stop_event", "stop_all"} -> FALSE
               [] code = "raise" -> TRUE
               [] OTHER -> Passing(client_cmd_pass)
  /\ left' = IF code \in {"stop", "stop_all", "raise"} THEN 0 ELSE left - 1
  /\ Ran(client_cmd_pass, code)
  /\ UNCHANGED <<pc, event, original, updated, forwarded, result, executed, calls>>

\* The message as the plugins are shown it and as it is said in the end.
Reformatted(c) == [c EXCEPT !.body = Requote[@]]

CommandsDone ==
  /\ pc = "commands"
  /\ left = 0
  /\ \/ /\ event = "client_command"
        /\ pc' = "settled"
        /\ result' = IF pass THEN result ELSE Deny
        /\ UNCHANGED <<event, left, forwarded>>
     \/ /\ event = "chat" /\ pass
        /\ StartHandlers(event, Reformatted(updated))
     \/ /\ event = "chat" /\ ~pass
        /\ pc' = "settled"
        /\ result' = Deny
        /\ UNCHANGED <<event, left, forwarded>>
  /\ UNCHANGED <<original, updated, pass, executed, calls, ran>>

-----------------------------------------------------------------------------
(***************************************************************************)
(* try_handle_client_command, after each of the two dispatches.            *)
(***************************************************************************)
Denied ==
  /\ pc = "settled"
  /\ result = Deny
  /\ pc' = "idle"
  /\ executed' = <<>>
  /\ UNCHANGED <<event, original, updated, left, forwarded, result, pass, calls, ran>>

UpdatedCommand == IF result.is = "replace" THEN result.text ELSE original

\* The updated command stands for no event, or not for one now: no or another vote is
\* on, the argument is none the event knows, the team or the user info is the same.
PassOn ==
  /\ pc = "settled" /\ event = "client_command" /\ result # Deny
  /\ UpdatedCommand.kind # "say"
  /\ updated' = UpdatedCommand
  /\ Execute(updated')
  /\ UNCHANGED <<event, original, left, forwarded, result, pass, calls, ran>>

\* A message of white space only is denied before any command or handler is asked.
StartChat ==
  \/ /\ StartCommands("chat")
     /\ UNCHANGED result
  \/ /\ pc' = "settled"
     /\ event' = "chat"
     /\ result' = Deny
     /\ UNCHANGED <<left, pass>>

\* Mutant: the event of the command is announced with the command the client sent.
AnnounceOriginal ==
  /\ pc = "settled" /\ event = "client_command" /\ result # Deny
  /\ UpdatedCommand.kind \in DOMAIN EventOf
  /\ updated' = original
  /\ \/ /\ UpdatedCommand.kind = "say"
        /\ StartChat
        /\ UNCHANGED forwarded
     \/ /\ UpdatedCommand.kind # "say"
        /\ StartHandlers(EventOf[UpdatedCommand.kind], updated')
        /\ UNCHANGED pass
  /\ ran' = <<>>
  /\ UNCHANGED <<original, executed, calls>>

Announce ==
  /\ pc = "settled" /\ event = "client_command" /\ result # Deny
  /\ UpdatedCommand.kind \in DOMAIN EventOf
  /\ updated' = UpdatedCommand
  /\ \/ /\ updated'.kind = "say"
        /\ StartChat
        /\ UNCHANGED forwarded
     \/ /\ updated'.kind # "say"
        /\ StartHandlers(EventOf[updated'.kind], updated')
        /\ UNCHANGED pass
  /\ ran' = <<>>
  /\ UNCHANGED <<original, executed, calls>>

\* Mutant: the answer to the event is only looked at for a replacement.
AnsweredAnyway ==
  /\ pc = "settled" /\ event # "client_command"
  /\ Execute(CASE event = "chat" -> Reformatted(updated)
               [] event = "userinfo" /\ result.is = "replace" ->
                    [updated EXCEPT !.body = UpdateInfo[<<@, result.text.body>>]]
               [] OTHER -> updated)
  /\ UNCHANGED <<event, original, updated, left, forwarded, result, pass, calls, ran>>

Answered ==
  /\ pc = "settled" /\ event # "client_command" /\ result # Deny
  /\ Execute(CASE event = "chat" -> Reformatted(updated)
               [] event = "userinfo" /\ result.is = "replace" ->
                    [updated EXCEPT !.body = UpdateInfo[<<@, result.text.body>>]]
               [] OTHER -> updated)
  /\ UNCHANGED <<event, original, updated, left, forwarded, result, pass, calls, ran>>

-----------------------------------------------------------------------------
Init ==
  /\ pc = "idle"
  /\ event = "client_command"
  /\ original \in Commands
  /\ updated = original /\ forwarded = original
  /\ left = 0
  /\ result = Allow
  /\ pass = TRUE
  /\ executed = <<>>
  /\ calls = [e \in Events |-> <<>>]
  /\ ran = <<>>

Next ==
  \/ \E c \in Commands : Receive(c) \/ ReceiveUndispatched(c)
  \/ \E a \in Answers : HandlerReturns(a)
  \/ HandlersDone
  \/ CommandVetoed
  \/ \E p \in BOOLEAN, code \in Codes : CommandReturns(p, code)
  \/ CommandsDone
  \/ Denied \/ PassOn \/ Announce \/ Answered

Spec == Init /\ [][Next]_vars

-----------------------------------------------------------------------------
(* The types of the variables. *)
TypeOK ==
  /\ pc \in {"idle", "handlers", "commands", "settled"}
  /\ event \in Events
  /\ original \in Text /\ updated \in Text /\ forwarded \in Text
  /\ left \in 0 .. MaxHandlers \cup 0 .. MaxCommands
  /\ result \in Results
  /\ pass \in BOOLEAN
  /\ executed \in Seq(Text) /\ Len(executed) <= 1
  /\ calls \in [Events -> Seq([saw: Text, answer: Answers])]
  /\ ran \in Seq(Verdicts)

(***************************************************************************)
(* The result of a dispatch as a function of all that was answered.        *)
(***************************************************************************)
Answer(e, k) == calls[e][k].answer

Speaks(e, k) ==
  \/ Answer(e, k).code \in {"stop", "stop_event", "stop_all"}
  \/ Answer(e, k).code = "value" /\ e \in Filtering

\* The last answer with a meaning decides; RET_STOP allows the event as it came.
Outcome(e) ==
  LET speaking == {k \in DOMAIN calls[e] : Speaks(e, k)}
      last == CHOOSE k \in speaking : \A l \in speaking : l <= k
  IN IF speaking = {} THEN Allow
     ELSE CASE Answer(e, last).code = "stop" -> Allow
            [] Answer(e, last).code \in {"stop_event", "stop_all"} -> Deny
            [] OTHER -> Replace(Answer(e, last).value)

(* While handlers run, the result is decided by the last answer that has a   *)
(* meaning; nothing is called after RET_STOP or RET_STOP_ALL, and a handler   *)
(* is given the last replacement before it.                                   *)
LastAnswerDecides ==
  pc = "handlers" \/ (pc = "settled" /\ event # "client_command" /\ calls[event] # <<>>) =>
    /\ result = Outcome(event)
    /\ \A k \in DOMAIN calls[event] :
         Answer(event, k).code \in {"stop", "stop_all"} => k = Len(calls[event])
    /\ \A k, l \in DOMAIN calls[event] :
         /\ event \in Filtering
         /\ k < l /\ Answer(event, k).code = "value"
         /\ \A m \in k + 1 .. l - 1 : Answer(event, m).code # "value"
         => calls[event][l].saw = Answer(event, k).value

(* What the engine executes was allowed by every stage: no handler of either  *)
(* event answered RET_STOP_ALL.                                               *)
BlockedIsNotExecuted ==
  executed # <<>> =>
    \A e \in Events : \A k \in DOMAIN calls[e] : Answer(e, k).code # "stop_all"

(* The last command an input was given to decides whether it goes on: a veto  *)
(* or an exception lets through what an earlier command had stopped, and so   *)
(* does, for a client command but not for chat, a command that passes it.     *)
(* What is not let through reaches no handler and not the engine.             *)
LastCommandDecides ==
  ran # <<>> /\ pc # "commands" =>
    LET last == ran[Len(ran)]
        passes == \/ last = "overrides"
                  \/ last = "passes" /\ (event = "chat" => ~Contains(ran, "stops"))
    IN IF passes
       THEN pc = "settled" /\ result = Deny => event = "chat" /\ calls[event] # <<>>
       ELSE /\ executed = <<>> /\ pc # "handlers"
            /\ pc = "settled" => result = Deny

(* What the engine executes is what the client_command handlers made of the   *)
(* command, and after the event it stands for, what that made of it; the      *)
(* handlers of that event were shown the same text.  The two never mix an     *)
(* older text with a newer event, nor a quoted message with a reformatted one.*)
ExecutesWhatWasAgreed ==
  executed # <<>> =>
    LET agreed == IF Outcome("client_command").is = "replace"
                  THEN Outcome("client_command").text ELSE original
        shown == IF agreed.kind = "say" THEN Reformatted(agreed) ELSE agreed
    IN /\ executed[1].kind = agreed.kind
       /\ executed[1].body \in
            (IF calls["client_command"] = <<>> THEN {agreed.body} ELSE {})
              \cup {shown.body}
              \cup (IF Outcome("userinfo").is = "replace"
                    THEN {UpdateInfo[<<agreed.body, Outcome("userinfo").text.body>>]} ELSE {})
       /\ \A e \in Events \ {"client_command"} :
            calls[e] # <<>> => e = EventOf[agreed.kind] /\ calls[e][1].saw = shown

(* The documentation of the return codes: RET_STOP_EVENT lets the other       *)
(* handlers process the event, but stops it at the engine level.              *)
StopEventStopsTheEvent ==
  executed # <<>> =>
    \A e \in Events : \A k \in DOMAIN calls[e] : Answer(e, k).code # "stop_event"

=============================================================================

------------------------- MODULE ClientCommandProofs -------------------------
(***************************************************************************)
(* Theorems about client commands, for any commands, any values handlers   *)
(* answer with, and any number of handlers and commands.                   *)
(***************************************************************************)
EXTENDS ClientCommand, SequenceTheorems, TLAPS

(* The types of the variables, for any number of handlers and commands: what  *)
(* is forwarded, executed and handed back is a command and never an answer.   *)
THEOREM TypeCorrect == Spec => []TypeOK
  <1> USE ConstantsAssumption
  <1>1. Init => TypeOK
    BY DEF Init, TypeOK, Text, Events, Results, Allow
  <1>2. TypeOK /\ [Next]_vars => TypeOK'
    <2> SUFFICES ASSUME TypeOK, [Next]_vars PROVE TypeOK'
      OBVIOUS
    <2>1. \A e \in {"chat", "vote_called", "vote", "team_switch_attempt", "userinfo", "client_command"} :
            e \in Events
      BY DEF Events, EventOf, Range
    <2>2. ASSUME NEW e \in Events, NEW c \in Text, StartHandlers(e, c)
          PROVE  pc' = "handlers" /\ event' \in Events /\ forwarded' \in Text /\ result' \in Results
                 /\ left' \in 0 .. MaxHandlers
      BY <2>2 DEF StartHandlers, Results, Allow
    <2>3. ASSUME NEW e \in Events, StartCommands(e)
          PROVE  pc' = "commands" /\ event' \in Events /\ pass' \in BOOLEAN
                 /\ left' \in 0 .. MaxCommands
      BY <2>3 DEF StartCommands
    <2>4. ASSUME NEW c \in Text, Execute(c)
          PROVE  pc' = "idle" /\ executed' \in Seq(Text) /\ Len(executed') <= 1
      BY <2>4 DEF Execute
    <2>5. \A c \in Text : Reformatted(c) \in Text
      BY DEF Reformatted, Text
    <2>6. [e \in Events |-> <<>>] \in [Events -> Seq([saw: Text, answer: Answers])]
      OBVIOUS
    <2>7. ASSUME NEW c \in Commands, Receive(c) PROVE TypeOK'
      <3>1. c \in Text /\ "client_command" \in Events
        BY <2>1
      <3>2. QED
        BY <2>2, <2>6, <2>7, <3>1 DEF Receive, TypeOK
    <2>8. ASSUME NEW c \in Commands, ReceiveUndispatched(c) PROVE TypeOK'
      <3>1. c \in Text
        OBVIOUS
      <3>2. QED
        BY <2>4, <2>6, <2>8, <3>1 DEF ReceiveUndispatched, TypeOK
    <2>9. ASSUME NEW a \in Answers, HandlerReturns(a) PROVE TypeOK'
      <3>1. a.code = "value" => a.value \in Replacements
        BY DEF Answers, Codes
      <3>2. forwarded' \in Text
        BY <2>9, <3>1 DEF HandlerReturns, TypeOK
      <3>3. result' \in Results
        BY <2>9, <3>1 DEF HandlerReturns, TypeOK, Results, Allow, Deny, Replace
      <3>4. calls' \in [Events -> Seq([saw: Text, answer: Answers])]
        <4>1. calls' = [calls EXCEPT ![event] = Append(@, [saw |-> forwarded, answer |-> a])]
          BY <2>9 DEF HandlerReturns
        <4>2. [saw |-> forwarded, answer |-> a] \in [saw: Text, answer: Answers]
          BY DEF TypeOK
        <4>3. calls[event] \in Seq([saw: Text, answer: Answers])
          BY DEF TypeOK
        <4>4. Append(calls[event], [saw |-> forwarded, answer |-> a])
                \in Seq([saw: Text, answer: Answers])
          BY <4>2, <4>3
        <4>5. calls \in [Events -> Seq([saw: Text, answer: Answers])]
          BY DEF TypeOK
        <4>6. QED
          BY <4>1, <4>4, <4>5
      <3>5. left' \in 0 .. MaxHandlers \cup 0 .. MaxCommands
        BY <2>9 DEF HandlerReturns, TypeOK
      <3>6. QED
        BY <2>9, <3>2, <3>3, <3>4, <3>5 DEF HandlerReturns, TypeOK
    <2>10. ASSUME HandlersDone PROVE TypeOK'
      <3>1. CASE StartCommands(event) /\ UNCHANGED result
        BY <2>3, <2>10, <3>1 DEF HandlersDone, TypeOK
      <3>2. CASE pc' = "settled" /\ result' \in {Deny, result} /\ UNCHANGED <<event, left, pass>>
        <4>1. result' \in Results
          BY <3>2 DEF TypeOK, Results, Deny
        <4>2. UNCHANGED <<original, updated, forwarded, executed, calls, ran>>
          BY <2>10 DEF HandlersDone
        <4>3. QED
          BY <3>2, <4>1, <4>2 DEF TypeOK
      <3>3. QED
        BY <2>10, <3>1, <3>2 DEF HandlersDone
    <2>11. ASSUME NEW p \in BOOLEAN, NEW code, Ran(p, code) PROVE ran' \in Seq(Verdicts)
      BY <2>11 DEF Ran, Verdicts, TypeOK
    <2>12. ASSUME CommandVetoed PROVE TypeOK'
      <3>1. ran' \in Seq(Verdicts)
        BY <2>11, <2>12 DEF CommandVetoed
      <3>2. pass' \in BOOLEAN /\ left' \in 0 .. MaxCommands
        <4>1. pass' = TRUE /\ left' = 0
          BY <2>12 DEF CommandVetoed
        <4>2. QED
          BY <4>1
      <3>3. UNCHANGED <<pc, event, original, updated, forwarded, result, executed, calls>>
        BY <2>12 DEF CommandVetoed
      <3>4. QED
        BY <3>1, <3>2, <3>3 DEF TypeOK
    <2>13. ASSUME NEW p \in BOOLEAN, NEW code \in Codes, CommandReturns(p, code) PROVE TypeOK'
      <3>1. left' \in 0 .. MaxHandlers \cup 0 .. MaxCommands
        BY <2>13 DEF CommandReturns, TypeOK
      <3>2. pass' \in BOOLEAN
        <4>1. Passing(p) \in BOOLEAN
          BY DEF Passing, TypeOK
        <4>2. QED
          BY <2>13, <4>1 DEF CommandReturns
      <3>3. ran' \in Seq(Verdicts)
        BY <2>11, <2>13 DEF CommandReturns
      <3>4. QED
        BY <2>13, <3>1, <3>2, <3>3 DEF CommandReturns, TypeOK
    <2>14. ASSUME CommandsDone PROVE TypeOK'
      <3>1. CASE pc' = "settled" /\ result' \in {Deny, result} /\ UNCHANGED <<event, left, forwarded>>
        <4>1. result' \in Results
          BY <3>1 DEF TypeOK, Results, Deny
        <4>2. UNCHANGED <<original, updated, pass, executed, calls, ran>>
          BY <2>14 DEF CommandsDone
        <4>3. QED
          BY <3>1, <4>1, <4>2 DEF TypeOK
      <3>2. CASE StartHandlers(event, Reformatted(updated))
        <4>1. event \in Events /\ Reformatted(updated) \in Text
          BY <2>5 DEF TypeOK
        <4>2. QED
          BY <2>2, <2>14, <3>2, <4>1 DEF CommandsDone, TypeOK
      <3>3. QED
        BY <2>14, <3>1, <3>2 DEF CommandsDone
    <2>15. ASSUME Denied PROVE TypeOK'
      <3>1. pc' = "idle" /\ executed' \in Seq(Text) /\ Len(executed') <= 1
        <4>1. pc' = "idle" /\ executed' = <<>>
          BY <2>15 DEF Denied
        <4>2. QED
          BY <4>1
      <3>2. UNCHANGED <<event, original, updated, left, forwarded, result, pass, calls, ran>>
        BY <2>15 DEF Denied
      <3>3. QED
        BY <3>1, <3>2 DEF TypeOK
    <2>16. UpdatedCommand \in Text
      BY DEF UpdatedCommand, TypeOK, Results
    <2>17. ASSUME PassOn PROVE TypeOK'
      BY <2>4, <2>16, <2>17 DEF PassOn, TypeOK
    <2>18. ASSUME Announce PROVE TypeOK'
      <3>1. updated' \in Text /\ EventOf[updated'.kind] \in Events
        BY <2>1, <2>16, <2>18 DEF Announce, EventOf
      <3>0. ran' \in Seq(Verdicts) /\ UNCHANGED <<original, executed, calls>>
        <4>1. ran' = <<>> /\ UNCHANGED <<original, executed, calls>>
          BY <2>18 DEF Announce
        <4>2. QED
          BY <4>1
      <3>2. CASE StartCommands("chat") /\ UNCHANGED <<result, forwarded>>
        <4>1. pc' = "commands" /\ event' \in Events /\ pass' \in BOOLEAN
              /\ left' \in 0 .. MaxCommands
          BY <2>1, <2>3, <3>2
        <4>2. QED
          BY <3>1, <3>0, <3>2, <4>1 DEF TypeOK
      <3>3. CASE pc' = "settled" /\ event' = "chat" /\ result' = Deny
                 /\ UNCHANGED <<left, pass, forwarded>>
        <4>1. result' \in Results /\ event' \in Events
          BY <2>1, <3>3 DEF Results, Deny
        <4>2. QED
          BY <3>1, <3>0, <3>3, <4>1 DEF TypeOK
      <3>4. CASE StartHandlers(EventOf[updated'.kind], updated') /\ UNCHANGED pass
        <4>1. pc' = "handlers" /\ event' \in Events /\ forwarded' \in Text /\ result' \in Results
              /\ left' \in 0 .. MaxHandlers
          BY <2>2, <3>1, <3>4
        <4>2. QED
          BY <3>1, <3>0, <3>4, <4>1 DEF TypeOK
      <3>5. QED
        BY <2>18, <3>2, <3>3, <3>4 DEF Announce, StartChat
    <2>19. ASSUME Answered PROVE TypeOK'
      <3> DEFINE c == CASE event = "chat" -> Reformatted(updated)
                        [] event = "userinfo" /\ result.is = "replace" ->
                             [updated EXCEPT !.body = UpdateInfo[<<@, result.text.body>>]]
                        [] OTHER -> updated
      <3>1. CASE event = "userinfo" /\ result.is = "replace"
        <4>1. result.text \in Text
          BY <3>1 DEF TypeOK, Results
        <4>2. UpdateInfo[<<updated.body, result.text.body>>] \in Bodies
          BY <4>1 DEF TypeOK, Text
        <4>3. [updated EXCEPT !.body = UpdateInfo[<<@, result.text.body>>]] \in Text
          BY <4>2 DEF TypeOK, Text
        <4>4. c \in Text
          BY <3>1, <4>3
        <4>5. QED
          BY <2>4, <2>19, <4>4 DEF Answered, TypeOK
      <3>2. CASE ~(event = "userinfo" /\ result.is = "replace")
        <4>1. c \in Text
          BY <2>5, <3>2 DEF TypeOK
        <4>2. QED
          BY <2>4, <2>19, <4>1 DEF Answered, TypeOK
      <3>3. QED
        BY <3>1, <3>2
    <2>20. CASE UNCHANGED vars
      BY <2>20 DEF vars, TypeOK
    <2>21. QED
      BY <2>7, <2>8, <2>9, <2>10, <2>12, <2>13, <2>14, <2>15, <2>17, <2>18, <2>19, <2>20 DEF Next
  <1>3. QED
    BY <1>1, <1>2, PTL DEF Spec

-----------------------------------------------------------------------------
(***************************************************************************)
(* RET_STOP_ALL.  It settles the dispatch as denied, so while handlers or   *)
(* commands still run, and when a dispatch is settled otherwise, nobody has *)
(* answered it; and nothing is executed before the whole way is done.       *)
(***************************************************************************)
NobodyStoppedAll ==
  \A e \in Events : \A k \in DOMAIN calls[e] : Answer(e, k).code # "stop_all"

Unblocked ==
  /\ pc # "idle" => executed = <<>>
  /\ pc \in {"handlers", "commands"} => NobodyStoppedAll
  /\ pc = "settled" /\ result # Deny => NobodyStoppedAll
  /\ executed # <<>> => NobodyStoppedAll

(* What any handler of either event answered with RET_STOP_ALL is not         *)
(* executed, whatever the other handlers and the commands answer.             *)
THEOREM NothingBlockedIsExecuted == Spec => []BlockedIsNotExecuted
  <1>1. Init => Unblocked
    BY DEF Init, Unblocked
  <1>2. TypeOK /\ Unblocked /\ [Next]_vars => Unblocked'
    <2> SUFFICES ASSUME TypeOK, Unblocked, [Next]_vars PROVE Unblocked'
      OBVIOUS
    <2>1. (calls' = [e \in Events |-> <<>>]) => NobodyStoppedAll'
      BY DEF NobodyStoppedAll, Answer
    <2>2. UNCHANGED calls => (NobodyStoppedAll' <=> NobodyStoppedAll)
      BY DEF NobodyStoppedAll, Answer
    <2>3. ASSUME NEW c \in Commands, Receive(c) PROVE Unblocked'
      <3>1. pc' = "handlers" /\ executed' = <<>> /\ calls' = [e \in Events |-> <<>>]
        BY <2>3 DEF Receive, StartHandlers
      <3>2. QED
        BY <2>1, <3>1 DEF Unblocked
    <2>4. ASSUME NEW c \in Commands, ReceiveUndispatched(c) PROVE Unblocked'
      <3>1. pc' = "idle" /\ calls' = [e \in Events |-> <<>>]
        BY <2>4 DEF ReceiveUndispatched, Execute
      <3>2. QED
        BY <2>1, <3>1 DEF Unblocked
    <2>5. ASSUME NEW a \in Answers, HandlerReturns(a) PROVE Unblocked'
      <3>1. pc = "handlers" /\ executed = <<>> /\ executed' = <<>> /\ NobodyStoppedAll
        BY <2>5 DEF HandlerReturns, Unblocked
      <3>2. CASE a.code = "stop_all"
        <4>1. pc' = "settled"
          BY <2>5, <3>2 DEF HandlerReturns
        <4>2. result' = Deny
          BY <2>5, <3>2 DEF HandlerReturns
        <4>3. QED
          BY <3>1, <4>1, <4>2 DEF Unblocked
      <3>3. CASE a.code # "stop_all"
        <4>1. calls' = [calls EXCEPT ![event] = Append(@, [saw |-> forwarded, answer |-> a])]
          BY <2>5 DEF HandlerReturns
        <4>2. calls \in [Events -> Seq([saw: Text, answer: Answers])] /\ event \in Events
          BY DEF TypeOK
        <4>3. ASSUME NEW e \in Events, NEW k \in DOMAIN calls'[e]
              PROVE  calls'[e][k].answer.code # "stop_all"
          <5>1. calls[e] \in Seq([saw: Text, answer: Answers])
            BY <4>2
          <5>2. CASE e # event
            BY <3>1, <4>1, <4>2, <4>3, <5>2 DEF NobodyStoppedAll, Answer
          <5>3. CASE e = event
            <6>1. calls'[e] = Append(calls[e], [saw |-> forwarded, answer |-> a])
              BY <4>1, <4>2, <5>3
            <6>2. CASE k \in DOMAIN calls[e]
              <7>1. calls'[e][k] = calls[e][k]
                BY <5>1, <6>1, <6>2
              <7>2. QED
                BY <3>1, <6>2, <7>1 DEF NobodyStoppedAll, Answer
            <6>3. CASE k \notin DOMAIN calls[e]
              <7>1. calls'[e][k] = [saw |-> forwarded, answer |-> a]
                BY <4>3, <5>1, <6>1, <6>3
              <7>2. QED
                BY <3>3, <7>1
            <6>4. QED
              BY <6>2, <6>3
          <5>4. QED
            BY <5>2, <5>3
        <4>4. NobodyStoppedAll'
          BY <4>3 DEF NobodyStoppedAll, Answer
        <4>5. QED
          BY <3>1, <4>4 DEF Unblocked
      <3>4. QED
        BY <3>2, <3>3
    <2>6. ASSUME HandlersDone PROVE Unblocked'
      <3>1. pc = "handlers" /\ UNCHANGED <<executed, calls>>
        BY <2>6 DEF HandlersDone
      <3>2. QED
        BY <2>2, <3>1 DEF Unblocked
    <2>7. ASSUME CommandVetoed \/ \E p \in BOOLEAN, code \in Codes : CommandReturns(p, code)
          PROVE  Unblocked'
      <3>1. pc = "commands" /\ UNCHANGED <<pc, executed, calls>>
        BY <2>7 DEF CommandVetoed, CommandReturns
      <3>2. QED
        BY <2>2, <3>1 DEF Unblocked
    <2>8. ASSUME CommandsDone PROVE Unblocked'
      <3>1. pc = "commands" /\ UNCHANGED <<executed, calls>>
        BY <2>8 DEF CommandsDone
      <3>2. QED
        BY <2>2, <3>1 DEF Unblocked
    <2>9. ASSUME Denied PROVE Unblocked'
      <3>1. pc' = "idle" /\ executed' = <<>>
        BY <2>9 DEF Denied
      <3>2. QED
        BY <3>1 DEF Unblocked
    <2>10. ASSUME PassOn \/ Answered PROVE Unblocked'
      <3>1. pc = "settled" /\ result # Deny /\ pc' = "idle" /\ UNCHANGED calls
        BY <2>10 DEF PassOn, Answered, Execute
      <3>2. QED
        BY <2>2, <3>1 DEF Unblocked
    <2>11. ASSUME Announce PROVE Unblocked'
      <3>1. pc = "settled" /\ result # Deny /\ UNCHANGED <<executed, calls>>
        BY <2>11 DEF Announce
      <3>2. QED
        BY <2>2, <3>1 DEF Unblocked
    <2>12. CASE UNCHANGED vars
      <3>1. UNCHANGED <<pc, result, executed, calls>>
        BY <2>12 DEF vars
      <3>2. QED
        BY <2>2, <3>1 DEF Unblocked
    <2>13. QED
      BY <2>3, <2>4, <2>5, <2>6, <2>7, <2>8, <2>9, <2>10, <2>11, <2>12 DEF Next
  <1>3. Unblocked => BlockedIsNotExecuted
    BY DEF Unblocked, BlockedIsNotExecuted, NobodyStoppedAll
  <1>4. QED
    BY <1>1, <1>2, <1>3, TypeCorrect, PTL DEF Spec

-----------------------------------------------------------------------------
(***************************************************************************)
(* The commands.  pass_through is what the verdicts amount to, as long as   *)
(* commands run: a verdict that overrides the others is the last one, so    *)
(* what a chat command stopped before it cannot come back.                  *)
(***************************************************************************)
LastVerdict == ran[Len(ran)]

LetsThrough ==
  \/ LastVerdict = "overrides"
  \/ LastVerdict = "passes" /\ (event = "chat" => ~Contains(ran, "stops"))

Counted ==
  /\ event \in {"client_command", "chat"}
  /\ event = "client_command" => result # Deny
  /\ ran = <<>> => pass = TRUE
  /\ ran # <<>> =>
       /\ (pass = TRUE) <=> LetsThrough
       /\ LastVerdict = "overrides" => left = 0
       /\ event = "chat" => LastVerdict # "withholds"

Judged ==
  /\ pc # "idle" => executed = <<>>
  /\ pc = "commands" => Counted
  /\ pc = "handlers" /\ event # "chat" => ran = <<>>
  /\ pc = "handlers" /\ result = Deny => calls[event] # <<>>
  /\ LastCommandDecides

(* The last command an input was given to decides whether it goes on, for any *)
(* number of commands.                                                        *)
THEOREM TheLastCommandDecides == Spec => []LastCommandDecides
  <1>1. Init => Judged
    BY DEF Init, Judged, LastCommandDecides
  <1>2. TypeOK /\ TypeOK' /\ Judged /\ [Next]_vars => Judged'
    <2> SUFFICES ASSUME TypeOK, TypeOK', Judged, [Next]_vars PROVE Judged'
      OBVIOUS
    <2>1. ASSUME NEW c \in Commands, Receive(c) PROVE Judged'
      <3>1. pc' = "handlers" /\ executed' = <<>> /\ ran' = <<>> /\ result' # Deny
        BY <2>1 DEF Receive, StartHandlers, Allow, Deny
      <3>2. QED
        BY <3>1 DEF Judged, LastCommandDecides
    <2>2. ASSUME NEW c \in Commands, ReceiveUndispatched(c) PROVE Judged'
      <3>1. pc' = "idle" /\ ran' = <<>>
        BY <2>2 DEF ReceiveUndispatched, Execute
      <3>2. QED
        BY <3>1 DEF Judged, LastCommandDecides
    <2>3. ASSUME NEW a \in Answers, HandlerReturns(a) PROVE Judged'
      <3>1. pc = "handlers" /\ pc' \in {"handlers", "settled"} /\ UNCHANGED <<event, executed, ran>>
        BY <2>3 DEF HandlerReturns
      <3>2. calls'[event] # <<>>
        <4>1. calls' = [calls EXCEPT ![event] = Append(@, [saw |-> forwarded, answer |-> a])]
          BY <2>3 DEF HandlerReturns
        <4>2. calls \in [Events -> Seq([saw: Text, answer: Answers])] /\ event \in Events
          BY DEF TypeOK
        <4>3. calls'[event] = Append(calls[event], [saw |-> forwarded, answer |-> a])
          BY <4>1, <4>2
        <4>4. calls[event] \in Seq([saw: Text, answer: Answers])
          BY <4>2
        <4>5. QED
          BY <4>3, <4>4
      <3>3. ran # <<>> => LetsThrough /\ event = "chat"
        BY <3>1 DEF Judged, LastCommandDecides, LetsThrough, LastVerdict
      <3>4. ran' # <<>> => LetsThrough'
        BY <3>1, <3>3 DEF LetsThrough, LastVerdict
      <3>5. LastCommandDecides'
        BY <3>1, <3>2, <3>3, <3>4 DEF LastCommandDecides, LetsThrough, LastVerdict
      <3>6. QED
        BY <3>1, <3>2, <3>3, <3>5 DEF Judged
    <2>4. ASSUME HandlersDone PROVE Judged'
      <3>1. pc = "handlers" /\ UNCHANGED <<executed, calls, ran>>
        BY <2>4 DEF HandlersDone
      <3>2. CASE pc' = "commands"
        <4>1. event = "client_command" /\ event' = event /\ result # Deny /\ result' = result
              /\ pass' = TRUE
          BY <2>4, <3>2 DEF HandlersDone, StartCommands
        <4>2. ran' = <<>>
          BY <3>1, <4>1 DEF Judged
        <4>3. QED
          BY <3>1, <3>2, <4>1, <4>2 DEF Judged, Counted, LastCommandDecides
      <3>3. CASE pc' = "settled" /\ event = "client_command" /\ event' = event
        <4>1. ran' = <<>>
          BY <3>1, <3>3 DEF Judged
        <4>2. QED
          BY <3>1, <3>3, <4>1 DEF Judged, LastCommandDecides
      <3>4. CASE pc' = "settled" /\ UNCHANGED <<event, result>>
        <4>1. ran # <<>> => LetsThrough /\ event = "chat"
          BY <3>1 DEF Judged, LastCommandDecides, LetsThrough, LastVerdict
        <4>2. ran' # <<>> => LetsThrough'
          BY <3>1, <3>4, <4>1 DEF LetsThrough, LastVerdict
        <4>3. result' = Deny => calls'[event'] # <<>>
          BY <3>1, <3>4 DEF Judged
        <4>4. LastCommandDecides'
          BY <3>1, <3>4, <4>1, <4>2, <4>3 DEF LastCommandDecides, LetsThrough, LastVerdict
        <4>5. QED
          BY <3>1, <3>4, <4>4 DEF Judged
      <3>5. QED
        BY <2>4, <3>2, <3>3, <3>4 DEF HandlersDone, StartCommands
    <2>5. ASSUME NEW verdict \in Verdicts, pc = "commands", left > 0,
                 ran' = Append(ran, verdict),
                 verdict = "overrides" => pass' = TRUE /\ left' = 0,
                 verdict = "stops" => pass' = FALSE,
                 verdict = "withholds" => pass' = FALSE /\ event = "client_command",
                 verdict = "passes" => pass' = IF event = "client_command" THEN TRUE ELSE pass,
                 UNCHANGED <<pc, event, result, executed, calls>>
          PROVE  Judged'
      <3>1. Counted /\ ran \in Seq(Verdicts) /\ Len(ran) \in Nat /\ pass \in BOOLEAN
        BY <2>5 DEF Judged, TypeOK
      <3>2. ran' # <<>> /\ Len(ran') = Len(ran) + 1 /\ LastVerdict' = verdict
            /\ \A k \in 1 .. Len(ran) : ran'[k] = ran[k]
        BY <2>5, <3>1 DEF LastVerdict
      <3>3. Contains(ran', "stops") <=> Contains(ran, "stops") \/ verdict = "stops"
        <4>1. Contains(ran', "stops") <=> \E k \in 1 .. Len(ran) + 1 : ran'[k] = "stops"
          BY <3>2 DEF Contains
        <4>2. ran'[Len(ran) + 1] = verdict
          BY <3>2 DEF LastVerdict
        <4>3. 1 .. Len(ran) + 1 = 1 .. Len(ran) \cup {Len(ran) + 1}
          BY <3>1
        <4>4. QED
          BY <3>2, <4>1, <4>2, <4>3 DEF Contains
      <3>4. CASE event = "client_command"
        <4>1. (pass' = TRUE) <=> LetsThrough'
          BY <2>5, <3>2, <3>4 DEF LetsThrough, Verdicts
        <4>2. Counted'
          BY <2>5, <3>1, <3>2, <3>4, <4>1 DEF Counted
        <4>3. QED
          BY <2>5, <4>2 DEF Judged, LastCommandDecides
      <3>5. CASE event = "chat"
        <4>1. verdict # "withholds" /\ event' = "chat"
          BY <2>5, <3>5
        <4>2. pass = TRUE <=> ~Contains(ran, "stops")
          <5>1. CASE ran = <<>>
            <6>1. ~Contains(ran, "stops")
              BY <5>1 DEF Contains
            <6>2. QED
              BY <3>1, <5>1, <6>1 DEF Counted
          <5>2. CASE ran # <<>>
            <6>1. LastVerdict # "overrides" /\ LastVerdict # "withholds"
              BY <2>5, <3>1, <3>5, <5>2 DEF Counted
            <6>2. LastVerdict \in Verdicts /\ Len(ran) \in 1 .. Len(ran)
              BY <3>1, <5>2 DEF LastVerdict
            <6>3. LastVerdict = "stops" => Contains(ran, "stops")
              BY <6>2 DEF Contains, LastVerdict
            <6>4. LastVerdict = "passes" \/ LastVerdict = "stops"
              BY <6>1, <6>2 DEF Verdicts
            <6>5. (pass = TRUE) <=> LetsThrough
              BY <3>1, <5>2 DEF Counted
            <6>6. QED
              BY <3>5, <6>3, <6>4, <6>5 DEF LetsThrough
          <5>3. QED
            BY <5>1, <5>2
        <4>3. (pass' = TRUE) <=> LetsThrough'
          BY <2>5, <3>2, <3>3, <3>5, <4>1, <4>2 DEF LetsThrough, Verdicts
        <4>4. Counted'
          BY <2>5, <3>1, <3>2, <3>5, <4>1, <4>3 DEF Counted
        <4>5. QED
          BY <2>5, <4>4 DEF Judged, LastCommandDecides
      <3>6. QED
        BY <3>1, <3>4, <3>5 DEF Counted
    <2>6. ASSUME CommandVetoed PROVE Judged'
      <3>1. ran' = Append(ran, "overrides")
        BY <2>6 DEF CommandVetoed, Ran
      <3>2. pc = "commands" /\ left > 0 /\ pass' = TRUE /\ left' = 0
            /\ UNCHANGED <<pc, event, result, executed, calls>>
        BY <2>6 DEF CommandVetoed
      <3>3. "overrides" \in Verdicts
        BY DEF Verdicts
      <3>4. QED
        BY <2>5, <3>1, <3>2, <3>3
    <2>7. ASSUME NEW p \in BOOLEAN, NEW code \in Codes, CommandReturns(p, code) PROVE Judged'
      <3> DEFINE verdict == CASE code \in {"stop", "stop_event", "stop_all"} -> "stops"
                              [] code \in {"vetoed", "raise"} -> "overrides"
                              [] OTHER -> IF event = "client_command" /\ ~p THEN "withholds"
                                                                           ELSE "passes"
      <3>1. ran' = Append(ran, verdict)
        BY <2>7 DEF CommandReturns, Ran
      <3>2. pc = "commands" /\ left > 0 /\ UNCHANGED <<pc, event, result, executed, calls>>
        BY <2>7 DEF CommandReturns
      <3>3. CASE code \in {"stop", "stop_event", "stop_all"}
        <4>1. verdict = "stops" /\ verdict \in Verdicts
          BY <3>3 DEF Verdicts
        <4>2. pass' = FALSE
          BY <2>7, <3>3 DEF CommandReturns
        <4>3. QED
          BY <2>5, <3>1, <3>2, <4>1, <4>2
      <3>4. CASE code = "raise"
        <4>1. verdict = "overrides" /\ verdict \in Verdicts
          BY <3>4 DEF Verdicts
        <4>2. pass' = TRUE /\ left' = 0
          BY <2>7, <3>4 DEF CommandReturns
        <4>3. QED
          BY <2>5, <3>1, <3>2, <4>1, <4>2
      <3>5. CASE code \in {"none", "unknown"}
        <4>1. verdict = IF event = "client_command" /\ ~p THEN "withholds" ELSE "passes"
          BY <3>5
        <4>2. pass' = IF event = "client_command" THEN p ELSE pass
          BY <2>7, <3>5 DEF CommandReturns, Passing
        <4>3. verdict \in Verdicts
          BY <4>1 DEF Verdicts
        <4>4. verdict = "withholds" => pass' = FALSE /\ event = "client_command"
          BY <4>1, <4>2
        <4>5. verdict = "passes" => pass' = IF event = "client_command" THEN TRUE ELSE pass
          BY <4>1, <4>2
        <4>6. verdict # "overrides" /\ verdict # "stops"
          BY <4>1
        <4>7. QED
          BY <2>5, <3>1, <3>2, <4>3, <4>4, <4>5, <4>6
      <3>6. QED
        BY <3>3, <3>4, <3>5 DEF Codes
    <2>8. ASSUME CommandsDone PROVE Judged'
      <3>1. pc = "commands" /\ Counted /\ executed = <<>> /\ UNCHANGED <<pass, executed, calls, ran>>
        BY <2>8 DEF CommandsDone, Judged
      <3>2. CASE event = "client_command"
        <4>1. pc' = "settled" /\ event' = event /\ result # Deny
              /\ result' = IF pass THEN result ELSE Deny
          BY <2>8, <3>1, <3>2 DEF CommandsDone, Counted
        <4>2. LetsThrough' <=> LetsThrough
          BY <3>1, <4>1 DEF LetsThrough, LastVerdict
        <4>3. ran # <<>> => ((result' # Deny) <=> LetsThrough)
          BY <3>1, <4>1 DEF Counted, TypeOK
        <4>4. LastCommandDecides'
          BY <3>1, <4>1, <4>2, <4>3 DEF LastCommandDecides, LetsThrough, LastVerdict
        <4>5. QED
          BY <3>1, <4>1, <4>4 DEF Judged
      <3>3. CASE event = "chat"
        <4>1. event' = event /\ (pass = TRUE => pc' = "handlers" /\ result' = Allow)
              /\ (pass = FALSE => pc' = "settled" /\ result' = Deny)
          BY <2>8, <3>3 DEF CommandsDone, StartHandlers
        <4>2. LetsThrough' <=> LetsThrough
          BY <3>1, <4>1 DEF LetsThrough, LastVerdict
        <4>3. pass \in BOOLEAN /\ Allow # Deny
          BY DEF TypeOK, Allow, Deny
        <4>4. ran # <<>> => ((pass = TRUE) <=> LetsThrough)
          BY <3>1 DEF Counted
        <4>5. LastCommandDecides'
          BY <3>1, <4>1, <4>2, <4>3, <4>4 DEF LastCommandDecides, LetsThrough, LastVerdict
        <4>6. QED
          BY <3>1, <3>3, <4>1, <4>3, <4>5 DEF Judged
      <3>4. QED
        BY <3>1, <3>2, <3>3 DEF Counted
    <2>9. ASSUME Denied PROVE Judged'
      <3>1. pc' = "idle" /\ executed' = <<>> /\ UNCHANGED <<event, ran>>
        BY <2>9 DEF Denied
      <3>2. QED
        BY <3>1 DEF Judged, LastCommandDecides
    <2>10. ASSUME PassOn \/ Answered PROVE Judged'
      <3>1. pc = "settled" /\ result # Deny /\ pc' = "idle" /\ UNCHANGED <<event, ran>>
        BY <2>10 DEF PassOn, Answered, Execute
      <3>2. ran # <<>> => LetsThrough
        BY <3>1 DEF Judged, LastCommandDecides, LetsThrough, LastVerdict
      <3>3. LetsThrough' <=> LetsThrough
        BY <3>1 DEF LetsThrough, LastVerdict
      <3>4. LastCommandDecides'
        BY <3>1, <3>2, <3>3 DEF LastCommandDecides, LetsThrough, LastVerdict
      <3>5. QED
        BY <3>1, <3>4 DEF Judged
    <2>11. ASSUME Announce PROVE Judged'
      <3>1. pc = "settled" /\ result # Deny /\ executed = <<>> /\ ran' = <<>> /\ executed' = <<>>
        BY <2>11 DEF Announce, Judged
      <3>2. \/ pc' = "commands" /\ event' = "chat" /\ pass' = TRUE
            \/ pc' = "settled"
            \/ pc' = "handlers" /\ result' = Allow
        BY <2>11 DEF Announce, StartChat, StartCommands, StartHandlers
      <3>3. Allow # Deny
        BY DEF Allow, Deny
      <3>4. QED
        BY <3>1, <3>2, <3>3 DEF Judged, Counted, LastCommandDecides
    <2>12. CASE UNCHANGED vars
      <3>1. UNCHANGED <<pc, event, result, left, pass, executed, calls, ran>>
        BY <2>12 DEF vars
      <3>2. QED
        BY <3>1 DEF Judged, Counted, LetsThrough, LastVerdict, LastCommandDecides
    <2>13. QED
      BY <2>1, <2>2, <2>3, <2>4, <2>6, <2>7, <2>8, <2>9, <2>10, <2>11, <2>12 DEF Next
  <1>3. Judged => LastCommandDecides
    BY DEF Judged
  <1>4. QED
    BY <1>1, <1>2, <1>3, TypeCorrect, PTL DEF Spec

-----------------------------------------------------------------------------
(***************************************************************************)
(* The answers.  What is settled so far is what the answers given so far    *)
(* come to, and the text handed on is the last replacement among them.      *)
(***************************************************************************)
Speaking == {k \in DOMAIN calls[event] : Speaks(event, k)}

LastOf(S) == CHOOSE k \in S : \A l \in S : l <= k

HasLast == Speaking # {} => \E k \in Speaking : \A l \in Speaking : l <= k

Meaning(a) ==
  CASE a.code = "stop" -> Allow
    [] a.code \in {"stop_event", "stop_all"} -> Deny
    [] OTHER -> Replace(a.value)

(* One more answer: if it has a meaning it is the last that has, and decides; *)
(* if it has none, everything stays as the answers before it settled it.      *)
LEMMA OutcomeAppends ==
  ASSUME TypeOK, HasLast, NEW a \in Answers, UNCHANGED event,
         calls' = [calls EXCEPT ![event] = Append(@, [saw |-> forwarded, answer |-> a])]
  PROVE  /\ Outcome(event)' =
              IF \/ a.code \in {"stop", "stop_event", "stop_all"}
                 \/ a.code = "value" /\ event \in Filtering
              THEN Meaning(a) ELSE Outcome(event)
         /\ HasLast'
  <1> DEFINE n == Len(calls[event])
             before == calls[event]
             after == calls'[event]
  <1>1. calls \in [Events -> Seq([saw: Text, answer: Answers])] /\ event \in Events
    BY DEF TypeOK
  <1>2. before \in Seq([saw: Text, answer: Answers]) /\ n \in Nat /\ DOMAIN before = 1 .. n
    <2>1. before \in Seq([saw: Text, answer: Answers])
      BY <1>1
    <2>2. QED
      BY <2>1, LenProperties
  <1>3. after = Append(before, [saw |-> forwarded, answer |-> a])
    BY <1>1
  <1>4. DOMAIN after = 1 .. n + 1 /\ after[n + 1].answer = a
        /\ \A k \in 1 .. n : after[k] = before[k]
    BY <1>2, <1>3
  <1>5. Speaking = {k \in 1 .. n :
                      \/ before[k].answer.code \in {"stop", "stop_event", "stop_all"}
                      \/ before[k].answer.code = "value" /\ event \in Filtering}
    BY <1>2 DEF Speaking, Speaks, Answer
  <1>6. Speaking' = {k \in 1 .. n + 1 :
                       \/ after[k].answer.code \in {"stop", "stop_event", "stop_all"}
                       \/ after[k].answer.code = "value" /\ event \in Filtering}
    BY <1>4 DEF Speaking, Speaks, Answer
  <1>7. Outcome(event) = IF Speaking = {} THEN Allow
                         ELSE Meaning(before[LastOf(Speaking)].answer)
    BY DEF Outcome, Speaking, Meaning, Answer, LastOf
  <1>8. Outcome(event)' = IF Speaking' = {} THEN Allow
                          ELSE Meaning(after[LastOf(Speaking')].answer)
    BY DEF Outcome, Speaking, Meaning, Answer, LastOf
  <1>9. CASE \/ a.code \in {"stop", "stop_event", "stop_all"}
             \/ a.code = "value" /\ event \in Filtering
    <2>1. n + 1 \in Speaking' /\ \A l \in Speaking' : l <= n + 1
      BY <1>2, <1>4, <1>6, <1>9
    <2>2. \A l \in Speaking' : l \in Nat
      BY <1>2, <1>6
    <2>3. \A k \in Speaking' : (\A l \in Speaking' : l <= k) => k = n + 1
      BY <1>2, <2>1, <2>2
    <2>4. LastOf(Speaking') = n + 1
      BY <2>1, <2>3 DEF LastOf
    <2>5. Outcome(event)' = Meaning(a)
      BY <1>4, <1>8, <2>1, <2>4
    <2>6. HasLast'
      BY <2>1 DEF HasLast
    <2>7. QED
      BY <1>9, <2>5, <2>6
  <1>10. CASE ~(\/ a.code \in {"stop", "stop_event", "stop_all"}
                \/ a.code = "value" /\ event \in Filtering)
    <2>1. 1 .. n + 1 = 1 .. n \cup {n + 1}
      BY <1>2
    <2>2. n + 1 \notin Speaking'
      BY <1>4, <1>6, <1>10
    <2>3. Speaking' = Speaking
      BY <1>4, <1>5, <1>6, <2>1, <2>2
    <2>4. HasLast'
      BY <2>3 DEF HasLast
    <2>5. CASE Speaking = {}
      BY <1>7, <1>8, <1>10, <2>3, <2>4, <2>5
    <2>6. CASE Speaking # {}
      <3>1. PICK k \in Speaking : \A l \in Speaking : l <= k
        BY <2>6 DEF HasLast
      <3>2. LastOf(Speaking) \in Speaking
        BY <3>1 DEF LastOf
      <3>3. after[LastOf(Speaking)] = before[LastOf(Speaking)]
        BY <1>4, <1>5, <3>2
      <3>4. QED
        BY <1>7, <1>8, <1>10, <2>3, <2>4, <2>6, <3>3
    <2>7. QED
      BY <2>5, <2>6
  <1>11. QED
    BY <1>9, <1>10

(***************************************************************************)
(* While handlers run, nobody has stopped the dispatch, the result is what  *)
(* they answered so far, and the text on hand is the last replacement.      *)
(***************************************************************************)
Stops(e, k) == Answer(e, k).code \in {"stop", "stop_all"}

Replaced(e, k) == Answer(e, k).code = "value"

ChainHolds ==
  \A k, l \in DOMAIN calls[event] :
    /\ event \in Filtering
    /\ k < l /\ Replaced(event, k)
    /\ \A m \in k + 1 .. l - 1 : ~Replaced(event, m)
    => calls[event][l].saw = Answer(event, k).value

OnHand ==
  \A k \in DOMAIN calls[event] :
    /\ event \in Filtering
    /\ Replaced(event, k)
    /\ \A m \in k + 1 .. Len(calls[event]) : ~Replaced(event, m)
    => forwarded = Answer(event, k).value

Asking ==
  /\ result = Outcome(event)
  /\ HasLast
  /\ \A k \in DOMAIN calls[event] : ~Stops(event, k)
  /\ ChainHolds
  /\ OnHand

Decided ==
  /\ pc # "idle" /\ event = "client_command" => \A e \in Events \ {event} : calls[e] = <<>>
  /\ pc = "commands" /\ event = "chat" => calls[event] = <<>>
  /\ pc = "commands" => event \in {"client_command", "chat"}
  /\ pc = "handlers" => Asking
  /\ LastAnswerDecides

(* The answers given so far settle what Decided says they do. *)
LEMMA AnswersSettle == Spec => []Decided
  <1>1. Init => Decided
    BY DEF Init, Decided, LastAnswerDecides
  <1>2. TypeOK /\ TypeOK' /\ Decided /\ [Next]_vars => Decided'
    <2> SUFFICES ASSUME TypeOK, TypeOK', Decided, [Next]_vars PROVE Decided'
      OBVIOUS
    <2>1. calls \in [Events -> Seq([saw: Text, answer: Answers])] /\ event \in Events
      BY DEF TypeOK
    <2>2. ASSUME calls'[event'] = <<>>, result' = Allow PROVE Asking'
      <3>1. DOMAIN calls'[event'] = {}
        BY <2>2
      <3>2. Speaking' = {} /\ Outcome(event)' = Allow
        BY <3>1 DEF Speaking, Outcome
      <3>3. QED
        BY <2>2, <3>1, <3>2 DEF Asking, HasLast, ChainHolds, OnHand
    <2>3. ASSUME NEW c \in Commands, Receive(c) PROVE Decided'
      <3>1. pc' = "handlers" /\ event' = "client_command" /\ result' = Allow
            /\ calls' = [e \in Events |-> <<>>]
        BY <2>3 DEF Receive, StartHandlers
      <3>2. event' \in Events
        BY DEF TypeOK
      <3>3. Asking'
        BY <2>2, <3>1, <3>2
      <3>4. LastAnswerDecides'
        BY <3>1, <3>3 DEF Asking, LastAnswerDecides, ChainHolds, Replaced, Stops
      <3>5. QED
        BY <3>1, <3>3, <3>4 DEF Decided
    <2>4. ASSUME pc' = "idle" PROVE Decided'
      BY <2>4 DEF Decided, LastAnswerDecides
    <2>5. ASSUME NEW a \in Answers, HandlerReturns(a) PROVE Decided'
      <3>0. PICK n \in Nat : n = Len(calls[event])
        <4>1. calls[event] \in Seq([saw: Text, answer: Answers])
          BY <2>1
        <4>2. QED
          BY <4>1, LenProperties
      <3>1. calls' = [calls EXCEPT ![event] = Append(@, [saw |-> forwarded, answer |-> a])]
            /\ pc = "handlers" /\ UNCHANGED event
        BY <2>5 DEF HandlerReturns
      <3>2. Asking
        BY <3>1 DEF Decided
      <3>3. calls[event] \in Seq([saw: Text, answer: Answers])
        BY <2>1
      <3>4. n \in Nat /\ DOMAIN calls[event] = 1 .. n
        BY <3>0, <3>3, LenProperties
      <3>5. calls'[event] = Append(calls[event], [saw |-> forwarded, answer |-> a])
        BY <2>1, <3>1
      <3>6. /\ DOMAIN calls'[event] = 1 .. n + 1 /\ Len(calls'[event]) = n + 1
            /\ calls'[event][n + 1] = [saw |-> forwarded, answer |-> a]
            /\ \A k \in 1 .. n : calls'[event][k] = calls[event][k]
        BY <3>0, <3>3, <3>4, <3>5, AppendProperties
      <3>7. Outcome(event)' = result' /\ HasLast'
        <4>1. /\ Outcome(event)' =
                   IF \/ a.code \in {"stop", "stop_event", "stop_all"}
                      \/ a.code = "value" /\ event \in Filtering
                   THEN Meaning(a) ELSE Outcome(event)
              /\ HasLast'
          BY <3>1, <3>2, OutcomeAppends DEF Asking
        <4>2. result' =
                   IF \/ a.code \in {"stop", "stop_event", "stop_all"}
                      \/ a.code = "value" /\ event \in Filtering
                   THEN Meaning(a) ELSE result
          BY <2>5 DEF HandlerReturns, Meaning
        <4>3. QED
          BY <3>2, <4>1, <4>2 DEF Asking
      <3>8. \A k \in 1 .. n : ~Stops(event, k)
        BY <3>2, <3>4 DEF Asking
      <3>9. \A k \in 1 .. n : /\ Answer(event, k)' = Answer(event, k)
                              /\ Replaced(event, k)' <=> Replaced(event, k)
                              /\ ~Stops(event, k)'
        BY <3>1, <3>6, <3>8 DEF Answer, Replaced, Stops
      <3>10. Answer(event, n + 1)' = a
        BY <3>1, <3>6 DEF Answer
      <3>11. ChainHolds'
        <4> SUFFICES ASSUME NEW k \in 1 .. n + 1, NEW l \in 1 .. n + 1,
                            event \in Filtering, k < l, Replaced(event, k)',
                            \A m \in k + 1 .. l - 1 : ~Replaced(event, m)'
                     PROVE  calls'[event][l].saw = Answer(event, k)'.value
          BY <3>1, <3>6 DEF ChainHolds
        <4>1. k \in 1 .. n /\ Replaced(event, k) /\ Answer(event, k)' = Answer(event, k)
          BY <3>4, <3>9
        <4>2. \A m \in k + 1 .. l - 1 : m \in 1 .. n
          BY <3>4
        <4>3. \A m \in k + 1 .. l - 1 : ~Replaced(event, m)
          BY <3>9, <4>2
        <4>4. CASE l \in 1 .. n
          <5>1. ChainHolds /\ k \in DOMAIN calls[event] /\ l \in DOMAIN calls[event]
            BY <3>2, <3>4, <4>1, <4>4 DEF Asking
          <5>2. calls[event][l].saw = Answer(event, k).value
            BY <4>1, <4>3, <5>1 DEF ChainHolds
          <5>3. calls'[event][l] = calls[event][l]
            BY <3>6, <4>4
          <5>4. QED
            BY <4>1, <5>2, <5>3
        <4>5. CASE l = n + 1
          <5>1. \A m \in k + 1 .. n : ~Replaced(event, m)
            BY <3>4, <4>3, <4>5
          <5>2. forwarded = Answer(event, k).value
            BY <3>0, <3>2, <3>4, <4>1, <5>1 DEF Asking, OnHand
          <5>3. QED
            BY <3>6, <4>1, <4>5, <5>2
        <4>6. QED
          BY <3>4, <4>4, <4>5
      <3>12. OnHand'
        <4> SUFFICES ASSUME NEW k \in 1 .. n + 1, event \in Filtering, Replaced(event, k)',
                            \A m \in k + 1 .. n + 1 : ~Replaced(event, m)'
                     PROVE  forwarded' = Answer(event, k)'.value
          BY <3>1, <3>6 DEF OnHand
        <4>1. CASE k = n + 1
          <5>1. a.code = "value"
            BY <3>10, <4>1 DEF Replaced
          <5>2. forwarded' = a.value
            BY <2>5, <5>1 DEF HandlerReturns
          <5>3. QED
            BY <3>10, <4>1, <5>2
        <4>2. CASE k \in 1 .. n
          <5>1. ~Replaced(event, n + 1)'
            BY <3>4, <4>2
          <5>2. a.code # "value"
            BY <3>10, <5>1 DEF Replaced
          <5>3. forwarded' = forwarded
            BY <2>5, <5>2 DEF HandlerReturns
          <5>4. \A m \in k + 1 .. n : m \in 1 .. n /\ m \in k + 1 .. n + 1
            BY <3>4, <4>2
          <5>5. \A m \in k + 1 .. n : ~Replaced(event, m)
            BY <3>9, <5>4
          <5>6. Replaced(event, k) /\ Answer(event, k)' = Answer(event, k)
            BY <3>9, <4>2
          <5>7. forwarded = Answer(event, k).value
            BY <3>0, <3>2, <3>4, <4>2, <5>5, <5>6 DEF Asking, OnHand
          <5>8. QED
            BY <5>3, <5>6, <5>7
        <4>3. QED
          BY <3>4, <4>1, <4>2
      <3>13. pc' = IF a.code \in {"stop", "stop_all"} THEN "settled" ELSE "handlers"
        BY <2>5 DEF HandlerReturns
      <3>14. \A k \in DOMAIN calls'[event'] : Stops(event, k)' => k = Len(calls'[event'])
        BY <3>1, <3>4, <3>6, <3>9
      <3>15. pc' = "handlers" => \A k \in DOMAIN calls'[event'] : ~Stops(event, k)'
        <4>1. pc' = "handlers" => ~Stops(event, n + 1)'
          BY <3>10, <3>13 DEF Stops
        <4>2. QED
          BY <3>1, <3>4, <3>6, <3>9, <4>1
      <3>16. LastAnswerDecides'
        BY <3>7, <3>11, <3>14 DEF LastAnswerDecides, ChainHolds, Replaced, Stops
      <3>17. \A e \in Events \ {event} : calls'[e] = calls[e]
        BY <2>1, <3>1
      <3>18. pc' = "handlers" => Asking'
        BY <3>7, <3>11, <3>12, <3>15 DEF Asking
      <3>19. QED
        BY <3>1, <3>13, <3>16, <3>17, <3>18 DEF Decided
    <2>6. ASSUME HandlersDone PROVE Decided'
      <3>1. pc = "handlers" /\ Asking /\ UNCHANGED <<event, calls>>
        BY <2>6 DEF HandlersDone, StartCommands, Decided
      <3>2. CASE event = "client_command"
        <4>1. pc' \in {"commands", "settled"}
          BY <2>6 DEF HandlersDone, StartCommands
        <4>2. LastAnswerDecides'
          BY <3>1, <3>2, <4>1 DEF LastAnswerDecides
        <4>3. QED
          BY <3>1, <3>2, <4>1, <4>2 DEF Decided
      <3>3. CASE event # "client_command"
        <4>1. pc' = "settled" /\ result' = result
          BY <2>6, <3>3 DEF HandlersDone
        <4>2. Outcome(event)' = Outcome(event)
          BY <3>1 DEF Outcome, Speaks, Answer
        <4>3. LastAnswerDecides
          BY DEF Decided
        <4>4. LastAnswerDecides'
          BY <3>1, <4>1, <4>2, <4>3 DEF LastAnswerDecides, Answer
        <4>5. QED
          BY <3>1, <3>3, <4>1, <4>4 DEF Decided
      <3>4. QED
        BY <3>2, <3>3
    <2>7. ASSUME CommandVetoed \/ \E p \in BOOLEAN, code \in Codes : CommandReturns(p, code)
          PROVE  Decided'
      <3>1. pc = "commands" /\ UNCHANGED <<pc, event, calls>>
        BY <2>7 DEF CommandVetoed, CommandReturns
      <3>2. QED
        BY <3>1 DEF Decided, LastAnswerDecides
    <2>8. ASSUME CommandsDone PROVE Decided'
      <3>1. pc = "commands" /\ event \in {"client_command", "chat"} /\ UNCHANGED calls
        BY <2>8 DEF CommandsDone, Decided
      <3>2. CASE event = "client_command"
        <4>1. pc' = "settled" /\ event' = event
          BY <2>8, <3>2 DEF CommandsDone
        <4>2. QED
          BY <3>1, <3>2, <4>1 DEF Decided, LastAnswerDecides
      <3>3. CASE event = "chat"
        <4>1. event' = event /\ calls'[event'] = <<>>
              /\ ((pc' = "handlers" /\ result' = Allow) \/ pc' = "settled")
          BY <2>8, <3>1, <3>3 DEF CommandsDone, StartHandlers, Decided
        <4>2. pc' = "handlers" => Asking'
          BY <2>2, <4>1
        <4>3. LastAnswerDecides'
          BY <4>1, <4>2 DEF Asking, LastAnswerDecides, ChainHolds, Replaced, Stops
        <4>4. QED
          BY <3>1, <3>3, <4>1, <4>2, <4>3 DEF Decided
      <3>4. QED
        BY <3>1, <3>2, <3>3
    <2>9. ASSUME Announce PROVE Decided'
      <3>1. pc = "settled" /\ event = "client_command" /\ UNCHANGED calls
        BY <2>9 DEF Announce
      <3>2. \/ pc' \in {"commands", "settled"} /\ event' = "chat"
            \/ pc' = "handlers" /\ result' = Allow
                 /\ event' \in {"chat", "vote_called", "vote", "team_switch_attempt", "userinfo"}
        BY <2>9 DEF Announce, StartChat, StartCommands, StartHandlers, EventOf
      <3>3. event' \in Events /\ event' # "client_command"
        BY <3>2 DEF TypeOK
      <3>4. calls'[event'] = <<>>
        BY <3>1, <3>3 DEF Decided
      <3>5. pc' = "handlers" => Asking'
        BY <2>2, <3>2, <3>4
      <3>6. LastAnswerDecides'
        BY <3>2, <3>4, <3>5 DEF Asking, LastAnswerDecides, ChainHolds, Replaced, Stops
      <3>7. QED
        BY <3>2, <3>3, <3>4, <3>5, <3>6 DEF Decided
    <2>10. CASE UNCHANGED vars
      <3>1. UNCHANGED <<pc, event, forwarded, result, calls>>
        BY <2>10 DEF vars
      <3>2. Outcome(event)' = Outcome(event) /\ Speaking' = Speaking
        BY <3>1 DEF Outcome, Speaking, Speaks, Answer
      <3>3. Asking' <=> Asking
        BY <3>1, <3>2 DEF Asking, HasLast, ChainHolds, OnHand, Replaced, Stops, Answer
      <3>4. LastAnswerDecides
        BY DEF Decided
      <3>5. LastAnswerDecides'
        BY <3>1, <3>2, <3>4 DEF LastAnswerDecides, Answer
      <3>6. QED
        BY <3>1, <3>3, <3>5 DEF Decided
    <2>11. ASSUME NEW c \in Commands, ReceiveUndispatched(c) PROVE pc' = "idle"
      BY <2>11 DEF ReceiveUndispatched, Execute
    <2>12. Denied \/ PassOn \/ Answered => pc' = "idle"
      BY DEF Denied, PassOn, Answered, Execute
    <2>13. QED
      BY <2>3, <2>4, <2>5, <2>6, <2>7, <2>8, <2>9, <2>10, <2>11, <2>12 DEF Next
  <1>3. QED
    BY <1>1, <1>2, TypeCorrect, PTL DEF Spec

(* The last answer with a meaning decides a dispatch, nothing is asked after  *)
(* it was stopped, and each handler is given the last replacement before it,  *)
(* for any number of handlers and whatever they answer.                       *)
THEOREM TheLastAnswerDecides == Spec => []LastAnswerDecides
  <1>1. Decided => LastAnswerDecides
    BY DEF Decided
  <1>2. QED
    BY <1>1, AnswersSettle, PTL

-----------------------------------------------------------------------------
(***************************************************************************)
(* The text.  What the client_command handlers agreed on stays settled for  *)
(* the rest of the way, for none of them is asked again; the event that     *)
(* follows is the one that text stands for and no other event is dispatched.*)
(***************************************************************************)
Agreed ==
  IF Outcome("client_command").is = "replace" THEN Outcome("client_command").text ELSE original

Shown == IF Agreed.kind = "say" THEN Reformatted(Agreed) ELSE Agreed

Followed ==
  /\ updated = Agreed
  /\ Agreed.kind \in DOMAIN EventOf
  /\ event = EventOf[Agreed.kind]
  /\ \A e \in Events \ {"client_command", event} : calls[e] = <<>>
  /\ calls[event] # <<>> => calls[event][1].saw = Shown
  /\ pc = "handlers" /\ calls[event] = <<>> => forwarded = Shown
  /\ pc = "settled" /\ result # Deny => result = Outcome(event)

Agreement ==
  /\ pc # "idle" => executed = <<>>
  /\ pc \in {"commands", "settled"} /\ event = "client_command" /\ result # Deny =>
       result = Outcome(event)
  /\ pc # "idle" /\ event # "client_command" => Followed
  /\ ExecutesWhatWasAgreed

(* What a handler answers is what its dispatch comes to. *)
LEMMA AnswerCounts ==
  ASSUME TypeOK, Decided, NEW a \in Answers, HandlerReturns(a)
  PROVE  Outcome(event)' = result' /\ UNCHANGED event
  <1>1. /\ calls' = [calls EXCEPT ![event] = Append(@, [saw |-> forwarded, answer |-> a])]
        /\ pc = "handlers" /\ UNCHANGED event
    BY DEF HandlerReturns
  <1>2. HasLast /\ result = Outcome(event)
    BY <1>1 DEF Decided, Asking
  <1>3. Outcome(event)' =
           IF \/ a.code \in {"stop", "stop_event", "stop_all"}
              \/ a.code = "value" /\ event \in Filtering
           THEN Meaning(a) ELSE Outcome(event)
    BY <1>1, <1>2, OutcomeAppends
  <1>4. result' =
           IF \/ a.code \in {"stop", "stop_event", "stop_all"}
              \/ a.code = "value" /\ event \in Filtering
           THEN Meaning(a) ELSE result
    BY DEF HandlerReturns, Meaning
  <1>5. QED
    BY <1>1, <1>2, <1>3, <1>4

(* The outcome of an event is a matter of its answers alone. *)
LEMMA OutcomeOfAnswers ==
  ASSUME NEW e, calls'[e] = calls[e]
  PROVE  Outcome(e)' = Outcome(e)
  BY DEF Outcome, Speaks, Answer

(* Two kinds of command that stand for the same event are the same kind. *)
LEMMA EventsTellKinds ==
  ASSUME NEW k \in DOMAIN EventOf, EventOf[k] = "chat"
  PROVE  k = "say"
  BY DEF EventOf

(* A message keeps its kind when it is reformatted. *)
LEMMA ReformattedKind ==
  ASSUME NEW c \in Text
  PROVE  Reformatted(c).kind = c.kind
  BY DEF Reformatted, Text

(* Nothing that a step leaves alone can end the agreement. *)
LEMMA AgreementStands ==
  ASSUME UNCHANGED <<event, original, updated, forwarded, calls>>, pc' # "idle",
         executed' = <<>>,
         pc' = "handlers" => pc = "handlers",
         event # "client_command" => Followed,
         pc' \in {"commands", "settled"} /\ result' # Deny => result' = Outcome(event)
  PROVE  Agreement'
  <1>1. \A e : Outcome(e)' = Outcome(e)
    BY OutcomeOfAnswers
  <1>2. Agreed' = Agreed /\ Shown' = Shown
    BY <1>1 DEF Agreed, Shown, Reformatted
  <1>3. event # "client_command" => Followed'
    BY <1>1, <1>2 DEF Followed
  <1>4. ExecutesWhatWasAgreed'
    BY DEF ExecutesWhatWasAgreed
  <1>5. QED
    BY <1>1, <1>3, <1>4 DEF Agreement

(* What is executed is what the client_command handlers made of the command,  *)
(* or what its own event made of that, and the handlers of that event were    *)
(* shown the same text: for any number of handlers, commands and replacements *)
(* no older text is mixed with a newer event.                                 *)
THEOREM OnlyTheAgreedIsExecuted == Spec => []ExecutesWhatWasAgreed
  <1>1. Init => Agreement
    BY DEF Init, Agreement, ExecutesWhatWasAgreed
  <1>2. TypeOK /\ TypeOK' /\ Decided /\ Agreement /\ [Next]_vars => Agreement'
    <2> SUFFICES ASSUME TypeOK, TypeOK', Decided, Agreement, [Next]_vars PROVE Agreement'
      OBVIOUS
    <2>1. calls \in [Events -> Seq([saw: Text, answer: Answers])] /\ event \in Events
          /\ "client_command" \in Events
      BY DEF TypeOK, Events
    <2>2. ASSUME executed' = <<>>, event' = "client_command", pc' = "handlers" PROVE Agreement'
      BY <2>2 DEF Agreement, ExecutesWhatWasAgreed
    <2>3. ASSUME NEW c \in Commands, Receive(c) PROVE Agreement'
      BY <2>2, <2>3 DEF Receive, StartHandlers
    <2>4. ASSUME NEW c \in Commands, ReceiveUndispatched(c) PROVE Agreement'
      <3>1. /\ pc' = "idle" /\ original' = c /\ calls' = [e \in Events |-> <<>>]
            /\ executed' = <<>> \/ executed' = <<c>>
        BY <2>4 DEF ReceiveUndispatched, Execute
      <3>2. calls'["client_command"] = <<>> /\ Outcome("client_command")' = Allow
        <4>1. calls'["client_command"] = <<>>
          BY <2>1, <3>1
        <4>2. DOMAIN calls'["client_command"] = {}
          BY <4>1
        <4>3. QED
          BY <4>1, <4>2 DEF Outcome
      <3>3. Outcome("client_command")'.is # "replace"
        BY <3>2 DEF Allow
      <3>4. ExecutesWhatWasAgreed'
        BY <3>1, <3>2, <3>3 DEF ExecutesWhatWasAgreed
      <3>5. QED
        BY <3>1, <3>4 DEF Agreement
    <2>5. ASSUME NEW a \in Answers, HandlerReturns(a) PROVE Agreement'
      <3>1. /\ pc = "handlers" /\ executed = <<>>
            /\ calls' = [calls EXCEPT ![event] = Append(@, [saw |-> forwarded, answer |-> a])]
            /\ pc' \in {"handlers", "settled"}
            /\ UNCHANGED <<event, original, updated, executed>>
        BY <2>5 DEF HandlerReturns, Agreement
      <3>2. result' = Outcome(event)'
        BY <2>5, AnswerCounts
      <3>3. ExecutesWhatWasAgreed'
        BY <3>1 DEF ExecutesWhatWasAgreed
      <3>4. ASSUME event # "client_command" PROVE Followed'
        <4>1. Followed
          BY <3>1, <3>4 DEF Agreement
        <4>2. Outcome("client_command")' = Outcome("client_command")
          BY <2>1, <3>1, <3>4, OutcomeOfAnswers
        <4>3. Agreed' = Agreed /\ Shown' = Shown
          BY <3>1, <4>2 DEF Agreed, Shown, Reformatted
        <4>4. \A e \in Events \ {"client_command", event} : calls'[e] = <<>>
          BY <2>1, <3>1, <4>1 DEF Followed
        <4>5. calls'[event] # <<>> /\ calls'[event][1].saw = Shown
          <5>1. calls[event] \in Seq([saw: Text, answer: Answers])
            BY <2>1
          <5>2. calls'[event] = Append(calls[event], [saw |-> forwarded, answer |-> a])
            BY <2>1, <3>1
          <5>3. Len(calls'[event]) = Len(calls[event]) + 1 /\ Len(calls[event]) \in Nat
            BY <5>1, <5>2, AppendProperties, LenProperties
          <5>4. calls'[event] # <<>>
            BY <5>3
          <5>5. CASE calls[event] = <<>>
            <6>1. calls'[event][1] = [saw |-> forwarded, answer |-> a]
              BY <5>2, <5>5
            <6>2. forwarded = Shown
              BY <3>1, <4>1, <5>5 DEF Followed
            <6>3. QED
              BY <5>4, <6>1, <6>2
          <5>6. CASE calls[event] # <<>>
            <6>1. 1 \in 1 .. Len(calls[event])
              BY <5>1, <5>3, <5>6, EmptySeq
            <6>2. calls'[event][1] = calls[event][1]
              BY <5>1, <5>2, <6>1, AppendProperties
            <6>3. QED
              BY <4>1, <5>4, <5>6, <6>2 DEF Followed
          <5>7. QED
            BY <5>5, <5>6
        <4>6. updated' = Agreed' /\ Agreed'.kind \in DOMAIN EventOf /\ event' = EventOf[Agreed'.kind]
          BY <3>1, <4>1, <4>3 DEF Followed
        <4>7. QED
          BY <3>1, <3>2, <4>3, <4>4, <4>5, <4>6 DEF Followed
      <3>5. QED
        BY <3>1, <3>2, <3>3, <3>4 DEF Agreement
    <2>6. ASSUME HandlersDone PROVE Agreement'
      <3>1. /\ pc = "handlers" /\ result = Outcome(event) /\ executed' = <<>>
            /\ pc' \in {"commands", "settled"}
            /\ UNCHANGED <<event, original, updated, forwarded, calls>>
            /\ result' \in {Deny, result}
        BY <2>6 DEF HandlersDone, StartCommands, Decided, Asking, Agreement
      <3>2. event # "client_command" => Followed
        BY <3>1 DEF Agreement
      <3>3. result' # Deny => result' = Outcome(event)
        BY <3>1
      <3>4. QED
        BY <3>1, <3>2, <3>3, AgreementStands
    <2>7. ASSUME CommandVetoed \/ \E p \in BOOLEAN, code \in Codes : CommandReturns(p, code)
          PROVE  Agreement'
      <3>1. pc = "commands" /\ UNCHANGED <<pc, event, original, updated, forwarded, result,
                                           executed, calls>>
        BY <2>7 DEF CommandVetoed, CommandReturns
      <3>2. \A e : Outcome(e)' = Outcome(e)
        BY <3>1, OutcomeOfAnswers
      <3>3. Agreed' = Agreed /\ Shown' = Shown
        BY <3>1, <3>2 DEF Agreed, Shown, Reformatted
      <3>4. QED
        BY <3>1, <3>2, <3>3 DEF Agreement, Followed, ExecutesWhatWasAgreed
    <2>8. ASSUME CommandsDone PROVE Agreement'
      <3>1. /\ pc = "commands" /\ executed' = <<>> /\ event \in {"client_command", "chat"}
            /\ UNCHANGED <<event, original, updated, calls>>
        BY <2>8 DEF CommandsDone, StartHandlers, Decided, Agreement
      <3>2. CASE pc' = "settled" /\ result' \in {Deny, result} /\ UNCHANGED forwarded
                 /\ event = "client_command"
        <4>1. result' # Deny => result' = Outcome(event)
          BY <3>1, <3>2 DEF Agreement
        <4>2. QED
          BY <3>1, <3>2, <4>1, AgreementStands
      <3>3. CASE pc' = "settled" /\ result' = Deny /\ UNCHANGED forwarded
                 /\ event = "chat"
        <4>1. Followed
          BY <3>1, <3>3 DEF Agreement
        <4>2. QED
          BY <3>1, <3>3, <4>1, AgreementStands
      <3>4. CASE event = "chat" /\ StartHandlers(event, Reformatted(updated))
        <4>1. Followed /\ calls[event] = <<>>
          BY <3>1, <3>4 DEF Agreement, Decided
        <4>2. \A e : Outcome(e)' = Outcome(e)
          BY <3>1, OutcomeOfAnswers
        <4>3. Agreed' = Agreed /\ Shown' = Shown
          BY <3>1, <4>2 DEF Agreed, Shown, Reformatted
        <4>4. pc' = "handlers" /\ forwarded' = Reformatted(updated)
          BY <3>4 DEF StartHandlers
        <4>5. Agreed.kind = "say"
          BY <3>4, <4>1, EventsTellKinds DEF Followed
        <4>6. forwarded' = Shown
          BY <4>1, <4>4, <4>5 DEF Followed, Shown
        <4>7. Followed'
          BY <3>1, <4>1, <4>3, <4>4, <4>6 DEF Followed
        <4>8. QED
          BY <3>1, <4>4, <4>7 DEF Agreement, ExecutesWhatWasAgreed
      <3>5. QED
        BY <2>8, <3>2, <3>3, <3>4 DEF CommandsDone
    <2>9. ASSUME pc' = "idle", UNCHANGED <<original, calls>>, ExecutesWhatWasAgreed' PROVE Agreement'
      BY <2>9 DEF Agreement
    <2>10. ASSUME Denied PROVE Agreement'
      BY <2>10 DEF Denied, Agreement, ExecutesWhatWasAgreed
    <2>11. pc = "settled" /\ event = "client_command" /\ result # Deny => UpdatedCommand = Agreed
      BY DEF Agreement, UpdatedCommand, Agreed
    <2>12. ASSUME NEW c \in Text, pc = "settled", Execute(c),
                  UNCHANGED <<event, original, calls, forwarded, result>>,
                  c.kind = Agreed.kind,
                  c.body = Shown.body \/
                    (Outcome("userinfo").is = "replace" /\
                     c.body = UpdateInfo[<<Agreed.body, Outcome("userinfo").text.body>>]),
                  \A e \in Events \ {"client_command"} :
                    calls[e] # <<>> => e = EventOf[Agreed.kind] /\ calls[e][1].saw = Shown
           PROVE  Agreement'
      <3>1. pc' = "idle" /\ (executed' = <<>> \/ executed' = <<c>>)
        BY <2>12 DEF Execute
      <3>2. \A e : Outcome(e)' = Outcome(e)
        BY <2>12, OutcomeOfAnswers
      <3>3. Agreed' = Agreed /\ Shown' = Shown
        BY <2>12, <3>2 DEF Agreed, Shown, Reformatted
      <3>4. ExecutesWhatWasAgreed' = (executed' # <<>> =>
              /\ executed'[1].kind = Agreed'.kind
              /\ executed'[1].body \in
                   (IF calls'["client_command"] = <<>> THEN {Agreed'.body} ELSE {})
                     \cup {Shown'.body}
                     \cup (IF Outcome("userinfo")'.is = "replace"
                           THEN {UpdateInfo[<<Agreed'.body, Outcome("userinfo")'.text.body>>]}
                           ELSE {})
              /\ \A e \in Events \ {"client_command"} :
                   calls'[e] # <<>> => e = EventOf[Agreed'.kind] /\ calls'[e][1].saw = Shown')
        BY DEF ExecutesWhatWasAgreed, Agreed, Shown
      <3>5. CASE executed' = <<>>
        BY <2>9, <2>12, <3>1, <3>4, <3>5
      <3>6. CASE executed' = <<c>>
        <4>1. executed'[1] = c
          BY <3>6
        <4>2. executed'[1].kind = Agreed'.kind
          BY <2>12, <3>3, <4>1
        <4>3. Outcome("userinfo")' = Outcome("userinfo")
          BY <3>2
        <4>4. \/ executed'[1].body = Shown'.body
              \/ /\ Outcome("userinfo")'.is = "replace"
                 /\ executed'[1].body =
                      UpdateInfo[<<Agreed'.body, Outcome("userinfo")'.text.body>>]
          BY <2>12, <3>3, <4>1, <4>3
        <4>5. \A e \in Events \ {"client_command"} :
                calls'[e] # <<>> => e = EventOf[Agreed'.kind] /\ calls'[e][1].saw = Shown'
          BY <2>12, <3>3
        <4>6. ExecutesWhatWasAgreed'
          BY <3>4, <4>2, <4>4, <4>5
        <4>7. QED
          BY <2>9, <2>12, <3>1, <4>6
      <3>7. QED
        BY <3>1, <3>5, <3>6
    <2>13. ASSUME PassOn PROVE Agreement'
      <3>1. pc = "settled" /\ event = "client_command" /\ result # Deny
            /\ UpdatedCommand.kind # "say" /\ Execute(UpdatedCommand)
            /\ UNCHANGED <<event, original, forwarded, result, calls>>
        BY <2>13 DEF PassOn
      <3>2. UpdatedCommand = Agreed /\ UpdatedCommand \in Text
        <4>1. UpdatedCommand = Agreed
          BY <2>11, <3>1
        <4>2. UpdatedCommand \in Text
          BY ConstantsAssumption DEF UpdatedCommand, TypeOK, Results
        <4>3. QED
          BY <4>1, <4>2
      <3>3. Shown = Agreed
        BY <3>1, <3>2 DEF Shown
      <3>4. \A e \in Events \ {"client_command"} : calls[e] = <<>>
        BY <3>1 DEF Decided
      <3>5. QED
        BY <2>12, <3>1, <3>2, <3>3, <3>4
    <2>14. ASSUME Announce PROVE Agreement'
      <3>1. /\ pc = "settled" /\ event = "client_command" /\ result # Deny
            /\ UpdatedCommand.kind \in DOMAIN EventOf
            /\ updated' = UpdatedCommand /\ executed' = <<>>
            /\ UNCHANGED <<original, executed, calls>>
        BY <2>14 DEF Announce, Agreement
      <3>2. UpdatedCommand = Agreed
        BY <2>11, <3>1
      <3>3. \A e : Outcome(e)' = Outcome(e)
        BY <3>1, OutcomeOfAnswers
      <3>4. Agreed' = Agreed /\ Shown' = Shown
        BY <3>1, <3>3 DEF Agreed, Shown, Reformatted
      <3>5. /\ event' = EventOf[Agreed.kind]
            /\ pc' = "handlers" => forwarded' = Shown
            /\ pc' = "settled" => result' = Deny
            /\ pc' # "idle"
        <4>1. CASE Agreed.kind = "say"
          BY <2>14, <3>1, <3>2, <4>1 DEF Announce, StartChat, StartCommands, EventOf
        <4>2. CASE Agreed.kind # "say"
          BY <2>14, <3>1, <3>2, <4>2 DEF Announce, StartHandlers, Shown
        <4>3. QED
          BY <4>1, <4>2
      <3>6. event' # "client_command" /\ event' \in Events
        BY <3>1, <3>2, <3>5 DEF EventOf, TypeOK
      <3>7. \A e \in Events \ {"client_command"} : calls'[e] = <<>>
        BY <3>1 DEF Decided
      <3>8. Followed'
        BY <3>1, <3>2, <3>4, <3>5, <3>6, <3>7 DEF Followed
      <3>9. QED
        BY <3>1, <3>6, <3>8 DEF Agreement, ExecutesWhatWasAgreed
    <2>15. ASSUME Answered PROVE Agreement'
      <3> DEFINE c == CASE event = "chat" -> Reformatted(updated)
                        [] event = "userinfo" /\ result.is = "replace" ->
                             [updated EXCEPT !.body = UpdateInfo[<<@, result.text.body>>]]
                        [] OTHER -> updated
      <3>1. /\ pc = "settled" /\ event # "client_command" /\ result # Deny /\ Execute(c)
            /\ UNCHANGED <<event, original, calls, forwarded, result>>
        BY <2>15 DEF Answered
      <3>2. Followed /\ result = Outcome(event)
        BY <3>1 DEF Agreement, Followed
      <3>3. updated = Agreed /\ updated \in Text
        BY <3>2 DEF Followed, TypeOK
      <3>4. \A e \in Events \ {"client_command"} :
              calls[e] # <<>> => e = EventOf[Agreed.kind] /\ calls[e][1].saw = Shown
        BY <3>2 DEF Followed
      <3>5. CASE event = "chat"
        <4>1. Agreed.kind = "say"
          BY <3>2, <3>5, EventsTellKinds DEF Followed
        <4>2. c = Reformatted(Agreed) /\ Shown = c
          BY <3>3, <3>5, <4>1 DEF Shown
        <4>3. c \in Text /\ c.kind = Agreed.kind
          BY <3>3, <4>2, ConstantsAssumption DEF Reformatted, Text
        <4> HIDE DEF c
        <4>4. QED
          BY <2>12, <3>1, <3>4, <4>2, <4>3
      <3>6. CASE event # "chat"
        <4>1. Agreed.kind # "say"
          BY <3>2, <3>6 DEF Followed, EventOf
        <4>2. Shown = Agreed
          BY <4>1 DEF Shown
        <4>3. CASE event = "userinfo" /\ result.is = "replace"
          <5>0. Outcome("userinfo").is = "replace" /\ Outcome("userinfo").text = result.text
            BY <3>2, <4>3
          <5>1. result.text \in Text
            BY <4>3, ConstantsAssumption DEF TypeOK, Results
          <5>2. UpdateInfo[<<updated.body, result.text.body>>] \in Bodies
            BY <3>3, <5>1, ConstantsAssumption DEF Text
          <5>3. c = [updated EXCEPT !.body = UpdateInfo[<<@, result.text.body>>]]
            BY <3>6, <4>3
          <5>4. /\ c \in Text /\ c.kind = Agreed.kind
                /\ c.body = UpdateInfo[<<Agreed.body, Outcome("userinfo").text.body>>]
            BY <3>3, <5>0, <5>2, <5>3 DEF Text
          <5> HIDE DEF c
          <5>5. QED
            BY <2>12, <3>1, <3>4, <5>0, <5>4
        <4>4. CASE ~(event = "userinfo" /\ result.is = "replace")
          <5>1. c = Agreed
            BY <3>3, <3>6, <4>4
          <5> HIDE DEF c
          <5>2. QED
            BY <2>12, <3>1, <3>3, <3>4, <4>2, <5>1
        <4>5. QED
          BY <4>3, <4>4
      <3>7. QED
        BY <3>5, <3>6
    <2>16. CASE UNCHANGED vars
      <3>1. UNCHANGED <<pc, event, original, updated, forwarded, result, executed, calls>>
        BY <2>16 DEF vars
      <3>2. \A e : Outcome(e)' = Outcome(e)
        BY <3>1, OutcomeOfAnswers
      <3>3. Agreed' = Agreed /\ Shown' = Shown
        BY <3>1, <3>2 DEF Agreed, Shown, Reformatted
      <3>4. Followed' <=> Followed
        BY <3>1, <3>2, <3>3 DEF Followed
      <3>5. ExecutesWhatWasAgreed'
        BY <3>1, <3>2 DEF Agreement, ExecutesWhatWasAgreed, Reformatted
      <3>6. QED
        BY <3>1, <3>2, <3>4, <3>5 DEF Agreement
    <2>17. QED
      BY <2>3, <2>4, <2>5, <2>6, <2>7, <2>8, <2>10, <2>13, <2>14, <2>15, <2>16 DEF Next
  <1>3. Agreement => ExecutesWhatWasAgreed
    BY DEF Agreement
  <1>4. QED
    BY <1>1, <1>2, <1>3, TypeCorrect, AnswersSettle, PTL DEF Spec

=============================================================================

------------------------- MODULE StatsListenerProofs -------------------------
(***************************************************************************)
(* Type correctness of the stats listener, that denied team switches are   *)
(* undone, and that the events tell the stream in its order, for any       *)
(* players, teams and number of messages.                                  *)
(*                                                                         *)
(* A denial arrives frames after the switch, so what matters is what the   *)
(* game knows of a player by then: the message of the switch into the      *)
(* present team (if it was a switch) names the player, the team he is in   *)
(* and another team he came from.  Putting the player there is then no     *)
(* empty command, and the switch back is a switch of its own.              *)
(*                                                                         *)
(* The events are a matter of the thread alone: Follows relates what it    *)
(* has put, and the flag it keeps, to the messages it has taken.           *)
(***************************************************************************)
EXTENDS StatsListener, SequenceTheorems, TLAPS

\* The message of a switch between two teams.
IsMove(k) ==
  /\ k \in 1 .. Len(stream)
  /\ stream[k].type = "PLAYER_SWITCHTEAM"
  /\ stream[k].old # stream[k].new

\* Only such a message has a team_switch event.
QueuedMoves(tasks) ==
  \A j \in DOMAIN tasks : tasks[j].event = "team_switch" => IsMove(tasks[j].of)

EntriesTell ==
  \A p \in Players : entry[p] # 0 =>
    /\ IsMove(entry[p])
    /\ stream[entry[p]].player = p
    /\ stream[entry[p]].new = team[p]

IInv ==
  /\ TypeOK
  /\ Len(stream) <= MaxMessages
  /\ stage # "polling" => received > 0
  /\ stage = "team_switch" => IsMove(received)
  /\ QueuedMoves(next_frame_tasks)
  /\ QueuedMoves(frame_tasks)
  /\ EntriesTell
  /\ DeniedSwitchesAreUndone

Switches == [type: {"PLAYER_SWITCHTEAM"}, player: Players, old: Teams, new: Teams]

-----------------------------------------------------------------------------
(* A switch names a player and two teams. *)
LEMMA SwitchFields ==
  ASSUME NEW m \in Messages, m.type = "PLAYER_SWITCHTEAM"
  PROVE  m \in Switches
  BY DEF Messages, Switches

(* A message that is published is the last of the stream and changes no other. *)
LEMMA PublishAppends ==
  ASSUME TypeOK, Len(stream) <= MaxMessages, NEW m \in Messages, Publish(m)
  PROVE  /\ stream' \in Seq(Messages)
         /\ Len(stream') = Len(stream) + 1
         /\ Len(stream') <= MaxMessages
         /\ stream'[Len(stream) + 1] = m
         /\ \A k \in 1 .. Len(stream) : stream'[k] = stream[k]
  BY ConstantsAssumption DEF TypeOK, Publish

(* What is known of the older messages stays known. *)
LEMMA MovesStay ==
  ASSUME stream \in Seq(Messages), Len(stream') >= Len(stream),
         \A k \in 1 .. Len(stream) : stream'[k] = stream[k], NEW k, IsMove(k)
  PROVE  IsMove(k)'
  BY DEF IsMove

(* Moving a player publishes the switch and records it as the entry. *)
LEMMA MoveToKeepsEntries ==
  ASSUME TypeOK, Len(stream) <= MaxMessages, EntriesTell,
         NEW p \in Players, NEW t \in Teams, team[p] # None, MoveTo(p, t)
  PROVE  /\ stream' \in Seq(Messages)
         /\ Len(stream') = Len(stream) + 1
         /\ Len(stream') <= MaxMessages
         /\ \A k \in 1 .. Len(stream) : stream'[k] = stream[k]
         /\ team' \in [Players -> Teams \cup {None}]
         /\ entry' \in [Players -> 0 .. Len(stream')]
         /\ EntriesTell'
         /\ \A q \in Players : entry'[q] \in {entry[q], Len(stream) + 1}
         /\ team[p] # t => entry'[p] = Len(stream) + 1
<1> DEFINE m == [type |-> "PLAYER_SWITCHTEAM", player |-> p, old |-> team[p], new |-> t]
<1>1. m \in Messages
  BY DEF TypeOK, Messages
<1>2. /\ stream' \in Seq(Messages)
      /\ Len(stream') = Len(stream) + 1
      /\ Len(stream') <= MaxMessages
      /\ stream'[Len(stream) + 1] = m
      /\ \A k \in 1 .. Len(stream) : stream'[k] = stream[k]
  <2>1. Publish(m)
    BY DEF MoveTo
  <2> QED
    BY <1>1, <2>1, PublishAppends
<1>3. /\ team' = [team EXCEPT ![p] = t]
      /\ entry' = [entry EXCEPT ![p] = IF t = team[p] THEN entry[p] ELSE Len(stream) + 1]
      /\ team \in [Players -> Teams \cup {None}]
      /\ entry \in [Players -> 0 .. Len(stream)]
      /\ Len(stream) \in Nat
  BY DEF MoveTo, TypeOK
<1>4. /\ team' \in [Players -> Teams \cup {None}]
      /\ entry' \in [Players -> 0 .. Len(stream')]
      /\ \A q \in Players : entry'[q] \in {entry[q], Len(stream) + 1}
      /\ team[p] # t => entry'[p] = Len(stream) + 1
  BY <1>2, <1>3
<1>5. EntriesTell'
  <2> SUFFICES ASSUME NEW q \in Players, entry'[q] # 0
               PROVE  /\ IsMove(entry[q])'
                      /\ stream'[entry'[q]].player = q
                      /\ stream'[entry'[q]].new = team'[q]
    BY DEF EntriesTell
  <2>1. CASE q = p /\ t # team[p]
    <3>1. entry'[q] = Len(stream) + 1 /\ team'[q] = t
      BY <1>3, <2>1
    <3>2. stream'[entry'[q]] = m
      BY <1>2, <3>1
    <3> QED
      BY <1>2, <1>3, <2>1, <3>1, <3>2 DEF IsMove
  <2>2. CASE ~(q = p /\ t # team[p])
    <3>1. entry'[q] = entry[q] /\ team'[q] = team[q]
      BY <1>3, <2>2
    <3>2. /\ IsMove(entry[q])
          /\ stream[entry[q]].player = q
          /\ stream[entry[q]].new = team[q]
      BY <3>1 DEF EntriesTell
    <3>3. IsMove(entry[q])'
      BY <1>2, <3>1, <3>2 DEF IsMove
    <3> QED
      BY <1>2, <3>1, <3>2, <3>3 DEF IsMove
  <2> QED
    BY <2>1, <2>2
<1> QED
  BY <1>2, <1>4, <1>5

-----------------------------------------------------------------------------
(* The queues name the same moves when the stream has grown. *)
LEMMA QueuesStay ==
  ASSUME stream \in Seq(Messages), Len(stream') >= Len(stream),
         \A k \in 1 .. Len(stream) : stream'[k] = stream[k],
         UNCHANGED <<received, stage, next_frame_tasks>>, IInv
  PROVE  /\ stage' = "team_switch" => IsMove(received)'
         /\ QueuedMoves(next_frame_tasks)'
         /\ \A tasks : QueuedMoves(tasks) => QueuedMoves(tasks)'
<1>1. \A k : IsMove(k) => IsMove(k)'
  BY MovesStay
<1> QED
  BY <1>1 DEF IInv, QueuedMoves

(* The game and a put change the stream, the teams and the entries only. *)
LEMMA GameKeepsIInv ==
  ASSUME IInv, Game
  PROVE  IInv'
<1> USE DEF listenerVars, frameVars
<1>1. UNCHANGED <<received, stage, IN_PROGRESS, late, frame_tasks, dispatched, vetoed,
                  next_frame_tasks, done>>
  BY DEF Game
<1>2. CASE UNCHANGED stream
              /\ \E p \in Players : Join(p) \/ Leave(p)
  <2> SUFFICES ASSUME NEW p \in Players, Join(p) \/ Leave(p)
               PROVE  IInv'
    BY <1>2
  <2>1. /\ team' \in [Players -> Teams \cup {None}]
        /\ entry' = [entry EXCEPT ![p] = 0]
        /\ \A q \in Players \ {p} : team'[q] = team[q]
    BY DEF Join, Leave, IInv, TypeOK
  <2>2. TypeOK'
    BY <1>1, <1>2, <2>1 DEF IInv, TypeOK
  <2>3. EntriesTell'
    BY <1>2, <2>1 DEF IInv, TypeOK, EntriesTell, IsMove
  <2>4. DeniedSwitchesAreUndone'
    BY <1>1, <2>1 DEF IInv, TypeOK, DeniedSwitchesAreUndone
  <2> QED
    BY <1>1, <1>2, <2>2, <2>3, <2>4 DEF IInv, QueuedMoves, IsMove
<1>3. ASSUME /\ stream' \in Seq(Messages)
             /\ Len(stream') = Len(stream) + 1
             /\ Len(stream') <= MaxMessages
             /\ \A k \in 1 .. Len(stream) : stream'[k] = stream[k]
             /\ team' \in [Players -> Teams \cup {None}]
             /\ entry' \in [Players -> 0 .. Len(stream')]
             /\ EntriesTell'
             /\ \A q \in Players : entry'[q] \in {entry[q], Len(stream) + 1}
      PROVE  IInv'
  <2>1. Len(stream) \in Nat
    BY DEF IInv, TypeOK
  <2>2. TypeOK'
    BY <1>1, <1>3, <2>1 DEF IInv, TypeOK
  <2>3. DeniedSwitchesAreUndone'
    BY <1>1, <1>3, <2>1 DEF IInv, TypeOK, DeniedSwitchesAreUndone
  <2>4. /\ stage' = "team_switch" => IsMove(received)'
        /\ QueuedMoves(next_frame_tasks)'
        /\ QueuedMoves(frame_tasks)'
    BY <1>1, <1>3, <2>1, QueuesStay DEF IInv, TypeOK
  <2> QED
    BY <1>1, <1>3, <2>2, <2>3, <2>4 DEF IInv
<1>4. ASSUME NEW msg \in Published, MatchMessage(msg)
      PROVE  IInv'
  <2>1. msg \in Messages /\ Publish(msg) /\ UNCHANGED <<team, entry>>
    BY <1>4, PublishedAssumption DEF MatchMessage, MatchMessages
  <2>2. /\ stream' \in Seq(Messages)
        /\ Len(stream') = Len(stream) + 1
        /\ Len(stream') <= MaxMessages
        /\ \A k \in 1 .. Len(stream) : stream'[k] = stream[k]
    BY <2>1, PublishAppends DEF IInv
  <2>3. Len(stream) \in Nat
    BY DEF IInv, TypeOK
  <2>4. /\ team' \in [Players -> Teams \cup {None}]
        /\ entry' \in [Players -> 0 .. Len(stream')]
        /\ \A q \in Players : entry'[q] = entry[q]
    BY <2>1, <2>2, <2>3 DEF IInv, TypeOK
  <2>5. EntriesTell'
    <3> SUFFICES ASSUME NEW q \in Players, entry'[q] # 0
                 PROVE  /\ IsMove(entry[q])'
                        /\ stream'[entry'[q]].player = q
                        /\ stream'[entry'[q]].new = team'[q]
      BY DEF EntriesTell
    <3>1. entry' = entry /\ team' = team
      BY <2>1
    <3>2. /\ IsMove(entry[q])
          /\ stream[entry[q]].player = q
          /\ stream[entry[q]].new = team[q]
      BY <3>1 DEF IInv, EntriesTell
    <3>3. IsMove(entry[q])'
      BY <2>2, <2>3, <3>1, <3>2 DEF IsMove
    <3> QED
      BY <2>2, <2>3, <3>1, <3>2, <3>3 DEF IsMove
  <2> QED
    BY <1>3, <2>2, <2>4, <2>5
<1>5. ASSUME NEW p \in Players, NEW t \in Teams, SwitchTeam(p, t)
      PROVE  IInv'
  <2>1. TypeOK /\ Len(stream) <= MaxMessages /\ EntriesTell
    BY DEF IInv
  <2>2. team[p] # None /\ MoveTo(p, t)
    BY <1>5 DEF SwitchTeam
  <2> QED
    BY ONLY <1>3, <2>1, <2>2, MoveToKeepsEntries
<1>6. ASSUME NEW p \in Players, Join(p) \/ Leave(p)
      PROVE  IInv'
  BY <1>2, <1>6 DEF Join, Leave
<1> QED
  BY <1>4, <1>5, <1>6 DEF Game

-----------------------------------------------------------------------------
(* A step of the thread that puts at most one dispatch and goes on. *)
LEMMA ThreadKeepsIInv ==
  ASSUME IInv, ThreadStep, UNCHANGED <<received, late>>,
         IN_PROGRESS' \in BOOLEAN, stage' \in Stages,
         stage' # "polling" => received > 0,
         stage' = "team_switch" => IsMove(received),
         \/ UNCHANGED next_frame_tasks
         \/ \E event \in DOMAIN Rank :
              /\ received > 0
              /\ event = "team_switch" => IsMove(received)
              /\ next_frame_tasks' = Append(next_frame_tasks, Dispatch(event, received))
  PROVE  IInv'
<1>1. UNCHANGED <<received, late, frame_tasks, dispatched, vetoed, stream, team, entry, done>>
  BY DEF ThreadStep, frameVars, gameVars
<1>2. /\ next_frame_tasks' \in Seq(Dispatches)
      /\ QueuedMoves(next_frame_tasks)'
  <2>1. CASE UNCHANGED next_frame_tasks
    BY <1>1, <2>1 DEF IInv, TypeOK, QueuedMoves, IsMove
  <2>2. CASE ~UNCHANGED next_frame_tasks
    <3>1. PICK event \in DOMAIN Rank :
            /\ received > 0
            /\ event = "team_switch" => IsMove(received)
            /\ next_frame_tasks' = Append(next_frame_tasks, Dispatch(event, received))
      BY <2>2
    <3>2. Dispatch(event, received) \in Dispatches
      BY <3>1, ConstantsAssumption DEF Dispatch, Dispatches, IInv, TypeOK
    <3>3. next_frame_tasks' \in Seq(Dispatches)
      BY <3>1, <3>2 DEF IInv, TypeOK
    <3>4. \A j \in DOMAIN next_frame_tasks' :
            \/ j \in DOMAIN next_frame_tasks /\ next_frame_tasks'[j] = next_frame_tasks[j]
            \/ next_frame_tasks'[j] = Dispatch(event, received)
      BY <3>1, <3>2 DEF IInv, TypeOK
    <3>5. QueuedMoves(next_frame_tasks')
      BY <3>1, <3>4 DEF IInv, QueuedMoves, Dispatch
    <3>6. \A k : IsMove(k)' <=> IsMove(k)
      BY <1>1 DEF IsMove
    <3> QED
      BY <3>3, <3>5, <3>6 DEF QueuedMoves
  <2> QED
    BY <2>1, <2>2
<1>3. TypeOK'
  BY <1>1, <1>2 DEF IInv, TypeOK
<1>4. EntriesTell' /\ DeniedSwitchesAreUndone' /\ QueuedMoves(frame_tasks)'
  BY <1>1 DEF IInv, EntriesTell, DeniedSwitchesAreUndone, QueuedMoves, IsMove
<1> QED
  BY <1>1, <1>2, <1>3, <1>4 DEF IInv, IsMove

-----------------------------------------------------------------------------
(* The steps of the thread, one by one. *)
LEMMA ListenerKeepsIInv ==
  ASSUME IInv, Listener
  PROVE  IInv'
<1>0. /\ received \in Nat
      /\ IN_PROGRESS \in BOOLEAN
      /\ stage # "polling" => received > 0
  <2>1. IN_PROGRESS \in BOOLEAN
    BY Zenon DEF IInv, TypeOK
  <2>2. received \in Nat /\ (stage # "polling" => received > 0)
    BY DEF IInv, TypeOK
  <2> QED
    BY <2>1, <2>2
<1>1. ASSUME Receive
      PROVE  IInv'
  <2>1. /\ UNCHANGED <<frame_tasks, dispatched, vetoed, stream, team, entry, done,
                       IN_PROGRESS, next_frame_tasks>>
        /\ received' = received + 1
        /\ received < Len(stream)
        /\ stage' \in {"polling", "stats"}
        /\ late' \in {late, late + 1}
    BY <1>1 DEF Receive, ThreadStep, frameVars, gameVars
  <2>2. TypeOK'
    <3>1. /\ received' \in 0 .. Len(stream')
          /\ late' \in 0 .. received'
      BY <2>1 DEF IInv, TypeOK
    <3>2. stage' \in Stages
      BY <2>1 DEF Stages
    <3> QED
      BY <2>1, <3>1, <3>2 DEF IInv, TypeOK
  <2> QED
    BY <1>0, <2>1, <2>2 DEF IInv, QueuedMoves, EntriesTell, DeniedSwitchesAreUndone, IsMove
<1> USE DEF Put, GoTo, Stages, Rank
<1>2. ASSUME DispatchStats
      PROVE  IInv'
  BY <1>0, <1>2, ThreadKeepsIInv DEF DispatchStats
<1>3. ASSUME MatchStarted
      PROVE  IInv'
  BY <1>0, <1>3, ThreadKeepsIInv DEF MatchStarted
<1>4. ASSUME RoundOver
      PROVE  IInv'
  BY <1>0, <1>4, ThreadKeepsIInv DEF RoundOver
<1>5. ASSUME MatchReport
      PROVE  IInv'
  BY <1>0, <1>5, ThreadKeepsIInv DEF MatchReport
<1>6. ASSUME OtherType
      PROVE  IInv'
  BY <1>0, <1>6, ThreadKeepsIInv DEF OtherType
<1>7. ASSUME LookUpVictim
      PROVE  IInv'
  BY <1>0, <1>7, ThreadKeepsIInv DEF LookUpVictim
<1>8. ASSUME LookUpKiller
      PROVE  IInv'
  BY <1>0, <1>8, ThreadKeepsIInv DEF LookUpKiller
<1>9. ASSUME DispatchDeath
      PROVE  IInv'
  BY <1>0, <1>9, ThreadKeepsIInv DEF DispatchDeath
<1>10. ASSUME DispatchKill
       PROVE  IInv'
  BY <1>0, <1>10, ThreadKeepsIInv DEF DispatchKill
<1>11. ASSUME LookUpSwitcher
       PROVE  IInv'
  <2>1. stage' = "team_switch" => IsMove(received)
    BY <1>0, <1>11 DEF LookUpSwitcher, IsMove, Message, IInv, TypeOK
  <2> QED
    BY <1>0, <1>11, <2>1, ThreadKeepsIInv DEF LookUpSwitcher
<1>12. ASSUME DispatchTeamSwitch
       PROVE  IInv'
  <2>1. IsMove(received)
    BY <1>12 DEF DispatchTeamSwitch, IInv
  <2> QED
    BY <1>0, <1>12, <2>1, ThreadKeepsIInv DEF DispatchTeamSwitch
<1> QED
  BY <1>1, <1>2, <1>3, <1>4, <1>5, <1>6, <1>7, <1>8, <1>9, <1>10, <1>11, <1>12 DEF Listener

-----------------------------------------------------------------------------
(* Running a task takes it out of the queue and keeps the rest. *)
LEMMA RunTaskKeepsQueue ==
  ASSUME IInv, RunTask
  PROVE  /\ Due \in Dispatches
         /\ Due.event = "team_switch" => IsMove(Due.of)
         /\ frame_tasks' \in Seq(Dispatches)
         /\ dispatched' \in Seq(Dispatches)
         /\ QueuedMoves(frame_tasks')
         /\ UNCHANGED <<received, stage, IN_PROGRESS, late, next_frame_tasks, done>>
<1>1. /\ frame_tasks \in Seq(Dispatches) /\ frame_tasks # <<>>
      /\ dispatched \in Seq(Dispatches)
      /\ QueuedMoves(frame_tasks)
  BY DEF IInv, TypeOK, RunTask
<1>2. Due = frame_tasks[1] /\ Due \in Dispatches /\ 1 \in DOMAIN frame_tasks
  BY <1>1 DEF Due
<1>3. /\ frame_tasks' \in Seq(Dispatches)
      /\ dispatched' \in Seq(Dispatches)
      /\ \A j \in DOMAIN frame_tasks' :
           j + 1 \in DOMAIN frame_tasks /\ frame_tasks'[j] = frame_tasks[j + 1]
  BY <1>1, <1>2 DEF RunTask
<1> QED
  BY <1>1, <1>2, <1>3 DEF QueuedMoves, RunTask, listenerVars

(* An allowed dispatch changes nothing that matters here. *)
LEMMA RunDispatchKeepsIInv ==
  ASSUME IInv, RunDispatch
  PROVE  IInv'
<1>1. RunTask /\ UNCHANGED <<stream, team, entry, vetoed>>
  BY DEF RunDispatch, gameVars
<1>2. TypeOK'
  BY <1>1, RunTaskKeepsQueue DEF IInv, TypeOK
<1>3. QueuedMoves(frame_tasks)' /\ QueuedMoves(next_frame_tasks)'
  BY <1>1, RunTaskKeepsQueue DEF IInv, QueuedMoves, IsMove
<1> QED
  BY <1>1, <1>2, <1>3, RunTaskKeepsQueue DEF IInv, EntriesTell, DeniedSwitchesAreUndone, IsMove

(* A denied switch is not the entry of anybody any more. *)
LEMMA DeniedSwitchKeepsIInv ==
  ASSUME IInv, RunDeniedSwitch
  PROVE  IInv'
<1> DEFINE k == Due.of
           p == stream[k].player
           t == stream[k].old
<1>1. RunTask /\ IsMove(k) /\ vetoed' = vetoed \cup {k} /\ put(p, t)
  BY RunTaskKeepsQueue DEF RunDeniedSwitch
<1>2. p \in Players /\ t \in Teams /\ t # stream[k].new /\ k \in 1 .. Len(stream)
  BY <1>1, SwitchFields DEF IInv, TypeOK, IsMove, Switches
<1>3. Len(stream) \in Nat /\ Len(stream) <= MaxMessages /\ stream \in Seq(Messages)
  BY DEF IInv, TypeOK
<1>4. /\ frame_tasks' \in Seq(Dispatches)
      /\ dispatched' \in Seq(Dispatches)
      /\ QueuedMoves(frame_tasks')
      /\ UNCHANGED <<received, stage, IN_PROGRESS, late, next_frame_tasks, done>>
  BY <1>1, RunTaskKeepsQueue
<1>5. \A q \in Players : entry[q] = k => q = p /\ team[q] # None /\ team[q] # t
  BY <1>2, ConstantsAssumption, SwitchFields
     DEF IInv, TypeOK, EntriesTell, IsMove, Switches
<1>6. CASE team[p] \in {None, t}
  <2>1. UNCHANGED <<stream, team, entry>>
    BY <1>1, <1>6 DEF put, gameVars
  <2>2. TypeOK'
    BY <1>1, <1>2, <1>4, <2>1 DEF IInv, TypeOK
  <2>3. DeniedSwitchesAreUndone'
    BY <1>1, <1>5, <1>6, <2>1 DEF IInv, DeniedSwitchesAreUndone
  <2>4. EntriesTell' /\ QueuedMoves(frame_tasks)' /\ QueuedMoves(next_frame_tasks)'
    BY <1>4, <2>1 DEF IInv, EntriesTell, QueuedMoves, IsMove
  <2> QED
    BY <1>4, <2>1, <2>2, <2>3, <2>4 DEF IInv, IsMove
<1>7. CASE team[p] \notin {None, t}
  <2>1. MoveTo(p, t)
    BY <1>1, <1>7 DEF put
  <2>2. /\ stream' \in Seq(Messages)
        /\ Len(stream') = Len(stream) + 1
        /\ Len(stream') <= MaxMessages
        /\ \A i \in 1 .. Len(stream) : stream'[i] = stream[i]
        /\ team' \in [Players -> Teams \cup {None}]
        /\ entry' \in [Players -> 0 .. Len(stream')]
        /\ EntriesTell'
        /\ \A q \in Players : entry'[q] \in {entry[q], Len(stream) + 1}
        /\ entry'[p] = Len(stream) + 1
    <3>1. TypeOK /\ EntriesTell
      BY DEF IInv
    <3> QED
      BY <1>2, <1>3, <1>7, <2>1, <3>1, MoveToKeepsEntries
  <2>3. TypeOK'
    <3>1. vetoed' \subseteq 1 .. Len(stream')
      <4> HIDE DEF k, p, t
      <4>1. vetoed \subseteq 1 .. Len(stream)
        BY DEF IInv, TypeOK
      <4> QED
        BY <1>1, <1>2, <1>3, <2>2, <4>1
    <3>2. received' \in 0 .. Len(stream') /\ late' \in 0 .. received'
      BY <1>3, <1>4, <2>2 DEF IInv, TypeOK
    <3> QED
      BY <1>4, <2>2, <3>1, <3>2 DEF IInv, TypeOK
  <2>4. DeniedSwitchesAreUndone'
    <3> SUFFICES ASSUME NEW q \in Players
                 PROVE  entry'[q] \notin vetoed'
      BY DEF DeniedSwitchesAreUndone
    <3>1. vetoed \subseteq 1 .. Len(stream) /\ entry[q] \notin vetoed
      BY DEF IInv, TypeOK, DeniedSwitchesAreUndone
    <3>2. CASE entry'[q] = Len(stream) + 1
      BY <1>1, <1>2, <1>3, <3>1, <3>2
    <3>3. CASE entry'[q] # Len(stream) + 1
      BY <1>1, <1>5, <2>2, <3>1, <3>3
    <3> QED
      BY <3>2, <3>3
  <2>5. \A i : IsMove(i) => IsMove(i)'
    BY <1>3, <2>2 DEF IsMove
  <2> QED
    BY <1>4, <2>2, <2>3, <2>4, <2>5 DEF IInv, QueuedMoves
<1> QED
  BY <1>6, <1>7

-----------------------------------------------------------------------------
(* The invariant holds at first and is kept. *)
LEMMA InvariantKept == Spec => []IInv
<1>1. Init => IInv
  <2> SUFFICES ASSUME Init
               PROVE  IInv
    OBVIOUS
  <2> USE DEF Init
  <2>1. TypeOK
    <3>1. /\ Len(stream) = 0
          /\ stream \in Seq(Messages)
          /\ next_frame_tasks \in Seq(Dispatches)
          /\ frame_tasks \in Seq(Dispatches)
          /\ dispatched \in Seq(Dispatches)
      OBVIOUS
    <3>2. /\ team \in [Players -> Teams \cup {None}]
          /\ entry \in [Players -> 0 .. 0]
          /\ vetoed \subseteq 1 .. 0
      OBVIOUS
    <3>3. received \in 0 .. 0 /\ late \in 0 .. received /\ stage \in Stages
      BY DEF Stages
    <3>4. done \in BOOLEAN /\ IN_PROGRESS \in BOOLEAN
      OBVIOUS
    <3> HIDE DEF Init
    <3> QED
      BY <3>1, <3>2, <3>3, <3>4 DEF TypeOK
  <2>2. QueuedMoves(next_frame_tasks) /\ QueuedMoves(frame_tasks)
    BY DEF QueuedMoves
  <2>3. EntriesTell /\ DeniedSwitchesAreUndone
    BY DEF EntriesTell, DeniedSwitchesAreUndone
  <2>4. Len(stream) <= MaxMessages
    BY ConstantsAssumption
  <2> QED
    BY <2>1, <2>2, <2>3, <2>4 DEF IInv
<1>2. IInv /\ [Next]_vars => IInv'
  <2> SUFFICES ASSUME IInv, [Next]_vars
               PROVE  IInv'
    OBVIOUS
  <2>1. CASE Game
    BY <2>1, GameKeepsIInv
  <2>2. CASE stop
    <3>1. /\ UNCHANGED <<received, stage, IN_PROGRESS, late, frame_tasks, dispatched, vetoed,
                         stream, team, entry, next_frame_tasks>>
          /\ done' = TRUE
      BY <2>2 DEF stop, listenerVars, frameVars, gameVars
    <3>2. TypeOK'
      BY <3>1 DEF IInv, TypeOK
    <3> QED
      BY <3>1, <3>2 DEF IInv, QueuedMoves, EntriesTell, DeniedSwitchesAreUndone, IsMove
  <2>3. CASE Listener
    BY <2>3, ListenerKeepsIInv
  <2>4. CASE TransferNextFrameTasks
    <3>1. /\ UNCHANGED <<received, stage, IN_PROGRESS, late, dispatched, vetoed,
                         stream, team, entry, done>>
          /\ frame_tasks' = next_frame_tasks
          /\ next_frame_tasks' = <<>>
      BY <2>4 DEF TransferNextFrameTasks, listenerVars, gameVars
    <3>2. TypeOK'
      BY <3>1 DEF IInv, TypeOK
    <3> QED
      BY <3>1, <3>2 DEF IInv, QueuedMoves, EntriesTell, DeniedSwitchesAreUndone, IsMove
  <2>5. CASE RunDispatch
    BY <2>5, RunDispatchKeepsIInv
  <2>6. CASE RunDeniedSwitch
    BY <2>6, DeniedSwitchKeepsIInv
  <2>7. CASE UNCHANGED vars
    <3>1. UNCHANGED <<received, stage, IN_PROGRESS, late, frame_tasks, dispatched, vetoed,
                      stream, team, entry, next_frame_tasks, done>>
      BY <2>7 DEF vars, listenerVars, frameVars, gameVars
    <3>2. TypeOK'
      BY <3>1 DEF IInv, TypeOK
    <3> QED
      BY <3>1, <3>2 DEF IInv, QueuedMoves, EntriesTell, DeniedSwitchesAreUndone, IsMove
  <2> QED
    BY <2>1, <2>2, <2>3, <2>4, <2>5, <2>6, <2>7 DEF Next
<1> QED
  BY <1>1, <1>2, PTL DEF Spec

(* The variables of the listener keep their types. *)
THEOREM TypeCorrect == Spec => []TypeOK
<1>1. IInv => TypeOK
  BY DEF IInv
<1> QED
  BY <1>1, InvariantKept, PTL

(* A team_switch a handler denied is undone, for any number of players and    *)
(* messages: the player is not left where that switch had brought him.        *)
THEOREM DeniedSwitchesStayUndone == Spec => []DeniedSwitchesAreUndone
<1>1. IInv => DeniedSwitchesAreUndone
  BY DEF IInv
<1> QED
  BY <1>1, InvariantKept, PTL

-----------------------------------------------------------------------------
(***************************************************************************)
(* The events.  All that was ever put, run or waiting, is one sequence: the *)
(* frames move its elements on and only the thread appends to it.  So its   *)
(* order is a matter of the thread alone, and so is whether a message has   *)
(* its events: that follows from the stage the thread is at.                *)
(***************************************************************************)

\* What the thread has put for the message it is at has a rank of at most that.
PutSoFar ==
  CASE stage = "polling" -> 3
    [] stage = "stats" -> 0
    [] stage = "kill" -> 2
    [] OTHER -> 1

Ordered ==
  \A i, j \in DOMAIN Produced : i < j =>
    \/ Produced[i].of < Produced[j].of
    \/ /\ Produced[i].of = Produced[j].of
       /\ Rank[Produced[i].event] < Rank[Produced[j].event]

Reached ==
  \A j \in DOMAIN Produced :
    \/ Produced[j].of < received
    \/ Produced[j].of = received /\ Rank[Produced[j].event] <= PutSoFar

StatsPut ==
  \A k \in 1 .. received :
    \/ stream[k].type = "malformed"
    \/ k = received /\ stage = "stats"
    \/ IsProduced("stats", k)

DeathsPut ==
  /\ \A k \in 1 .. received : IsProduced("kill", k) => IsProduced("death", k)
  /\ stage = "kill" => IsProduced("death", received)

\* A match was started before message k and no report has ended it.
Started(k) ==
  \E i \in 1 .. k - 1 :
    /\ stream[i].type = "MATCH_STARTED"
    /\ \A l \in i + 1 .. k - 1 : stream[l].type # "MATCH_REPORT"

\* The first message that has not had its say about IN_PROGRESS.
Pending == IF stage = "polling" THEN received + 1 ELSE received

EndsPut ==
  /\ IN_PROGRESS <=> Started(Pending)
  /\ \A k \in Handled : stream[k].type = "MATCH_REPORT" =>
       (IsProduced("game_end", k) <=> Started(k))

StagesTell ==
  /\ stage \in {"killer", "death", "death and kill", "kill"} =>
       stream[received].type = "PLAYER_DEATH"
  /\ stage = "team_switch" => stream[received].type = "PLAYER_SWITCHTEAM"

Follows ==
  /\ Ordered
  /\ Reached
  /\ StatsPut
  /\ DeathsPut
  /\ EndsPut
  /\ StagesTell

(* What was put is a sequence of dispatches, with a number of them. *)
LEMMA ProducedType ==
  ASSUME TypeOK
  PROVE  /\ Produced \in Seq(Dispatches)
         /\ Len(Produced) \in Nat
         /\ DOMAIN Produced = 1 .. Len(Produced)
<1>1. /\ dispatched \in Seq(Dispatches)
      /\ frame_tasks \in Seq(Dispatches)
      /\ next_frame_tasks \in Seq(Dispatches)
  BY DEF TypeOK
<1>2. Produced \in Seq(Dispatches)
  BY <1>1, ConcatProperties DEF Produced
<1> QED
  BY <1>2, LenProperties

(* Moving the queue into the scheduler moves nothing within the sequence. *)
LEMMA TransferKeepsProduced ==
  ASSUME TypeOK, TransferNextFrameTasks
  PROVE  Produced' = Produced
<1>1. /\ dispatched \in Seq(Dispatches)
      /\ next_frame_tasks \in Seq(Dispatches)
  BY DEF TypeOK
<1>2. /\ frame_tasks = <<>> /\ frame_tasks' = next_frame_tasks
      /\ next_frame_tasks' = <<>> /\ dispatched' = dispatched
  BY DEF TransferNextFrameTasks
<1>3. Produced = dispatched \o next_frame_tasks
  BY <1>1, <1>2, ConcatEmptySeq DEF Produced
<1>4. Produced' = (dispatched \o next_frame_tasks) \o <<>>
  BY <1>2 DEF Produced
<1>5. dispatched \o next_frame_tasks \in Seq(Dispatches)
  BY <1>1, ConcatProperties
<1> QED
  BY <1>3, <1>4, <1>5, ConcatEmptySeq

(* Running the first task of the scheduler moves nothing within the sequence. *)
LEMMA RunTaskKeepsProduced ==
  ASSUME TypeOK, RunTask
  PROVE  Produced' = Produced
<1>1. /\ dispatched \in Seq(Dispatches)
      /\ frame_tasks \in Seq(Dispatches)
      /\ next_frame_tasks \in Seq(Dispatches)
  BY DEF TypeOK
<1>2. /\ frame_tasks # <<>> /\ frame_tasks' = Tail(frame_tasks)
      /\ dispatched' = Append(dispatched, Head(frame_tasks))
      /\ next_frame_tasks' = next_frame_tasks
  BY DEF RunTask, Due
<1> DEFINE first == Head(frame_tasks)
           rest == Tail(frame_tasks)
<1>3. first \in Dispatches /\ rest \in Seq(Dispatches)
  BY <1>1, <1>2, HeadTailProperties
<1>4. frame_tasks = <<first>> \o rest
  BY <1>1, <1>2
<1>5. Append(dispatched, first) = dispatched \o <<first>>
  BY <1>1, <1>3, AppendIsConcat
<1>6. <<first>> \in Seq(Dispatches)
  BY <1>3
<1> HIDE DEF first, rest
<1>7. (dispatched \o <<first>>) \o rest = dispatched \o (<<first>> \o rest)
  BY <1>1, <1>3, <1>6, ConcatAssociative
<1>8. Produced' = (Append(dispatched, first) \o rest) \o next_frame_tasks
  BY <1>2 DEF Produced, first, rest
<1> QED
  BY <1>4, <1>5, <1>7, <1>8 DEF Produced

(* What the thread puts comes after all that was put before. *)
LEMMA PutAppends ==
  ASSUME TypeOK, NEW d \in Dispatches, next_frame_tasks' = Append(next_frame_tasks, d),
         UNCHANGED <<dispatched, frame_tasks>>
  PROVE  Produced' = Append(Produced, d)
<1>1. /\ dispatched \in Seq(Dispatches)
      /\ frame_tasks \in Seq(Dispatches)
      /\ next_frame_tasks \in Seq(Dispatches)
  BY DEF TypeOK
<1> DEFINE moved == dispatched \o frame_tasks
<1>2. moved \in Seq(Dispatches) /\ <<d>> \in Seq(Dispatches)
  BY <1>1, ConcatProperties
<1>3. Produced' = moved \o Append(next_frame_tasks, d) /\ Produced = moved \o next_frame_tasks
  BY DEF Produced
<1> HIDE DEF moved
<1>4. Append(next_frame_tasks, d) = next_frame_tasks \o <<d>>
  BY <1>1, AppendIsConcat
<1>5. moved \o (next_frame_tasks \o <<d>>) = (moved \o next_frame_tasks) \o <<d>>
  BY <1>1, <1>2, ConcatAssociative
<1>6. Produced \in Seq(Dispatches)
  BY ProducedType
<1>7. Append(Produced, d) = Produced \o <<d>>
  BY <1>6, AppendIsConcat
<1> QED
  BY <1>3, <1>4, <1>5, <1>7

(* Whether a match is on after a message, from whether it was before. *)
LEMMA StartedNext ==
  ASSUME stream \in Seq(Messages), NEW k \in 1 .. Len(stream)
  PROVE  Started(k + 1) <=> \/ stream[k].type = "MATCH_STARTED"
                            \/ Started(k) /\ stream[k].type # "MATCH_REPORT"
<1>1. Len(stream) \in Nat /\ k \in Nat /\ k > 0
  OBVIOUS
<1>2. ASSUME Started(k + 1)
      PROVE  \/ stream[k].type = "MATCH_STARTED"
             \/ Started(k) /\ stream[k].type # "MATCH_REPORT"
  <2>1. PICK i \in 1 .. k : /\ stream[i].type = "MATCH_STARTED"
                            /\ \A l \in i + 1 .. k : stream[l].type # "MATCH_REPORT"
    BY <1>1, <1>2 DEF Started
  <2>2. CASE i = k
    BY <2>1, <2>2
  <2>3. CASE i # k
    <3>1. i \in 1 .. k - 1 /\ k \in i + 1 .. k
      BY <1>1, <2>3
    <3>2. \A l \in i + 1 .. k - 1 : l \in i + 1 .. k
      BY <1>1, <3>1
    <3> QED
      BY <2>1, <3>1, <3>2 DEF Started
  <2> QED
    BY <2>2, <2>3
<1>3. ASSUME stream[k].type = "MATCH_STARTED"
      PROVE  Started(k + 1)
  BY <1>1, <1>3 DEF Started
<1>4. ASSUME Started(k), stream[k].type # "MATCH_REPORT"
      PROVE  Started(k + 1)
  <2>1. PICK i \in 1 .. k - 1 : /\ stream[i].type = "MATCH_STARTED"
                                /\ \A l \in i + 1 .. k - 1 : stream[l].type # "MATCH_REPORT"
    BY <1>4 DEF Started
  <2>2. i \in 1 .. (k + 1) - 1 /\ \A l \in i + 1 .. (k + 1) - 1 : l \in i + 1 .. k - 1 \/ l = k
    BY <1>1
  <2> QED
    BY <1>4, <2>1, <2>2 DEF Started
<1> QED
  BY <1>2, <1>3, <1>4

(* The past of the stream is what it was when the stream has grown. *)
LEMMA StartedStays ==
  ASSUME stream \in Seq(Messages), \A i \in 1 .. Len(stream) : stream'[i] = stream[i],
         NEW k \in 1 .. Len(stream) + 1
  PROVE  Started(k)' <=> Started(k)
<1>1. Len(stream) \in Nat /\ k \in Nat
  OBVIOUS
<1>2. \A i \in 1 .. k - 1 : stream'[i] = stream[i]
  BY <1>1
<1>3. \A i \in 1 .. k - 1 : \A l \in i + 1 .. k - 1 : stream'[l] = stream[l]
  BY <1>1, <1>2
<1> QED
  BY <1>2, <1>3 DEF Started

-----------------------------------------------------------------------------
(* Whatever the game and the frames do: the sequence and the thread stay. *)
LEMMA QuietFollows ==
  ASSUME TypeOK, Follows, Produced' = Produced, UNCHANGED <<received, stage, IN_PROGRESS>>,
         Len(stream') >= Len(stream), \A i \in 1 .. Len(stream) : stream'[i] = stream[i],
         stage # "polling" => received > 0
  PROVE  Follows'
<1>1. /\ stream \in Seq(Messages) /\ Len(stream) \in Nat
      /\ received \in 0 .. Len(stream)
  BY DEF TypeOK
<1>2. \A e, k : IsProduced(e, k)' <=> IsProduced(e, k)
  BY DEF IsProduced
<1>3. Ordered' /\ Reached'
  BY DEF Follows, Ordered, Reached, PutSoFar
<1>4. StatsPut' /\ DeathsPut'
  BY <1>1, <1>2 DEF Follows, StatsPut, DeathsPut
<1>5. EndsPut'
  <2>1. Pending' = Pending /\ Pending \in 1 .. Len(stream) + 1
    BY <1>1 DEF Pending
  <2>2. Handled' = Handled /\ \A k \in Handled : k \in 1 .. Len(stream)
    BY <1>1 DEF Handled
  <2>3. \A k \in 1 .. Len(stream) + 1 : Started(k)' <=> Started(k)
    BY <1>1, StartedStays
  <2>4. IN_PROGRESS' <=> Started(Pending)'
    <3>1. IN_PROGRESS <=> Started(Pending)
      BY DEF Follows, EndsPut
    <3>2. PICK n \in 1 .. Len(stream) + 1 : n = Pending
      BY <2>1
    <3>3. Started(n)' <=> Started(n)
      BY <2>3
    <3>4. Started(Pending)' <=> Started(n)'
      BY <2>1, <3>2 DEF Started
    <3> QED
      BY <3>1, <3>2, <3>3, <3>4 DEF Started
  <2>5. \A k \in Handled : stream[k].type = "MATCH_REPORT" =>
          (IsProduced("game_end", k) <=> Started(k))
    BY DEF Follows, EndsPut
  <2>6. \A k \in 1 .. Len(stream) : Started(k)' <=> Started(k)
    BY <1>1, <2>3
  <2>7. \A k \in Handled' : stream'[k].type = "MATCH_REPORT" =>
          (IsProduced("game_end", k)' <=> Started(k)')
    BY <1>2, <2>2, <2>5, <2>6
  <2> QED
    BY <2>4, <2>7 DEF EndsPut
<1>6. StagesTell'
  <2>1. stage # "polling" => stream'[received] = stream[received]
    BY <1>1
  <2> QED
    BY <2>1 DEF Follows, StagesTell
<1> QED
  BY <1>3, <1>4, <1>5, <1>6 DEF Follows

(***************************************************************************)
(* A step of the thread on the message it is at, which puts one event or   *)
(* none of it.                                                             *)
(***************************************************************************)
Works(event) ==
  /\ stage # "polling" /\ received > 0
  /\ UNCHANGED <<received, stream>>
  /\ event # "none" =>
       /\ event \in DOMAIN Rank
       /\ Produced' = Append(Produced, Dispatch(event, received))
       /\ PutSoFar < Rank[event] /\ Rank[event] <= PutSoFar'
  /\ event = "none" => Produced' = Produced /\ PutSoFar <= PutSoFar'
  /\ stage = "stats" => event = "stats"
  /\ stage' # "stats"
  /\ event = "kill" => stage = "kill"
  /\ stage' = "kill" => event = "death"
  /\ stage' # "polling" => UNCHANGED IN_PROGRESS
  /\ stage' = "polling" =>
       (IN_PROGRESS' <=> \/ stream[received].type = "MATCH_STARTED"
                         \/ IN_PROGRESS /\ stream[received].type # "MATCH_REPORT")
  /\ event = "game_end" => stream[received].type = "MATCH_REPORT" /\ IN_PROGRESS
  /\ stream[received].type = "MATCH_REPORT" /\ stage' = "polling" =>
       stage = "type" /\ (IN_PROGRESS => event = "game_end")
  /\ StagesTell'

(* What is produced after such a step. *)
LEMMA WorkProduces ==
  ASSUME TypeOK, Len(stream) <= MaxMessages, NEW event, Works(event)
  PROVE  /\ event # "none" =>
              /\ DOMAIN Produced' = 1 .. Len(Produced) + 1
              /\ \A j \in 1 .. Len(Produced) : Produced'[j] = Produced[j]
              /\ Produced'[Len(Produced) + 1] = Dispatch(event, received)
         /\ \A e \in DOMAIN Rank, k \in Nat :
              IsProduced(e, k)' <=> IsProduced(e, k) \/ (e = event /\ k = received)
<1>1. /\ Produced \in Seq(Dispatches) /\ Len(Produced) \in Nat
      /\ DOMAIN Produced = 1 .. Len(Produced)
  BY ProducedType
<1>2. received \in 1 .. MaxMessages
  BY ConstantsAssumption DEF TypeOK, Works
<1>3. CASE event = "none"
  <2>1. Produced' = Produced
    BY <1>3 DEF Works
  <2>2. "none" \notin DOMAIN Rank
    BY DEF Rank
  <2> QED
    BY <1>3, <2>1, <2>2 DEF IsProduced
<1>4. CASE event # "none"
  <2>1. event \in DOMAIN Rank /\ Produced' = Append(Produced, Dispatch(event, received))
    BY <1>4 DEF Works
  <2>2. Dispatch(event, received) \in Dispatches
    BY <1>2, <2>1 DEF Dispatch, Dispatches
  <2>3. /\ DOMAIN Produced' = 1 .. Len(Produced) + 1
        /\ \A j \in 1 .. Len(Produced) : Produced'[j] = Produced[j]
        /\ Produced'[Len(Produced) + 1] = Dispatch(event, received)
    BY <1>1, <2>1, <2>2, AppendProperties, LenProperties
  <2>4. ASSUME NEW e \in DOMAIN Rank, NEW k \in Nat
        PROVE  IsProduced(e, k)' <=> IsProduced(e, k) \/ (e = event /\ k = received)
    <3>1. IsProduced(e, k) => IsProduced(e, k)'
      BY <1>1, <2>3 DEF IsProduced
    <3>2. e = event /\ k = received => IsProduced(e, k)'
      BY <1>1, <2>3 DEF IsProduced
    <3>3. IsProduced(e, k)' => IsProduced(e, k) \/ (e = event /\ k = received)
      <4> SUFFICES ASSUME NEW j \in 1 .. Len(Produced) + 1, Produced'[j] = Dispatch(e, k)
                   PROVE  IsProduced(e, k) \/ (e = event /\ k = received)
        BY <2>3 DEF IsProduced
      <4>1. CASE j \in 1 .. Len(Produced)
        BY <1>1, <2>3, <4>1 DEF IsProduced
      <4>2. CASE j = Len(Produced) + 1
        BY <2>3, <4>2 DEF Dispatch
      <4> QED
        BY <1>1, <4>1, <4>2
    <3> QED
      BY <3>1, <3>2, <3>3
  <2> QED
    BY <2>3, <2>4
<1> QED
  BY <1>3, <1>4

(* The order of the sequence is kept and the events of the message are bounded. *)
LEMMA WorkKeepsOrder ==
  ASSUME TypeOK, Len(stream) <= MaxMessages, Follows, NEW event, Works(event)
  PROVE  Ordered' /\ Reached'
<1>1. /\ Produced \in Seq(Dispatches) /\ Len(Produced) \in Nat
      /\ DOMAIN Produced = 1 .. Len(Produced)
  BY ProducedType
<1>2. received' = received /\ received \in Nat
  BY DEF Works, TypeOK
<1>3. PutSoFar \in Nat /\ PutSoFar' \in Nat
  BY DEF PutSoFar
<1>4. \A j \in 1 .. Len(Produced) : /\ Produced[j].of \in Nat
                                    /\ Rank[Produced[j].event] \in Nat
  <2>1. \A j \in 1 .. Len(Produced) : Produced[j] \in Dispatches
    BY <1>1
  <2> QED
    BY <2>1 DEF Dispatches, Rank
<1>5. CASE event = "none"
  BY <1>1, <1>2, <1>3, <1>4, <1>5 DEF Works, Follows, Ordered, Reached
<1>6. CASE event # "none"
  <2>1. /\ DOMAIN Produced' = 1 .. Len(Produced) + 1
        /\ \A j \in 1 .. Len(Produced) : Produced'[j] = Produced[j]
        /\ Produced'[Len(Produced) + 1] = Dispatch(event, received)
    BY <1>6, WorkProduces
  <2>2. PutSoFar < Rank[event] /\ Rank[event] <= PutSoFar' /\ Rank[event] \in Nat
    BY <1>6 DEF Works, Rank
  <2>3. Dispatch(event, received).of = received /\ Dispatch(event, received).event = event
    BY DEF Dispatch
  <2>4. \A j \in 1 .. Len(Produced) :
          \/ Produced[j].of < received
          \/ Produced[j].of = received /\ Rank[Produced[j].event] <= PutSoFar
    BY <1>1 DEF Follows, Reached
  <2>5. Reached'
    BY <1>1, <1>2, <1>3, <1>4, <2>1, <2>2, <2>3, <2>4 DEF Reached
  <2>6. Ordered'
    <3> SUFFICES ASSUME NEW i \in 1 .. Len(Produced) + 1, NEW j \in 1 .. Len(Produced) + 1, i < j
                 PROVE  \/ Produced'[i].of < Produced'[j].of
                        \/ /\ Produced'[i].of = Produced'[j].of
                           /\ Rank[Produced'[i].event] < Rank[Produced'[j].event]
      BY <2>1 DEF Ordered
    <3>1. i \in 1 .. Len(Produced) /\ Produced'[i] = Produced[i]
      BY <1>1, <2>1
    <3>2. CASE j \in 1 .. Len(Produced)
      BY <1>1, <2>1, <3>1, <3>2 DEF Follows, Ordered
    <3>3. CASE j = Len(Produced) + 1
      BY <1>3, <1>4, <2>1, <2>2, <2>3, <2>4, <3>1, <3>3
    <3> QED
      BY <1>1, <3>2, <3>3
  <2> QED
    BY <2>5, <2>6
<1> QED
  BY <1>5, <1>6

(* Such a step keeps all that is said of the events. *)
LEMMA WorkFollows ==
  ASSUME TypeOK, Len(stream) <= MaxMessages, Follows, NEW event, Works(event)
  PROVE  Follows'
<1>1. /\ stream \in Seq(Messages) /\ Len(stream) \in Nat
      /\ received \in 1 .. Len(stream)
      /\ UNCHANGED <<received, stream>>
  BY DEF TypeOK, Works
<1>2. \A e \in DOMAIN Rank, k \in Nat :
        IsProduced(e, k)' <=> IsProduced(e, k) \/ (e = event /\ k = received)
  BY WorkProduces
<1>3. {"stats", "kill", "death", "game_end"} \subseteq DOMAIN Rank
  BY DEF Rank
<1>4. Ordered' /\ Reached'
  BY WorkKeepsOrder
<1>5. StatsPut'
  BY <1>1, <1>2, <1>3 DEF Follows, StatsPut, Works
<1>6. DeathsPut'
  BY <1>1, <1>2, <1>3 DEF Follows, DeathsPut, Works
<1>7. EndsPut'
  <2>1. \A k : Started(k)' <=> Started(k)
    BY <1>1 DEF Started
  <2>2. IN_PROGRESS <=> Started(received)
    BY DEF Follows, EndsPut, Pending, Works
  <2>3. Started(received + 1) <=> \/ stream[received].type = "MATCH_STARTED"
                                  \/ Started(received) /\ stream[received].type # "MATCH_REPORT"
    BY <1>1, StartedNext
  <2>4. IN_PROGRESS' <=> Started(Pending)'
    <3>1. CASE stage' = "polling"
      <4>1. IN_PROGRESS' <=> Started(received + 1)
        BY <2>2, <2>3, <3>1 DEF Works
      <4>2. Pending' = received + 1
        BY <1>1, <3>1 DEF Pending
      <4>3. Started(Pending)' <=> Started(received + 1)
        BY <1>1, <4>2 DEF Started
      <4> QED
        BY <4>1, <4>3
    <3>2. CASE stage' # "polling"
      <4>1. IN_PROGRESS' <=> Started(received)
        BY <2>2, <3>2 DEF Works
      <4>2. Pending' = received
        BY <1>1, <3>2 DEF Pending
      <4>3. Started(Pending)' <=> Started(received)
        BY <1>1, <4>2 DEF Started
      <4> QED
        BY <4>1, <4>3
    <3> QED
      BY <3>1, <3>2
  <2>5. Handled = 1 .. received - 1
    BY DEF Handled, Works
  <2>6. \A k \in 1 .. received - 1 : stream[k].type = "MATCH_REPORT" =>
          (IsProduced("game_end", k)' <=> Started(k)')
    <3>1. \A k \in 1 .. received - 1 : stream[k].type = "MATCH_REPORT" =>
            (IsProduced("game_end", k) <=> Started(k))
      BY <2>5 DEF Follows, EndsPut
    <3>2. \A k \in 1 .. received - 1 : IsProduced("game_end", k)' <=> IsProduced("game_end", k)
      BY <1>1, <1>2, <1>3
    <3> QED
      BY <2>1, <3>1, <3>2
  <2>7. PICK n \in 1 .. Len(stream) : n = received
    BY <1>1
  <2>8. ASSUME stage' = "polling", stream[n].type = "MATCH_REPORT"
        PROVE  IsProduced("game_end", n)' <=> Started(n)'
    <3>1. stage = "type" /\ (event = "game_end" <=> IN_PROGRESS)
      BY <2>7, <2>8 DEF Works
    <3>2. ~IsProduced("game_end", n)
      <4>1. PutSoFar = 1 /\ Rank["game_end"] = 2
        BY <3>1 DEF PutSoFar, Rank
      <4>2. ASSUME NEW j \in DOMAIN Produced, Produced[j] = Dispatch("game_end", n)
            PROVE  FALSE
        <5>1. Produced[j].of = received /\ Produced[j].event = "game_end"
          BY <2>7, <4>2 DEF Dispatch
        <5> QED
          BY <1>1, <4>1, <5>1 DEF Follows, Reached
      <4> QED
        BY <4>2 DEF IsProduced
    <3>3. IsProduced("game_end", n)' <=> event = "game_end"
      BY <1>1, <1>2, <1>3, <2>7, <3>2
    <3>4. Started(received) <=> Started(n)
      BY <2>7 DEF Started
    <3> QED
      BY <2>1, <2>2, <3>1, <3>3, <3>4
  <2>9. ASSUME NEW k \in Handled', stream'[k].type = "MATCH_REPORT"
        PROVE  IsProduced("game_end", k)' <=> Started(k)'
    <3>1. k \in 1 .. received - 1 \/ (k = n /\ stage' = "polling")
      BY <1>1, <2>7 DEF Handled
    <3> QED
      BY <1>1, <2>6, <2>8, <2>9, <3>1
  <2> QED
    BY <2>4, <2>9 DEF EndsPut
<1>8. StagesTell'
  BY DEF Works
<1> QED
  BY <1>4, <1>5, <1>6, <1>7, <1>8 DEF Follows

(* Receiving a message puts nothing; a malformed one is done with at once. *)
LEMMA ReceiveFollows ==
  ASSUME TypeOK, Follows, Receive
  PROVE  Follows'
<1>1. /\ stream \in Seq(Messages) /\ Len(stream) \in Nat
      /\ received \in 0 .. Len(stream)
  BY DEF TypeOK
<1>2. /\ stage = "polling" /\ received < Len(stream) /\ received' = received + 1
      /\ stage' = IF stream[received + 1].type = "malformed" THEN "polling" ELSE "stats"
      /\ UNCHANGED <<stream, IN_PROGRESS, dispatched, frame_tasks, next_frame_tasks>>
  BY DEF Receive, ThreadStep, frameVars, gameVars
<1>3. PICK n \in 0 .. Len(stream) : n = received
  BY <1>1
<1>4. n \in Nat /\ n + 1 \in 1 .. Len(stream) /\ received' = n + 1
  BY <1>1, <1>2, <1>3
<1>5. Produced' = Produced
  BY <1>2 DEF Produced
<1>6. \A e, k : IsProduced(e, k)' <=> IsProduced(e, k)
  BY <1>5 DEF IsProduced
<1>7. \A j \in DOMAIN Produced : Produced[j].of \in Nat /\ Produced[j].of < n + 1
  <2>1. \A j \in DOMAIN Produced : Produced[j] \in Dispatches
    BY ProducedType
  <2>2. \A j \in DOMAIN Produced : Produced[j].of \in Nat
    BY <2>1 DEF Dispatches
  <2> QED
    BY <1>3, <1>4, <2>2 DEF Follows, Reached
<1>8. \A e : ~IsProduced(e, n + 1)
  BY <1>4, <1>7 DEF IsProduced, Dispatch
<1>9. Ordered' /\ Reached'
  BY <1>4, <1>5, <1>7 DEF Follows, Ordered, Reached
<1>10. StatsPut'
  <2> SUFFICES ASSUME NEW k \in 1 .. n + 1
               PROVE  \/ stream[k].type = "malformed"
                      \/ k = n + 1 /\ stage' = "stats"
                      \/ IsProduced("stats", k)
    BY <1>2, <1>4, <1>6 DEF StatsPut
  <2>1. CASE k = n + 1
    BY <1>2, <1>3, <2>1
  <2>2. CASE k \in 1 .. n
    BY <1>2, <1>3, <2>2 DEF Follows, StatsPut
  <2> QED
    BY <1>4, <2>1, <2>2
<1>11. DeathsPut'
  <2>1. stage' # "kill"
    BY <1>2
  <2>2. \A k \in 1 .. n : IsProduced("kill", k) => IsProduced("death", k)
    BY <1>3 DEF Follows, DeathsPut
  <2> QED
    BY <1>4, <1>6, <1>8, <2>1, <2>2 DEF DeathsPut
<1>12. EndsPut'
  <2>1. \A k : Started(k)' <=> Started(k)
    BY <1>2 DEF Started
  <2>2. IN_PROGRESS <=> Started(n + 1)
    <3>1. Pending = n + 1
      BY <1>2, <1>3 DEF Pending
    <3> QED
      BY <3>1 DEF Follows, EndsPut, Started
  <2>3. IN_PROGRESS' <=> Started(Pending)'
    <3>1. CASE stage' = "stats"
      <4>1. Pending' = n + 1
        BY <1>4, <3>1 DEF Pending
      <4>2. Started(Pending)' <=> Started(n + 1)
        BY <1>2, <4>1 DEF Started
      <4> QED
        BY <1>2, <2>2, <4>2
    <3>2. CASE stage' # "stats"
      <4>1. stage' = "polling" /\ stream[n + 1].type = "malformed"
        BY <1>2, <1>3, <3>2
      <4>2. Pending' = n + 1 + 1
        BY <1>4, <4>1 DEF Pending
      <4>3. Started(Pending)' <=> Started(n + 1 + 1)
        BY <1>2, <4>2 DEF Started
      <4>4. Started(n + 1 + 1) <=> Started(n + 1)
        BY <1>1, <1>4, <4>1, StartedNext
      <4> QED
        BY <1>2, <2>2, <4>3, <4>4
    <3> QED
      BY <3>1, <3>2
  <2>4. \A k \in 1 .. n : stream[k].type = "MATCH_REPORT" =>
          (IsProduced("game_end", k) <=> Started(k))
    BY <1>2, <1>3 DEF Follows, EndsPut, Handled
  <2>5. \A k \in Handled' : k \in 1 .. n \/ stream[k].type = "malformed"
    <3>1. CASE stage' = "stats"
      BY <1>4, <3>1 DEF Handled
    <3>2. CASE stage' # "stats"
      <4>1. stage' = "polling" /\ stream[n + 1].type = "malformed"
        BY <1>2, <1>3, <3>2
      <4>2. \A k \in 1 .. n + 1 : k \in 1 .. n \/ k = n + 1
        BY <1>4
      <4> QED
        BY <1>4, <4>1, <4>2 DEF Handled
    <3> QED
      BY <3>1, <3>2
  <2>6. \A k \in Handled' : stream'[k].type = "MATCH_REPORT" =>
          (IsProduced("game_end", k)' <=> Started(k)')
    BY <1>2, <1>6, <2>1, <2>4, <2>5
  <2> QED
    BY <2>3, <2>6 DEF EndsPut
<1>13. StagesTell'
  BY <1>2 DEF StagesTell
<1> QED
  BY <1>9, <1>10, <1>11, <1>12, <1>13 DEF Follows

(* A put of the thread appends its dispatch to the sequence. *)
LEMMA PutProduces ==
  ASSUME TypeOK, Len(stream) <= MaxMessages, received > 0,
         NEW event \in DOMAIN Rank, NEW next, Put(event, next)
  PROVE  /\ Produced' = Append(Produced, Dispatch(event, received))
         /\ stage' = next
         /\ UNCHANGED <<received, stream>>
<1>1. Dispatch(event, received) \in Dispatches
  BY ConstantsAssumption DEF Dispatch, Dispatches, TypeOK
<1>2. /\ next_frame_tasks' = Append(next_frame_tasks, Dispatch(event, received))
      /\ stage' = next
      /\ UNCHANGED <<received, stream, dispatched, frame_tasks>>
  BY DEF Put, ThreadStep, frameVars, gameVars
<1> QED
  BY <1>1, <1>2, PutAppends

(* A step of the thread without a put leaves the sequence alone. *)
LEMMA GoToProduces ==
  ASSUME NEW next, GoTo(next)
  PROVE  Produced' = Produced /\ stage' = next /\ UNCHANGED <<received, stream>>
  BY DEF GoTo, ThreadStep, frameVars, gameVars, Produced

(* Every step of the thread on a message is such a step. *)
LEMMA ListenerWorks ==
  ASSUME TypeOK, Len(stream) <= MaxMessages, stage # "polling" => received > 0,
         StagesTell, Listener, ~Receive
  PROVE  \E event : Works(event)
<1>1. \A next : \A event \in DOMAIN Rank : Put(event, next) /\ received > 0 =>
        /\ Produced' = Append(Produced, Dispatch(event, received))
        /\ stage' = next
        /\ UNCHANGED <<received, stream>>
  BY PutProduces
<1>2. \A next : GoTo(next) =>
        Produced' = Produced /\ stage' = next /\ UNCHANGED <<received, stream>>
  BY GoToProduces
<1>3. /\ stage = "stats" => PutSoFar = 0
      /\ stage = "kill" => PutSoFar = 2
      /\ stage \notin {"polling", "stats", "kill"} => PutSoFar = 1
  BY DEF PutSoFar
<1>4. /\ stage' = "polling" => PutSoFar' = 3
      /\ stage' = "kill" => PutSoFar' = 2
      /\ stage' \notin {"polling", "stats", "kill"} => PutSoFar' = 1
  BY DEF PutSoFar
<1>5. /\ DOMAIN Rank = {"stats", "game_start", "round_end", "game_end", "death",
                        "team_switch", "kill"}
      /\ Rank["stats"] = 1 /\ Rank["kill"] = 3
      /\ \A event \in DOMAIN Rank \ {"stats", "kill"} : Rank[event] = 2
  BY DEF Rank
<1>6. ASSUME DispatchStats
      PROVE  Works("stats")
  <2>1. /\ stage = "stats" /\ received > 0
        /\ stage' = "type"
        /\ UNCHANGED <<received, stream>>
        /\ Produced' = Append(Produced, Dispatch("stats", received))
    BY <1>1, <1>5, <1>6 DEF DispatchStats
  <2>2. UNCHANGED IN_PROGRESS
    BY <1>6 DEF DispatchStats
  <2> QED
    BY <1>3, <1>4, <1>5, <1>6, <2>1, <2>2 DEF Works, StagesTell
<1>7. ASSUME MatchStarted
      PROVE  Works("game_start")
  <2>1. /\ stage = "type" /\ received > 0
        /\ stage' = "polling"
        /\ UNCHANGED <<received, stream>>
        /\ Produced' = Append(Produced, Dispatch("game_start", received))
    BY <1>1, <1>5, <1>7 DEF MatchStarted
  <2>2. stream[received].type = "MATCH_STARTED" /\ IN_PROGRESS' = TRUE
    BY <1>7 DEF MatchStarted, Message
  <2> QED
    BY <1>3, <1>4, <1>5, <1>7, <2>1, <2>2 DEF Works, StagesTell
<1>8. ASSUME RoundOver
      PROVE  Works("round_end")
  <2>1. /\ stage = "type" /\ received > 0
        /\ stage' = "polling"
        /\ UNCHANGED <<received, stream>>
        /\ Produced' = Append(Produced, Dispatch("round_end", received))
    BY <1>1, <1>5, <1>8 DEF RoundOver
  <2>2. stream[received].type = "ROUND_OVER" /\ UNCHANGED IN_PROGRESS
    BY <1>8 DEF RoundOver, Message
  <2> QED
    BY <1>3, <1>4, <1>5, <1>8, <2>1, <2>2 DEF Works, StagesTell
<1>9. ASSUME MatchReport, IN_PROGRESS
      PROVE  Works("game_end")
  <2>1. /\ stage = "type" /\ received > 0
        /\ stage' = "polling"
        /\ UNCHANGED <<received, stream>>
        /\ Produced' = Append(Produced, Dispatch("game_end", received))
    BY <1>1, <1>5, <1>9 DEF MatchReport
  <2>2. stream[received].type = "MATCH_REPORT" /\ IN_PROGRESS' = FALSE
    BY <1>9 DEF MatchReport, Message
  <2> QED
    BY <1>3, <1>4, <1>5, <1>9, <2>1, <2>2 DEF Works, StagesTell
<1>10. ASSUME MatchReport, ~IN_PROGRESS
       PROVE  Works("none")
  <2>1. /\ stage = "type" /\ received > 0
        /\ stage' = "polling"
        /\ UNCHANGED <<received, stream>>
        /\ Produced' = Produced
    BY <1>2, <1>5, <1>10 DEF MatchReport
  <2>2. stream[received].type = "MATCH_REPORT" /\ IN_PROGRESS' = FALSE
    BY <1>10 DEF MatchReport, Message
  <2> QED
    BY <1>3, <1>4, <1>5, <1>10, <2>1, <2>2 DEF Works, StagesTell
<1>11. ASSUME OtherType
       PROVE  Works("none")
  <2>1. /\ stage = "type" /\ received > 0
        /\ stage' = "polling"
        /\ UNCHANGED <<received, stream>>
        /\ Produced' = Produced
    BY <1>2, <1>5, <1>11 DEF OtherType
  <2>2. stream[received].type = "other" /\ UNCHANGED IN_PROGRESS
    BY <1>11 DEF OtherType, Message
  <2> QED
    BY <1>3, <1>4, <1>5, <1>11, <2>1, <2>2 DEF Works, StagesTell
<1>12. ASSUME LookUpVictim
       PROVE  Works("none")
  <2>1. /\ stage = "type" /\ received > 0
        /\ stage' \in {"killer", "polling"}
        /\ UNCHANGED <<received, stream>>
        /\ Produced' = Produced
    BY <1>2, <1>5, <1>12 DEF LookUpVictim
  <2>2. stream[received].type = "PLAYER_DEATH" /\ UNCHANGED IN_PROGRESS
    BY <1>12 DEF LookUpVictim, Message
  <2> QED
    BY <1>3, <1>4, <1>5, <1>12, <2>1, <2>2 DEF Works, StagesTell
<1>13. ASSUME LookUpKiller
       PROVE  Works("none")
  <2>1. /\ stage = "killer" /\ received > 0
        /\ stage' \in {"death", "death and kill"}
        /\ UNCHANGED <<received, stream>>
        /\ Produced' = Produced
    BY <1>2, <1>5, <1>13 DEF LookUpKiller
  <2>2. stream[received].type = "PLAYER_DEATH" /\ UNCHANGED IN_PROGRESS
    BY <1>13, <2>1 DEF LookUpKiller, StagesTell
  <2>3. PutSoFar <= PutSoFar'
    <3>1. PutSoFar = 1 /\ PutSoFar' = 1
      BY <1>3, <1>4, <2>1
    <3> QED
      BY <3>1
  <2>4. StagesTell'
    BY <2>1, <2>2 DEF StagesTell
  <2>5. stage # "polling" /\ stage # "stats" /\ stage' # "stats" /\ stage' # "kill"
        /\ stage' # "polling"
    BY <2>1
  <2> QED
    BY <2>1, <2>2, <2>3, <2>4, <2>5, Zenon DEF Works
<1>14. ASSUME DispatchDeath
       PROVE  Works("death")
  <2>1. /\ stage \in {"death", "death and kill"} /\ received > 0
        /\ UNCHANGED IN_PROGRESS
        /\ stream[received].type = "PLAYER_DEATH"
    BY <1>14 DEF DispatchDeath, StagesTell
  <2>2. CASE stage = "death"
    <3>1. Put("death", "polling")
      BY <1>14, <2>2 DEF DispatchDeath
    <3>2. /\ Produced' = Append(Produced, Dispatch("death", received))
          /\ stage' = "polling"
          /\ UNCHANGED <<received, stream>>
      BY <1>1, <1>5, <2>1, <3>1
    <3> QED
      BY <1>3, <1>4, <1>5, <2>1, <2>2, <3>2 DEF Works, StagesTell
  <2>3. CASE stage = "death and kill"
    <3>1. Put("death", "kill")
      BY <1>14, <2>3 DEF DispatchDeath
    <3>2. /\ Produced' = Append(Produced, Dispatch("death", received))
          /\ stage' = "kill"
          /\ UNCHANGED <<received, stream>>
      BY <1>1, <1>5, <2>1, <3>1
    <3>3. PutSoFar < Rank["death"] /\ Rank["death"] <= PutSoFar' /\ "death" \in DOMAIN Rank
      <4>1. PutSoFar = 1 /\ PutSoFar' = 2 /\ Rank["death"] = 2
        BY <1>3, <1>4, <1>5, <2>3, <3>2
      <4> QED
        BY <1>5, <4>1
    <3>4. StagesTell'
      BY <2>1, <3>2 DEF StagesTell
    <3> QED
      BY <2>1, <2>3, <3>2, <3>3, <3>4, Zenon DEF Works
  <2> QED
    BY <2>1, <2>2, <2>3
<1>15. ASSUME DispatchKill
       PROVE  Works("kill")
  <2>1. /\ stage = "kill" /\ received > 0
        /\ stage' = "polling"
        /\ UNCHANGED <<received, stream>>
        /\ Produced' = Append(Produced, Dispatch("kill", received))
    BY <1>1, <1>5, <1>15 DEF DispatchKill
  <2>2. stream[received].type = "PLAYER_DEATH" /\ UNCHANGED IN_PROGRESS
    BY <1>15, <2>1 DEF DispatchKill, StagesTell
  <2> QED
    BY <1>3, <1>4, <1>5, <1>15, <2>1, <2>2 DEF Works, StagesTell
<1>16. ASSUME LookUpSwitcher
       PROVE  Works("none")
  <2>1. /\ stage = "type" /\ received > 0
        /\ stage' \in {"team_switch", "polling"}
        /\ UNCHANGED <<received, stream>>
        /\ Produced' = Produced
    BY <1>2, <1>5, <1>16 DEF LookUpSwitcher
  <2>2. stream[received].type = "PLAYER_SWITCHTEAM" /\ UNCHANGED IN_PROGRESS
    BY <1>16 DEF LookUpSwitcher, Message
  <2>3. PutSoFar = 1 /\ (PutSoFar' = 1 \/ PutSoFar' = 3)
    BY <1>3, <1>4, <2>1
  <2>4. StagesTell'
    BY <2>1, <2>2 DEF StagesTell
  <2> QED
    BY <2>1, <2>2, <2>3, <2>4 DEF Works
<1>17. ASSUME DispatchTeamSwitch
       PROVE  Works("team_switch")
  <2>1. /\ stage = "team_switch" /\ received > 0
        /\ stage' = "polling"
        /\ UNCHANGED <<received, stream>>
        /\ Produced' = Append(Produced, Dispatch("team_switch", received))
    BY <1>1, <1>5, <1>17 DEF DispatchTeamSwitch
  <2>2. stream[received].type = "PLAYER_SWITCHTEAM" /\ UNCHANGED IN_PROGRESS
    BY <1>17, <2>1 DEF DispatchTeamSwitch, StagesTell
  <2> QED
    BY <1>3, <1>4, <1>5, <1>17, <2>1, <2>2 DEF Works, StagesTell
<1> QED
  BY <1>6, <1>7, <1>8, <1>9, <1>10, <1>11, <1>12, <1>13, <1>14,
     <1>15, <1>16, <1>17 DEF Listener

(* The game only adds to the stream. *)
LEMMA GameAdds ==
  ASSUME IInv, Game
  PROVE  /\ UNCHANGED <<received, stage, IN_PROGRESS>>
         /\ Produced' = Produced
         /\ Len(stream') >= Len(stream)
         /\ \A i \in 1 .. Len(stream) : stream'[i] = stream[i]
<1>1. UNCHANGED <<received, stage, IN_PROGRESS, dispatched, frame_tasks, next_frame_tasks>>
  BY DEF Game, listenerVars, frameVars
<1>2. TypeOK /\ Len(stream) <= MaxMessages /\ EntriesTell /\ Len(stream) \in Nat
  BY DEF IInv, TypeOK
<1>3. ASSUME NEW m \in Published, MatchMessage(m)
      PROVE  /\ Len(stream') >= Len(stream)
             /\ \A i \in 1 .. Len(stream) : stream'[i] = stream[i]
  <2>1. m \in Messages /\ Publish(m)
    BY <1>3, PublishedAssumption DEF MatchMessage, MatchMessages
  <2> QED
    BY <1>2, <2>1, PublishAppends
<1>4. ASSUME NEW p \in Players, NEW t \in Teams, SwitchTeam(p, t)
      PROVE  /\ Len(stream') >= Len(stream)
             /\ \A i \in 1 .. Len(stream) : stream'[i] = stream[i]
  <2>1. team[p] # None /\ MoveTo(p, t)
    BY <1>4 DEF SwitchTeam
  <2> QED
    BY <1>2, <2>1, MoveToKeepsEntries
<1>5. ASSUME NEW p \in Players, Join(p) \/ Leave(p)
      PROVE  /\ Len(stream') >= Len(stream)
             /\ \A i \in 1 .. Len(stream) : stream'[i] = stream[i]
  BY <1>2, <1>5 DEF Join, Leave
<1>6. Produced' = Produced
  BY <1>1 DEF Produced
<1> QED
  BY <1>1, <1>3, <1>4, <1>5, <1>6 DEF Game

(* Whatever a handler answers, the stream is only added to. *)
LEMMA DeniedSwitchAdds ==
  ASSUME IInv, RunDeniedSwitch
  PROVE  /\ Len(stream') >= Len(stream)
         /\ \A i \in 1 .. Len(stream) : stream'[i] = stream[i]
<1> DEFINE k == Due.of
           p == stream[k].player
           t == stream[k].old
<1>1. RunTask /\ IsMove(k) /\ put(p, t)
  BY RunTaskKeepsQueue DEF RunDeniedSwitch
<1>2. TypeOK /\ Len(stream) <= MaxMessages /\ EntriesTell /\ Len(stream) \in Nat
  BY DEF IInv, TypeOK
<1>3. p \in Players /\ t \in Teams
  BY <1>1, <1>2, SwitchFields DEF TypeOK, IsMove, Switches
<1>4. CASE team[p] \in {None, t}
  <2>1. UNCHANGED stream
    BY <1>1, <1>4 DEF put, gameVars
  <2> QED
    BY <1>2, <2>1
<1>5. CASE team[p] \notin {None, t}
  <2>1. MoveTo(p, t) /\ team[p] # None
    BY <1>1, <1>5 DEF put
  <2> HIDE DEF k, p, t
  <2> QED
    BY <1>2, <1>3, <2>1, MoveToKeepsEntries
<1> QED
  BY <1>4, <1>5

(* What the events say of the stream holds at first and is kept. *)
LEMMA EventsKept == Spec => []Follows
<1>1. Init => Follows
  <2> SUFFICES ASSUME Init
               PROVE  Follows
    OBVIOUS
  <2>1. /\ received = 0 /\ stage = "polling" /\ IN_PROGRESS = FALSE
        /\ Produced = (<<>> \o <<>>) \o <<>>
    BY DEF Init, Produced
  <2>2. Produced = <<>>
    BY <2>1
  <2>3. DOMAIN Produced = {}
    BY <2>2
  <2>4. Ordered /\ Reached
    BY <2>3 DEF Ordered, Reached
  <2>5. StatsPut /\ DeathsPut /\ StagesTell
    BY <2>1 DEF StatsPut, DeathsPut, StagesTell
  <2>6. Handled = {} /\ Pending = 1
    BY <2>1 DEF Handled, Pending
  <2>7. ~Started(Pending)
    BY <2>6 DEF Started
  <2>8. EndsPut
    BY <2>1, <2>6, <2>7 DEF EndsPut
  <2> QED
    BY <2>4, <2>5, <2>8 DEF Follows
<1>2. IInv /\ Follows /\ [Next]_vars => Follows'
  <2> SUFFICES ASSUME IInv, Follows, [Next]_vars
               PROVE  Follows'
    OBVIOUS
  <2>1. /\ TypeOK /\ Len(stream) <= MaxMessages /\ Len(stream) \in Nat
        /\ stage # "polling" => received > 0
    BY DEF IInv, TypeOK
  <2>2. CASE Game
    BY <2>1, <2>2, GameAdds, QuietFollows
  <2>3. CASE stop
    <3>1. /\ UNCHANGED <<received, stage, IN_PROGRESS, stream>>
          /\ Produced' = Produced
      BY <2>3 DEF stop, listenerVars, frameVars, gameVars, Produced
    <3> QED
      BY <2>1, <3>1, QuietFollows
  <2>4. CASE Receive
    BY <2>1, <2>4, ReceiveFollows
  <2>5. CASE Listener /\ ~Receive
    <3>1. StagesTell
      BY DEF Follows
    <3>2. PICK event : Works(event)
      BY <2>1, <2>5, <3>1, ListenerWorks
    <3> QED
      BY <2>1, <3>2, WorkFollows
  <2>6. CASE TransferNextFrameTasks
    <3>1. UNCHANGED <<received, stage, IN_PROGRESS, stream>>
      BY <2>6 DEF TransferNextFrameTasks, listenerVars, gameVars
    <3>2. Produced' = Produced
      BY <2>1, <2>6, TransferKeepsProduced
    <3> QED
      BY <2>1, <3>1, <3>2, QuietFollows
  <2>7. CASE RunDispatch
    <3>1. RunTask /\ UNCHANGED <<received, stage, IN_PROGRESS, stream>>
      BY <2>7 DEF RunDispatch, RunTask, listenerVars, gameVars
    <3>2. Produced' = Produced
      BY <2>1, <3>1, RunTaskKeepsProduced
    <3> QED
      BY <2>1, <3>1, <3>2, QuietFollows
  <2>8. CASE RunDeniedSwitch
    <3>1. RunTask /\ UNCHANGED <<received, stage, IN_PROGRESS>>
      BY <2>8 DEF RunDeniedSwitch, RunTask, listenerVars
    <3>2. Produced' = Produced
      BY <2>1, <3>1, RunTaskKeepsProduced
    <3> QED
      BY <2>1, <2>8, <3>1, <3>2, DeniedSwitchAdds, QuietFollows
  <2>9. CASE UNCHANGED vars
    <3>1. /\ UNCHANGED <<received, stage, IN_PROGRESS, stream>>
          /\ Produced' = Produced
      BY <2>9 DEF vars, listenerVars, frameVars, gameVars, Produced
    <3> QED
      BY <2>1, <3>1, QuietFollows
  <2> QED
    BY <2>2, <2>3, <2>4, <2>5, <2>6, <2>7, <2>8, <2>9 DEF Next
<1> QED
  BY <1>1, <1>2, InvariantKept, PTL DEF Spec

(* For any stream and any interleaving of the thread with the frames, the     *)
(* events come in the order of the messages, each once, every message that    *)
(* could be read has its stats event, and no kill comes without its death.    *)
THEOREM EventsComeInOrder == Spec => []EventsFollowTheStream
<1>1. IInv /\ Follows => EventsFollowTheStream
  <2> SUFFICES ASSUME IInv, Follows
               PROVE  EventsFollowTheStream
    OBVIOUS
  <2>1. received \in Nat
    BY DEF IInv, TypeOK
  <2>2. \A k \in Handled : k \in 1 .. received /\ ~(k = received /\ stage = "stats")
    BY <2>1 DEF Handled
  <2>3. \A k \in Handled : stream[k].type # "malformed" => IsProduced("stats", k)
    BY <2>2 DEF Follows, StatsPut
  <2> QED
    BY <2>3 DEF Follows, Ordered, DeathsPut, EventsFollowTheStream
<1> QED
  BY <1>1, InvariantKept, EventsKept, PTL

(* A report makes a game_end event exactly if the stream shows a match that   *)
(* was started and not ended before it, whatever the thread does in between.  *)
THEOREM OnlyStartedMatchesEnd == Spec => []EndsStartedMatches
<1>1. Follows => EndsStartedMatches
  BY DEF Follows, EndsPut, Started, EndsStartedMatches
<1> QED
  BY <1>1, EventsKept, PTL

=============================================================================

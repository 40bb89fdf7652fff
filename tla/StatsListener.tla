---------------------------- MODULE StatsListener ----------------------------
(***************************************************************************)
(* The listener for the stats the game publishes over ZMQ.                 *)
(*                                                                         *)
(* A thread of its own receives the messages, one after the other, and     *)
(* makes events of them.  It never dispatches itself: every dispatch is a  *)
(* next_frame function, so it runs on the main thread one or two frames    *)
(* later.  What a message says of players is looked up when the thread     *)
(* handles it; by then, and again when the event is dispatched, the game   *)
(* has gone on.  A denied team_switch puts the player back.                *)
(***************************************************************************)
EXTENDS Naturals, SequencesExt

CONSTANTS
  Players,     \* steam ids; a bot's name stands for its missing steam id
  Teams,
  None,        \* no killer, or a player who is not on the server
  Published,   \* bound: the messages the game publishes besides team switches
  MaxMessages  \* bound: messages published

ASSUME ConstantsAssumption ==
  /\ None \notin Players \cup Teams
  /\ MaxMessages \in Nat

\* "other" is any other TYPE, "malformed" a message that is no JSON.
Messages ==
  [type: {"MATCH_STARTED", "ROUND_OVER", "MATCH_REPORT", "other", "malformed"}]
    \cup [type: {"PLAYER_DEATH"}, victim: Players, killer: Players \cup {None}]
    \cup [type: {"PLAYER_SWITCHTEAM"}, player: Players, old: Teams, new: Teams]

MatchMessages == {m \in Messages : m.type # "PLAYER_SWITCHTEAM"}

ASSUME PublishedAssumption == Published \subseteq MatchMessages

\* The events of one message in the order they are dispatched in.
Rank ==
  [stats |-> 1, game_start |-> 2, round_end |-> 2, game_end |-> 2, death |-> 2,
   team_switch |-> 2, kill |-> 3]

Stages ==
  {"polling", "stats", "type", "killer", "death", "death and kill", "kill", "team_switch"}

VARIABLES
  stream,            \* what the game published, oldest first
  received,          \* how many of them the listener took from its socket
  stage,             \* where the thread is in try_handle_zmq_msg
  done,              \* StatsListener.done
  IN_PROGRESS,
  next_frame_tasks,  \* the dispatches that wait, by event and message
  frame_tasks,
  team,              \* the team of every player, None for those not connected
  dispatched,        \* history: the dispatches that were run
  entry,             \* history: the message of the switch into the present team, or 0
  vetoed,            \* history: the switches a team_switch handler denied
  late               \* history: messages received since done was set

listenerVars == <<received, stage, IN_PROGRESS, late>>
frameVars == <<frame_tasks, dispatched, vetoed>>
gameVars == <<stream, team, entry>>

vars == <<listenerVars, frameVars, gameVars, next_frame_tasks, done>>

Dispatch(event, k) == [event |-> event, of |-> k]

-----------------------------------------------------------------------------
(***************************************************************************)
(* The game, which runs between any two steps of the thread, and plugins.  *)
(***************************************************************************)
Publish(m) ==
  /\ Len(stream) < MaxMessages
  /\ stream' = Append(stream, m)

MatchMessage(m) ==
  /\ Publish(m)
  /\ UNCHANGED <<team, entry>>

\* The message is the next of the stream.
MoveTo(p, new) ==
  /\ Publish([type |-> "PLAYER_SWITCHTEAM", player |-> p, old |-> team[p], new |-> new])
  /\ team' = [team EXCEPT ![p] = new]
  /\ entry' = [entry EXCEPT ![p] = IF new = team[p] THEN @ ELSE Len(stream) + 1]

SwitchTeam(p, new) == team[p] # None /\ MoveTo(p, new)

Join(p) ==
  /\ team[p] = None
  /\ \E t \in Teams : team' = [team EXCEPT ![p] = t]
  /\ entry' = [entry EXCEPT ![p] = 0]
  /\ UNCHANGED stream

Leave(p) ==
  /\ team[p] # None
  /\ team' = [team EXCEPT ![p] = None]
  /\ entry' = [entry EXCEPT ![p] = 0]
  /\ UNCHANGED stream

Game ==
  /\ \/ \E m \in Published : MatchMessage(m)
     \/ \E p \in Players, t \in Teams : SwitchTeam(p, t)
     \/ \E p \in Players : Join(p) \/ Leave(p)
  /\ UNCHANGED <<listenerVars, frameVars, next_frame_tasks, done>>

stop ==
  /\ ~done
  /\ done' = TRUE
  /\ UNCHANGED <<listenerVars, frameVars, gameVars, next_frame_tasks>>

-----------------------------------------------------------------------------
(***************************************************************************)
(* _poll_zmq and try_handle_zmq_msg.                                       *)
(***************************************************************************)
Message == stream[received]

ThreadStep == UNCHANGED <<frameVars, gameVars, done>>

\* Mutant: an error in a message ends the loop.
ReceiveOrStop ==
  /\ stage = "polling"
  /\ received < Len(stream)
  /\ received' = received + 1
  /\ late' = IF done THEN late + 1 ELSE late
  /\ stage' = IF stream[received'].type = "malformed" THEN "ended" ELSE "stats"
  /\ UNCHANGED <<IN_PROGRESS, next_frame_tasks>>
  /\ ThreadStep

\* The loop does not look at done.  An error in a message is logged.
Receive ==
  /\ stage = "polling"
  /\ received < Len(stream)
  /\ received' = received + 1
  /\ late' = IF done THEN late + 1 ELSE late
  /\ stage' = IF stream[received'].type = "malformed" THEN "polling" ELSE "stats"
  /\ UNCHANGED <<IN_PROGRESS, next_frame_tasks>>
  /\ ThreadStep

\* One next_frame call, after which the thread goes on at another stage.
Put(event, next) ==
  /\ next_frame_tasks' = Append(next_frame_tasks, Dispatch(event, received))
  /\ stage' = next
  /\ UNCHANGED <<received, late>>
  /\ ThreadStep

GoTo(next) ==
  /\ stage' = next
  /\ UNCHANGED <<received, late, next_frame_tasks>>
  /\ ThreadStep

DispatchStats ==
  /\ stage = "stats"
  /\ Put("stats", "type")
  /\ UNCHANGED IN_PROGRESS

MatchStarted ==
  /\ stage = "type" /\ Message.type = "MATCH_STARTED"
  /\ IN_PROGRESS' = TRUE
  /\ Put("game_start", "polling")

RoundOver ==
  /\ stage = "type" /\ Message.type = "ROUND_OVER"
  /\ Put("round_end", "polling")
  /\ UNCHANGED IN_PROGRESS

\* Mutant: only a report that ends a match clears the flag, by leaving it as it is.
MatchReportKeepsFlag ==
  /\ stage = "type" /\ Message.type = "MATCH_REPORT"
  /\ IF IN_PROGRESS THEN Put("game_end", "polling") ELSE GoTo("polling")
  /\ UNCHANGED IN_PROGRESS

MatchReport ==
  /\ stage = "type" /\ Message.type = "MATCH_REPORT"
  /\ IF IN_PROGRESS THEN Put("game_end", "polling") ELSE GoTo("polling")
  /\ IN_PROGRESS' = FALSE

OtherType ==
  /\ stage = "type" /\ Message.type = "other"
  /\ GoTo("polling")
  /\ UNCHANGED IN_PROGRESS

\* player_by_steam_id or player_by_name: who is on the server at this moment.
Found(p) == p # None /\ team[p] # None

LookUpVictim ==
  /\ stage = "type" /\ Message.type = "PLAYER_DEATH"
  /\ GoTo(IF Found(Message.victim) THEN "killer" ELSE "polling")
  /\ UNCHANGED IN_PROGRESS

LookUpKiller ==
  /\ stage = "killer"
  /\ GoTo(IF Message.killer # None /\ Found(Message.killer) THEN "death and kill" ELSE "death")
  /\ UNCHANGED IN_PROGRESS

DispatchDeath ==
  /\ \/ stage = "death" /\ Put("death", "polling")
     \/ stage = "death and kill" /\ Put("death", "kill")
  /\ UNCHANGED IN_PROGRESS

\* Mutant: the kill event is dispatched by the thread itself.
DispatchKillAtOnce ==
  /\ stage = "kill"
  /\ dispatched' = Append(dispatched, Dispatch("kill", received))
  /\ stage' = "polling"
  /\ UNCHANGED <<received, IN_PROGRESS, late, next_frame_tasks, frame_tasks, vetoed, gameVars, done>>

DispatchKill ==
  /\ stage = "kill"
  /\ Put("kill", "polling")
  /\ UNCHANGED IN_PROGRESS

LookUpSwitcher ==
  /\ stage = "type" /\ Message.type = "PLAYER_SWITCHTEAM"
  /\ GoTo(IF Message.old # Message.new /\ Found(Message.player)
          THEN "team_switch" ELSE "polling")
  /\ UNCHANGED IN_PROGRESS

DispatchTeamSwitch ==
  /\ stage = "team_switch"
  /\ Put("team_switch", "polling")
  /\ UNCHANGED IN_PROGRESS

Listener ==
  \/ Receive \/ DispatchStats
  \/ MatchStarted \/ RoundOver \/ MatchReport \/ OtherType
  \/ LookUpVictim \/ LookUpKiller \/ DispatchDeath \/ DispatchKill
  \/ LookUpSwitcher \/ DispatchTeamSwitch

-----------------------------------------------------------------------------
(***************************************************************************)
(* The main thread.                                                        *)
(***************************************************************************)
\* At the end of a frame, which began with running all there was to run.
TransferNextFrameTasks ==
  /\ frame_tasks = <<>>
  /\ next_frame_tasks # <<>>
  /\ frame_tasks' = next_frame_tasks
  /\ next_frame_tasks' = <<>>
  /\ UNCHANGED <<listenerVars, gameVars, dispatched, vetoed, done>>

\* The task whose dispatch runs now.
Due == Head(frame_tasks)

RunTask ==
  /\ frame_tasks # <<>>
  /\ frame_tasks' = Tail(frame_tasks)
  /\ dispatched' = Append(dispatched, Due)
  /\ UNCHANGED <<listenerVars, next_frame_tasks, done>>

\* The console command runs at once.  The game moves whoever is connected.
put(p, t) == IF team[p] \in {None, t} THEN UNCHANGED gameVars ELSE MoveTo(p, t)

\* An allowed dispatch, and any event but team_switch.
RunDispatch ==
  /\ RunTask
  /\ UNCHANGED <<gameVars, vetoed>>

\* Mutant: the player is put into the team of the wrong end of the switch.
RunDeniedSwitchForward ==
  /\ RunTask
  /\ Due.event = "team_switch"
  /\ vetoed' = vetoed \cup {Due.of}
  /\ put(stream[Due.of].player, stream[Due.of].new)

RunDeniedSwitch ==
  /\ RunTask
  /\ Due.event = "team_switch"
  /\ vetoed' = vetoed \cup {Due.of}
  /\ put(stream[Due.of].player, stream[Due.of].old)

-----------------------------------------------------------------------------
Init ==
  /\ stream = <<>>
  /\ received = 0
  /\ stage = "polling"
  /\ done = FALSE
  /\ IN_PROGRESS = FALSE
  /\ next_frame_tasks = <<>>
  /\ frame_tasks = <<>>
  /\ team = [p \in Players |-> None]
  /\ dispatched = <<>>
  /\ entry = [p \in Players |-> 0]
  /\ vetoed = {}
  /\ late = 0

Next ==
  \/ Game
  \/ stop
  \/ Listener
  \/ TransferNextFrameTasks \/ RunDispatch \/ RunDeniedSwitch

Spec == Init /\ [][Next]_vars

(***************************************************************************)
(* The thread waits for messages with a timeout and holds no lock but the  *)
(* interpreter's, which it gets back in turn; the game runs frames.        *)
(***************************************************************************)
Fairness ==
  /\ WF_vars(Listener)
  /\ WF_vars(TransferNextFrameTasks)
  /\ WF_vars(RunDispatch \/ RunDeniedSwitch)

FairSpec == Spec /\ Fairness

-----------------------------------------------------------------------------
Dispatches == [event: DOMAIN Rank, of: 1 .. MaxMessages]

(* The types of the variables. *)
TypeOK ==
  /\ stream \in Seq(Messages)
  /\ received \in 0 .. Len(stream)
  /\ stage \in Stages
  /\ done \in BOOLEAN
  /\ IN_PROGRESS \in BOOLEAN
  /\ next_frame_tasks \in Seq(Dispatches)
  /\ frame_tasks \in Seq(Dispatches)
  /\ dispatched \in Seq(Dispatches)
  /\ team \in [Players -> Teams \cup {None}]
  /\ entry \in [Players -> 0 .. Len(stream)]
  /\ vetoed \subseteq 1 .. Len(stream)
  /\ late \in 0 .. received

Produced == dispatched \o frame_tasks \o next_frame_tasks

IsProduced(event, k) == \E j \in DOMAIN Produced : Produced[j] = Dispatch(event, k)

\* The messages the thread has finished with.
Handled == 1 .. (IF stage = "polling" THEN received ELSE received - 1)

(* Whatever the frames do meanwhile, the events are dispatched in the order   *)
(* of the stream, those of one message in theirs and none twice; every        *)
(* message has its stats event; and a kill has its death before it.           *)
EventsFollowTheStream ==
  /\ \A i, j \in DOMAIN Produced : i < j =>
       \/ Produced[i].of < Produced[j].of
       \/ /\ Produced[i].of = Produced[j].of
          /\ Rank[Produced[i].event] < Rank[Produced[j].event]
  /\ \A k \in Handled : stream[k].type # "malformed" => IsProduced("stats", k)
  /\ \A k \in 1 .. received : IsProduced("kill", k) => IsProduced("death", k)

(* The report that ends a started match makes a game_end event; any further   *)
(* report, and one of a match the listener did not see start, does not.       *)
EndsStartedMatches ==
  \A k \in Handled : stream[k].type = "MATCH_REPORT" =>
    (IsProduced("game_end", k) <=>
       \E i \in 1 .. k - 1 :
         /\ stream[i].type = "MATCH_STARTED"
         /\ \A l \in i + 1 .. k - 1 : stream[l].type # "MATCH_REPORT")

(* "If cancelled, simply put the player back in the old team": nobody is left *)
(* in a team by a switch that was denied, however late the denial was and     *)
(* wherever the player had gone by then.                                      *)
DeniedSwitchesAreUndone == \A p \in Players : entry[p] \notin vetoed

(* The thread outlives every message and its events reach the main thread.    *)
EveryMessageArrives ==
  \A k \in 1 .. MaxMessages :
    Len(stream) >= k /\ stream[k].type # "malformed"
      ~> Dispatch("stats", k) \in Range(dispatched)

(* The documentation of keep_receiving, "Receives until 'self.done' is set to *)
(* True": after stop() no message is taken but the one being waited for.      *)
StopEndsReceiving == late <= 1

=============================================================================

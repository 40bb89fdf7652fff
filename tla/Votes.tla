-------------------------------- MODULE Votes --------------------------------
(***************************************************************************)
(* A vote from callvote to its end: what the game holds, what the          *)
(* configstrings say, and what plugins are told.                           *)
(*                                                                         *)
(* A client calls a vote with a command, which the game may refuse; a      *)
(* plugin calls one with Plugin.callvote, on any thread.  Both look at     *)
(* CS_VOTE_STRING to see whether a vote is active and leave the caller     *)
(* with the vote_started dispatcher; vote_started goes off later, inside   *)
(* of the setting of CS_VOTE_STRING, before the engine has the string.     *)
(* vote_ended goes off when the text that announces the result is sent.    *)
(* Handlers run at every one of these steps: they may stop or change what  *)
(* is set or sent, and call and force votes themselves.                    *)
(*                                                                         *)
(* External: the game's side.  It holds one vote at a time, refuses a      *)
(* client's vote while it holds one, counts the ballots into CS_VOTE_YES,  *)
(* and to end a vote announces the result and then clears the string.  Of  *)
(* the four configstrings only the string and the yes count are here; the  *)
(* no count goes the way of the yes count, and nothing is read from the    *)
(* time.                                                                   *)
(***************************************************************************)
EXTENDS Naturals, Sequences, FiniteSets

CONSTANTS
  Threads,  \* Python threads, the game's main thread among them
  Main,     \* the thread that runs the engine
  Clients,  \* players that call votes and vote
  None,     \* Python's None, in place of a player
  MaxVotes, \* bound: votes ever called or asked for
  MaxDepth  \* bound: nested calls, per thread

ASSUME VotesAssumption ==
  /\ Main \in Threads
  /\ None \notin Clients
  /\ IsFiniteSet(Clients)
  /\ MaxVotes \in Nat
  /\ MaxDepth \in [Threads -> Nat]

\* A string is told apart by the vote it stands for: 0 is the empty string, Edited a
\* text that a handler has put in the place of another.
VoteIds == 1 .. MaxVotes
Edited == MaxVotes + 1
Strings == 0 .. Edited
Counts == 0 .. Cardinality(Clients)

VARIABLES
  level,    \* the vote the game holds (level.voteString), 0 if none
  yes,      \* level.voteYes
  ballots,  \* the clients whose voteState is yes
  cs,       \* CS_VOTE_STRING
  csYes,    \* CS_VOTE_YES
  player,   \* VoteStartedDispatcher.player
  stack,    \* per thread: the calls it is inside of, innermost last
  called,   \* votes called so far
  started,  \* history: votes announced by vote_started
  over,     \* history: votes the game has ended
  crossed,  \* history: votes whose start, count or end overlapped with another's
  stopped   \* history: votes of which a handler stopped a string or a count

game == <<level, yes, ballots>>
configstrings == <<cs, csYes>>
histories == <<started, over, crossed, stopped>>
vars == <<game, configstrings, player, stack, called, histories>>

\* vote: the vote the call is about; who asked for it; told, by and count: the vote, the
\* caller and the number in the event or configstring under way.
Call ==
  [call: {"client", "plugin", "ballot", "count", "end", "force"},
   at: {"called", "checked", "level", "string", "started", "yes", "ballot",
        "print", "ended", "clear", "force"},
   vote: Strings, who: Clients \cup {None},
   told: Strings, by: Clients \cup {None}, count: Counts]

Top(t) == stack[t][Len(stack[t])]

InCall(t, at) == stack[t] # <<>> /\ Top(t).at = at

\* The calls that set or clear something of a vote, of other threads, and those of this
\* thread that have got further than asking.
Underway(t) ==
  {f \in UNION {{stack[u][d] : d \in DOMAIN stack[u]} : u \in Threads \ {t}} :
     f.call \notin {"ballot", "force"}}
  \cup {f \in {stack[t][d] : d \in DOMAIN stack[t]} :
     f.call \notin {"ballot", "force"} /\ f.at # "called"}

Crosses(t, call, v) ==
  crossed' = IF call \in {"ballot", "force"} \/ Underway(t) = {} THEN crossed
             ELSE crossed \cup {v} \cup {f.vote : f \in Underway(t)}

Push(t, call, at, v, who, count) ==
  /\ Len(stack[t]) < MaxDepth[t]
  /\ stack' = [stack EXCEPT ![t] =
                 Append(@, [call |-> call, at |-> at, vote |-> v, who |-> who,
                            told |-> 0, by |-> None, count |-> count])]
  /\ Crosses(t, call, v)

Pop(t) == stack' = [stack EXCEPT ![t] = SubSeq(@, 1, Len(@) - 1)]

SetTop(t, f) == stack' = [stack EXCEPT ![t][Len(stack[t])] = f]

\* Plugin code runs on a thread that is in no call, or that runs handlers.
PluginRuns(t) == stack[t] # <<>> => Top(t).at \notin {"checked", "level", "force"}

EngineRuns == stack[Main] = <<>>

is_vote_active == cs # 0

-----------------------------------------------------------------------------
(***************************************************************************)
(* Calling a vote.                                                         *)
(***************************************************************************)
\* The game takes the vote: its caller has voted for it.
GameStartsVote(v, p) ==
  /\ level' = v
  /\ yes' = 1
  /\ ballots' = {p}

\* The callvote branch of handle_client_command.  With a vote active the command goes on
\* to the game unannounced.
ClientCallsVote(p) ==
  /\ EngineRuns
  /\ called < MaxVotes
  /\ called' = called + 1
  /\ IF is_vote_active
     THEN /\ UNCHANGED player
          /\ IF level = 0
             THEN /\ GameStartsVote(called', p)
                  /\ Push(Main, "client", "string", called', p, 1)
             ELSE UNCHANGED <<game, stack, crossed>>
     ELSE /\ player' = p
          /\ Push(Main, "client", "called", called', p, 1)
          /\ UNCHANGED game
  /\ UNCHANGED <<configstrings, started, over, stopped>>

\* The handlers of vote_called return; the game may refuse what they let through.
VoteCalledReturns ==
  /\ InCall(Main, "called")
  /\ \/ /\ Pop(Main)
        /\ UNCHANGED game
     \/ /\ level = 0
        /\ GameStartsVote(Top(Main).vote, Top(Main).who)
        /\ SetTop(Main, [Top(Main) EXCEPT !.at = "string"])
  /\ UNCHANGED <<configstrings, player, called, histories>>

\* Mutant: Plugin.callvote does not look whether a vote is active.
CallvoteAnyway(t) ==
  /\ PluginRuns(t)
  /\ called < MaxVotes
  /\ called' = called + 1
  /\ Push(t, "plugin", "checked", called', None, 0)
  /\ UNCHANGED <<game, configstrings, player, started, over, stopped>>

\* Plugin.callvote looks without the interpreter lock, and returns when a vote is active.
Callvote(t) ==
  /\ PluginRuns(t)
  /\ called < MaxVotes
  /\ ~is_vote_active
  /\ called' = called + 1
  /\ Push(t, "plugin", "checked", called', None, 0)
  /\ UNCHANGED <<game, configstrings, player, started, over, stopped>>

\* Mutant: the caller of the last vote is left in place.
KeepsCaller(t) ==
  /\ InCall(t, "checked")
  /\ SetTop(t, [Top(t) EXCEPT !.at = "level"])
  /\ UNCHANGED <<game, configstrings, player, called, histories>>

ClearsCaller(t) ==
  /\ InCall(t, "checked")
  /\ player' = None
  /\ SetTop(t, [Top(t) EXCEPT !.at = "level"])
  /\ UNCHANGED <<game, configstrings, called, histories>>

\* CurrentLevel.callvote, up to the first configstring.
LevelTakesVote(t) ==
  /\ InCall(t, "level")
  /\ level' = Top(t).vote
  /\ yes' = 0
  /\ ballots' = {}
  /\ SetTop(t, [Top(t) EXCEPT !.at = "string"])
  /\ UNCHANGED <<configstrings, player, called, histories>>

-----------------------------------------------------------------------------
(***************************************************************************)
(* Setting a configstring: set_configstring, for CS_VOTE_STRING then       *)
(* vote_started, and then the engine.                                      *)
(***************************************************************************)
\* Once the string is dealt with, the start of a vote goes on to its count, with a vote
\* the game ends there is nothing more to do.
AfterString(t) ==
  IF Top(t).call = "end" THEN Pop(t) ELSE SetTop(t, [Top(t) EXCEPT !.at = "yes"])

VoteStartedTells(t, told) ==
  /\ SetTop(t, [Top(t) EXCEPT !.at = "started", !.told = told, !.by = player])
  /\ started' = started \cup {Top(t).vote}

StringStopped(t) ==
  /\ InCall(t, "string") \/ InCall(t, "clear")
  /\ stopped' = stopped \cup {Top(t).vote}
  /\ AfterString(t)
  /\ UNCHANGED <<game, configstrings, player, called, started, over, crossed>>

\* The handlers leave the value alone, or put a text of their own in its place: that is
\* the vote plugins are told of, a vote even when the string was to be cleared.
StringAnnounced(t, edited) ==
  /\ InCall(t, "string") \/ (InCall(t, "clear") /\ edited)
  /\ VoteStartedTells(t, IF edited THEN Edited ELSE Top(t).vote)
  /\ UNCHANGED <<game, configstrings, player, called, over, crossed, stopped>>

StringCleared ==
  /\ InCall(Main, "clear")
  /\ cs' = 0
  /\ AfterString(Main)
  /\ UNCHANGED <<game, csYes, player, called, histories>>

\* Mutant: the engine gets the text that vote_started told plugins of.
VoteStartedReturnsText(t) ==
  /\ InCall(t, "started")
  /\ cs' = Top(t).told
  /\ AfterString(t)
  /\ UNCHANGED <<game, csYes, player, called, histories>>

\* Mutant: the None that the handler answers with stops the string.
VoteStartedStops(t) ==
  /\ InCall(t, "started")
  /\ AfterString(t)
  /\ UNCHANGED <<game, configstrings, player, called, histories>>

\* vote_started has been dispatched: the handler answers None, so that the engine gets
\* the string as it was before any handler saw it.
VoteStartedReturns(t) ==
  /\ InCall(t, "started")
  /\ cs' = IF Top(t).call = "end" THEN 0 ELSE Top(t).vote
  /\ AfterString(t)
  /\ UNCHANGED <<game, csYes, player, called, histories>>

\* Mutant: the count a vote starts with is not set.
CountSetOnlyByTheGame(t) ==
  /\ InCall(t, "yes")
  /\ csYes' = IF Top(t).call = "plugin" THEN csYes ELSE Top(t).count
  /\ Pop(t)
  /\ UNCHANGED <<game, cs, player, called, histories>>

CountSet(t) ==
  /\ InCall(t, "yes")
  /\ csYes' = Top(t).count
  /\ Pop(t)
  /\ UNCHANGED <<game, cs, player, called, histories>>

CountStopped(t) ==
  /\ InCall(t, "yes")
  /\ stopped' = stopped \cup {Top(t).vote}
  /\ Pop(t)
  /\ UNCHANGED <<game, configstrings, player, called, started, over, crossed>>

-----------------------------------------------------------------------------
(***************************************************************************)
(* Voting.                                                                 *)
(***************************************************************************)
\* The vote branch of handle_client_command; the game ignores a vote on nothing.
ClientVotes(p) ==
  /\ EngineRuns
  /\ p \notin ballots
  /\ level # 0
  /\ IF is_vote_active
     THEN /\ Push(Main, "ballot", "ballot", level, p, 0)
          /\ UNCHANGED ballots
     ELSE /\ ballots' = ballots \cup {p}
          /\ UNCHANGED <<stack, crossed>>
  /\ UNCHANGED <<level, yes, configstrings, player, called, started, over, stopped>>

VoteReturns(denied) ==
  /\ InCall(Main, "ballot")
  /\ ballots' = IF denied \/ level = 0 THEN ballots ELSE ballots \cup {Top(Main).who}
  /\ Pop(Main)
  /\ UNCHANGED <<level, yes, configstrings, player, called, histories>>

\* force_vote looks whether there is a vote ...
ForceVote(t) ==
  /\ PluginRuns(t)
  /\ level # 0
  /\ Push(t, "force", "force", level, None, 0)
  /\ UNCHANGED <<game, configstrings, player, called, started, over, stopped>>

\* ... and then has every active client vote, on what there is by then.
SetVoteStates(t, pass) ==
  /\ InCall(t, "force")
  /\ ballots' = IF pass THEN Clients ELSE {}
  /\ Pop(t)
  /\ UNCHANGED <<level, yes, configstrings, player, called, histories>>

GameCounts ==
  /\ EngineRuns
  /\ level # 0 /\ yes # Cardinality(ballots)
  /\ yes' = Cardinality(ballots)
  /\ Push(Main, "count", "yes", level, None, yes')
  /\ UNCHANGED <<level, ballots, configstrings, player, called, started, over, stopped>>

-----------------------------------------------------------------------------
(***************************************************************************)
(* The end of a vote: "Vote passed." or "Vote failed." is sent, and the    *)
(* string cleared.                                                         *)
(***************************************************************************)
GameEndsVote ==
  /\ EngineRuns
  /\ level # 0 /\ yes = Cardinality(ballots)
  /\ Push(Main, "end", "print", level, None, 0)
  /\ UNCHANGED <<game, configstrings, player, called, started, over, stopped>>

\* The handlers of server_command return: FALSE or another text and there is no
\* vote_ended, which also needs a string to tell what has ended.
TextSent(announced) ==
  /\ InCall(Main, "print")
  /\ IF announced /\ is_vote_active
     THEN /\ SetTop(Main, [Top(Main) EXCEPT !.at = "ended", !.told = cs, !.count = csYes])
          /\ UNCHANGED <<level, over>>
     ELSE /\ SetTop(Main, [Top(Main) EXCEPT !.at = "clear"])
          /\ level' = 0
          /\ over' = over \cup {Top(Main).vote, level}
  /\ UNCHANGED <<yes, ballots, configstrings, player, called, started, crossed, stopped>>

VoteEndedReturns ==
  /\ InCall(Main, "ended")
  /\ SetTop(Main, [Top(Main) EXCEPT !.at = "clear"])
  /\ level' = 0
  /\ over' = over \cup {Top(Main).vote, level}
  /\ UNCHANGED <<yes, ballots, configstrings, player, called, started, crossed, stopped>>

-----------------------------------------------------------------------------
Init ==
  /\ level = 0 /\ yes = 0 /\ ballots = {}
  /\ cs = 0 /\ csYes = 0
  /\ player = None
  /\ stack = [t \in Threads |-> <<>>]
  /\ called = 0
  /\ started = {} /\ over = {} /\ crossed = {} /\ stopped = {}

ClientStep(p) == ClientCallsVote(p) \/ ClientVotes(p)

ThreadStep(t) ==
  \/ Callvote(t) \/ ClearsCaller(t) \/ LevelTakesVote(t)
  \/ StringStopped(t) \/ VoteStartedReturns(t)
  \/ \E edited \in BOOLEAN : StringAnnounced(t, edited)
  \/ CountSet(t) \/ CountStopped(t)
  \/ ForceVote(t)
  \/ \E pass \in BOOLEAN : SetVoteStates(t, pass)

GameStep ==
  \/ VoteCalledReturns \/ StringCleared
  \/ \E denied \in BOOLEAN : VoteReturns(denied)
  \/ GameCounts \/ GameEndsVote
  \/ \E announced \in BOOLEAN : TextSent(announced)
  \/ VoteEndedReturns

Next ==
  \/ \E p \in Clients : ClientStep(p)
  \/ \E t \in Threads : ThreadStep(t)
  \/ GameStep

Spec == Init /\ [][Next]_vars

-----------------------------------------------------------------------------
(* The types of the variables. *)
TypeOK ==
  /\ level \in 0 .. MaxVotes
  /\ yes \in Counts
  /\ ballots \subseteq Clients
  /\ cs \in 0 .. MaxVotes /\ csYes \in Counts
  /\ player \in Clients \cup {None}
  /\ stack \in [Threads -> Seq(Call)]
  /\ called \in 0 .. MaxVotes
  /\ started \subseteq VoteIds /\ over \subseteq 0 .. MaxVotes
  /\ crossed \subseteq 0 .. MaxVotes /\ stopped \subseteq VoteIds

Calls == UNION {{stack[t][d] : d \in DOMAIN stack[t]} : t \in Threads}

\* The string of an earlier vote is still set: a handler kept it from being cleared, or
\* calls that overlapped left it behind.
StringIsStale(v) == cs \notin {0, v} /\ cs \in stopped \cup crossed

(* vote_started names who called the vote, nobody if a plugin did, although   *)
(* the player is stored before vote_called and kept when the vote is denied,  *)
(* or when a handler of vote_called calls a vote of its own: unless another   *)
(* thread called a vote meanwhile, or the vote was not announced because the  *)
(* string of an old one was still set.                                        *)
RightCaller ==
  \A f \in Calls :
    f.at = "started" /\ f.call # "end" =>
      f.by = f.who \/ f.vote \in crossed \/ StringIsStale(f.vote)

(* A vote is announced only when every vote announced before it is over: two  *)
(* never run side by side, whoever calls them; only where their calls         *)
(* overlapped, since both look before either has set the string.              *)
VotesTakeTurns ==
  \A v, w \in started \ over : v = w \/ v \in crossed \/ w \in crossed

(* When no call is under way CS_VOTE_STRING, by which plugins judge whether a *)
(* vote is active, is that of the vote the game holds: unless a handler       *)
(* stopped it from being set or cleared, or calls overlapped.                 *)
StringTellsTheVote ==
  (\A t \in Threads : stack[t] = <<>>) /\ cs # level =>
    {cs, level} \cap (crossed \cup stopped) # {}

(* vote_ended is about a vote that was announced by vote_started, also where  *)
(* a handler has stopped or changed a string; and about the one that ends,    *)
(* with the votes it got, unless one was stopped or calls overlapped.         *)
EndsWhatStarted ==
  \A f \in Calls :
    f.at = "ended" =>
      /\ f.told \in started
      /\ \/ f.told = f.vote /\ f.count = yes
         \/ {f.told, f.vote} \cap (crossed \cup stopped) # {}

=============================================================================

-------------------------- MODULE ClientConnections --------------------------
(***************************************************************************)
(* Clients come and go: the detours that announce it, kick(), and the word *)
(* of bits that lets plugins ask for a client whose slot counts as free.   *)
(*                                                                         *)
(* The engine connects, drops and frees clients on the main thread.  kick  *)
(* drops a client on whatever thread it is called, in two parts: the       *)
(* player_disconnect event, and then the engine's disconnect.  Around the  *)
(* handlers of player_connect and player_disconnect the bit of the client  *)
(* is set in ALLOW_FREE_CLIENT and cleared again, each by a load and a     *)
(* store of the whole word, with no lock held: two threads can undo each   *)
(* other's change.  A handler may kick, the client it is told about, too.  *)
(*                                                                         *)
(* External: the engine's own states.  A slot is free until the engine has *)
(* accepted the client; a dropped client is a zombie until a later frame   *)
(* frees the slot; bots are never zombies.  At a change of map the clients *)
(* keep their slots and load again; bots go on playing.                    *)
(***************************************************************************)
EXTENDS Naturals, Sequences, FiniteSets

CONSTANTS
  Threads,   \* Python threads, the game's main thread among them
  Main,      \* the thread that runs the engine
  Slots,     \* client ids
  MaxConns,  \* bound: connections ever tried
  MayBeBots, \* bound: the connections that may be bots
  MaxMaps,   \* bound: changes of map that a connection goes through, per connection
  MaxDepth   \* bound: nested calls, per thread

Conns == 1 .. MaxConns

ASSUME ConnectionsAssumption ==
  /\ Main \in Threads
  /\ MaxConns \in Nat /\ MayBeBots \subseteq Conns
  /\ MaxDepth \in [Threads -> Nat]

ASSUME MapsAssumption == MaxMaps \in [Conns -> Nat]

VARIABLES
  state,   \* per slot: clientState_t
  who,     \* per slot: the connection that has it, 0 if it is free
  bots,    \* the connections that are bots
  allowed, \* ALLOW_FREE_CLIENT, as the set of its bits
  stack,   \* per thread: the calls it is inside of, innermost last
  conns,   \* the connections tried so far
  told,    \* history: per connection, the events plugins were told, in order
  maps,    \* history: per connection, the changes of map it went through
  erased,  \* history: slots whose bit another thread cleared under their handlers
  revived, \* history: slots whose bit a stale store set again
  hit      \* history: connections ended by the disconnect meant for an earlier one

engineVars == <<state, who, bots, conns>>
histories == <<told, maps, erased, revived, hit>>
vars == <<engineVars, allowed, stack, histories>>

\* "spawning": the engine lets a client into the world, and handlers of player_spawn run.
Stages == {"set", "setting", "handlers", "clear", "clearing", "engine", "spawning"}

\* word is what the call loaded last, conn the client it is about.
Call ==
  [call: {"connect", "drop", "loaded"}, slot: Slots, conn: Conns, stage: Stages,
   word: SUBSET Slots, rejected: BOOLEAN]

Top(t) == stack[t][Len(stack[t])]

Push(t, call, s, c, stage) ==
  stack' = [stack EXCEPT ![t] =
              Append(@, [call |-> call, slot |-> s, conn |-> c, stage |-> stage,
                         word |-> {}, rejected |-> FALSE])]

Pop(t) == stack' = [stack EXCEPT ![t] = SubSeq(@, 1, Len(@) - 1)]

SetTop(t, f) == stack' = [stack EXCEPT ![t][Len(stack[t])] = f]

InStage(t, stage) == stack[t] # <<>> /\ Top(t).stage = stage

HandlersOf(t, s) ==
  \E d \in DOMAIN stack[t] : stack[t][d].slot = s /\ stack[t][d].stage = "handlers"

Tell(c, event) == told' = [told EXCEPT ![c] = Append(@, event)]

HasRoom(t) == Len(stack[t]) < MaxDepth[t]

\* player_info and get_userinfo answer.
Visible(s) == state[s] # "free" \/ s \in allowed

-----------------------------------------------------------------------------
(***************************************************************************)
(* The engine on the main thread, when nothing it called is under way.     *)
(***************************************************************************)
\* Mutant: the handlers run beside the engine, which goes on meanwhile.
EngineRunsOn == \A d \in DOMAIN stack[Main] : stack[Main][d].stage = "handlers"

EngineRuns == stack[Main] = <<>>

\* client_connect with first_time set; at a change of map it is called without, and
\* no plugin is asked.
ClientConnects(s, bot) ==
  /\ EngineRuns
  /\ state[s] = "free"
  /\ conns < MaxConns
  /\ conns' = conns + 1
  /\ bot => conns' \in MayBeBots
  /\ bots' = IF bot THEN bots \cup {conns'} ELSE bots
  /\ Push(Main, "connect", s, conns', "set")
  /\ UNCHANGED <<state, who, allowed, histories>>

ClientGetsGamestate(s) ==
  /\ EngineRuns
  /\ state[s] = "connected"
  /\ state' = [state EXCEPT ![s] = "primed"]
  /\ UNCHANGED <<who, bots, conns, allowed, stack, histories>>

\* Mutant: player_loaded is dispatched whenever a client enters the world.
EnterWorldAlwaysLoads(s) ==
  /\ EngineRuns
  /\ state[s] \in {"primed", "active"}
  /\ state' = [state EXCEPT ![s] = "active"]
  /\ Push(Main, "loaded", s, who[s], "spawning")
  /\ UNCHANGED <<who, bots, conns, allowed, histories>>

\* sv_cliententerworld: the state is read, and then the game lets the client in.  An active
\* client enters the world again when a game starts, and nothing is left to do about it.
EnterWorld(s) ==
  /\ EngineRuns
  /\ state[s] \in {"primed", "active"}
  /\ state' = [state EXCEPT ![s] = "active"]
  /\ IF state[s] = "primed" THEN Push(Main, "loaded", s, who[s], "spawning")
                           ELSE UNCHANGED stack
  /\ UNCHANGED <<who, bots, conns, allowed, histories>>

\* The rest of sv_cliententerworld goes by the state read before, whatever has been done to
\* the client meanwhile; there is no player for a slot that is free by now.
EnteredWorld(has_gentity) ==
  /\ InStage(Main, "spawning")
  /\ IF has_gentity /\ Visible(Top(Main).slot)
     THEN /\ SetTop(Main, [Top(Main) EXCEPT !.stage = "handlers"])
          /\ Tell(Top(Main).conn, "loaded")
     ELSE /\ Pop(Main)
          /\ UNCHANGED told
  /\ UNCHANGED <<engineVars, allowed, maps, erased, revived, hit>>

\* The client leaves, times out, or is dropped by the engine: sv_dropclient.
ClientLeaves(s) ==
  /\ EngineRuns
  /\ state[s] \in {"connected", "primed", "active"}
  /\ Push(Main, "drop", s, who[s], "set")
  /\ UNCHANGED <<engineVars, allowed, histories>>

FreeZombie(s) ==
  /\ EngineRuns
  /\ state[s] = "zombie"
  /\ state' = [state EXCEPT ![s] = "free"]
  /\ who' = [who EXCEPT ![s] = 0]
  /\ UNCHANGED <<bots, conns, allowed, stack, histories>>

-----------------------------------------------------------------------------
(***************************************************************************)
(* Plugin code: handlers, functions on threads of their own, and on the    *)
(* main thread whatever runs between two calls of the engine.              *)
(***************************************************************************)
RunsPlugins(t) == stack[t] # <<>> => Top(t).stage \in {"handlers", "spawning"}

\* kick: only an active client is dropped, as one looks before its handlers run.
Kick(t, s) ==
  /\ RunsPlugins(t)
  /\ HasRoom(t)
  /\ state[s] = "active"
  /\ Push(t, "drop", s, who[s], "set")
  /\ UNCHANGED <<engineVars, allowed, histories>>

\* change_map, which has the engine change the map at once, or the engine by itself.
\* External: what SV_SpawnServer does to the clients.
ChangeMap(t) ==
  LET reloading == {s \in Slots : state[s] \in {"connected", "primed", "active"}
                                   /\ who[s] \notin bots}
      staying == {who[s] : s \in reloading}
  IN /\ RunsPlugins(t)
     /\ \A c \in staying : maps[c] < MaxMaps[c]
     /\ state' = [s \in Slots |-> IF s \in reloading THEN "connected" ELSE state[s]]
     /\ maps' = [c \in Conns |-> IF c \in staying THEN maps[c] + 1 ELSE maps[c]]
     /\ UNCHANGED <<who, bots, conns, allowed, stack, told, erased, revived, hit>>

-----------------------------------------------------------------------------
(***************************************************************************)
(* The two dispatchers: set the bit, run the handlers, clear the bit.      *)
(***************************************************************************)
Load(t) ==
  /\ InStage(t, "set") \/ InStage(t, "clear")
  /\ SetTop(t, [Top(t) EXCEPT !.word = allowed,
                              !.stage = IF @ = "set" THEN "setting" ELSE "clearing"])
  /\ UNCHANGED <<engineVars, allowed, histories>>

\* What a store of the whole word does to bits that are not the caller's.  A bit that was
\* lost already when the word was loaded, and set again since, is lost once more.
Store(t, word) ==
  /\ allowed' = word
  /\ erased' = (erased \ word) \cup
       {s \in Slots \ word : \E u \in Threads :
          HandlersOf(u, s) /\ (u # t \/ s \notin Top(t).word \cup {Top(t).slot})}
  /\ revived' = (revived \cap word) \cup (word \ (allowed \cup {Top(t).slot}))

\* Mutant: the bit is set in one word of its own, not in the word that was loaded.
SetBitAlone(t) ==
  /\ InStage(t, "setting")
  /\ Store(t, {Top(t).slot})
  /\ SetTop(t, [Top(t) EXCEPT !.stage = "handlers", !.word = {}])
  /\ Tell(Top(t).conn, IF Top(t).call = "connect" THEN "connect" ELSE "disconnect")
  /\ UNCHANGED <<engineVars, maps, hit>>

\* Mutant: the bit that is set is numbered by the connection, not by the slot.
SetBitOfConnection(t) ==
  /\ InStage(t, "setting")
  /\ Store(t, Top(t).word \cup {Top(t).conn})
  /\ SetTop(t, [Top(t) EXCEPT !.stage = "handlers", !.word = {}])
  /\ Tell(Top(t).conn, IF Top(t).call = "connect" THEN "connect" ELSE "disconnect")
  /\ UNCHANGED <<engineVars, maps, hit>>

SetBit(t) ==
  /\ InStage(t, "setting")
  /\ Store(t, Top(t).word \cup {Top(t).slot})
  /\ SetTop(t, [Top(t) EXCEPT !.stage = "handlers", !.word = {}])
  /\ Tell(Top(t).conn, IF Top(t).call = "connect" THEN "connect" ELSE "disconnect")
  /\ UNCHANGED <<engineVars, maps, hit>>

\* Mutant: the answer is returned before the bit is cleared when the client is rejected.
HandlersReturnEarly(t, rejected) ==
  /\ InStage(t, "handlers")
  /\ IF Top(t).call = "loaded" THEN Pop(t)
     ELSE SetTop(t, [Top(t) EXCEPT !.stage = IF rejected THEN "engine" ELSE "clear",
                                   !.rejected = rejected])
  /\ UNCHANGED <<engineVars, allowed, histories>>

\* player_connect: FALSE or a string rejects the client.  The other events cannot be
\* stopped, so whatever they answer is dropped.
HandlersReturn(t, rejected) ==
  /\ InStage(t, "handlers")
  /\ IF Top(t).call = "loaded" THEN Pop(t)
     ELSE SetTop(t, [Top(t) EXCEPT !.stage = "clear",
                                   !.rejected = rejected /\ Top(t).call = "connect"])
  /\ UNCHANGED <<engineVars, allowed, histories>>

ClearBit(t) ==
  /\ InStage(t, "clearing")
  /\ Store(t, Top(t).word \ {Top(t).slot})
  /\ SetTop(t, [Top(t) EXCEPT !.stage = "engine", !.word = {}])
  /\ UNCHANGED <<engineVars, told, maps, hit>>

\* The engine may refuse a client that no plugin rejected.  Bots are let in anyway.
FinishConnect ==
  /\ InStage(Main, "engine") /\ Top(Main).call = "connect"
  /\ LET s == Top(Main).slot
         c == Top(Main).conn
     IN \/ UNCHANGED <<state, who>>
        \/ /\ Top(Main).rejected => c \in bots
           /\ state' = [state EXCEPT ![s] = "connected"]
           /\ who' = [who EXCEPT ![s] = c]
  /\ Pop(Main)
  /\ UNCHANGED <<bots, conns, allowed, histories>>

\* client.disconnect: whoever has the slot by then.  A zombie is not dropped twice.
FinishDrop(t) ==
  /\ InStage(t, "engine") /\ Top(t).call = "drop"
  /\ LET s == Top(t).slot
     IN \/ /\ state[s] \in {"free", "zombie"}
           /\ UNCHANGED <<state, who, hit>>
        \/ /\ state[s] \notin {"free", "zombie"}
           /\ state' = [state EXCEPT ![s] = IF who[s] \in bots THEN "free" ELSE "zombie"]
           /\ who' = [who EXCEPT ![s] = IF @ \in bots THEN 0 ELSE @]
           /\ hit' = hit \cup ({who[s]} \ {Top(t).conn})
  /\ Pop(t)
  /\ UNCHANGED <<bots, conns, allowed, told, maps, erased, revived>>

-----------------------------------------------------------------------------
Init ==
  /\ state = [s \in Slots |-> "free"]
  /\ who = [s \in Slots |-> 0]
  /\ bots = {}
  /\ allowed = {}
  /\ stack = [t \in Threads |-> <<>>]
  /\ conns = 0
  /\ told = [c \in Conns |-> <<>>]
  /\ maps = [c \in Conns |-> 0]
  /\ erased = {} /\ revived = {} /\ hit = {}

EngineStep(s) ==
  \/ \E bot \in BOOLEAN : ClientConnects(s, bot)
  \/ ClientGetsGamestate(s)
  \/ EnterWorld(s)
  \/ ClientLeaves(s)
  \/ FreeZombie(s)

CallStep(t) ==
  \/ Load(t) \/ SetBit(t) \/ ClearBit(t)
  \/ \E rejected \in BOOLEAN : HandlersReturn(t, rejected)
  \/ FinishDrop(t)

Next ==
  \/ \E s \in Slots : EngineStep(s)
  \/ \E t \in Threads, s \in Slots : Kick(t, s)
  \/ \E t \in Threads : ChangeMap(t) \/ CallStep(t)
  \/ FinishConnect
  \/ \E has_gentity \in BOOLEAN : EnteredWorld(has_gentity)

Spec == Init /\ [][Next]_vars

-----------------------------------------------------------------------------
(* The types of the variables. *)
TypeOK ==
  /\ state \in [Slots -> {"free", "connected", "primed", "active", "zombie"}]
  /\ who \in [Slots -> 0 .. MaxConns]
  /\ bots \subseteq Conns
  /\ allowed \subseteq Slots
  /\ stack \in [Threads -> Seq(Call)]
  /\ conns \in 0 .. MaxConns
  /\ told \in [Conns -> Seq({"connect", "loaded", "disconnect"})]
  /\ maps \in [Conns -> Nat]
  /\ erased \subseteq Slots /\ revived \subseteq Slots /\ hit \subseteq Conns

(* Handlers of player_connect and player_disconnect can ask for the client    *)
(* they are told about, though its slot may count as free, and also when a    *)
(* call made by one of them has cleared the bit that the outer call needs;    *)
(* unless a call inside or beside it has dropped the client for good, or      *)
(* another thread has cleared the bit, or made a word that lacks it stale.    *)
HandlersSeeTheClient ==
  \A t \in Threads : \A d \in DOMAIN stack[t] :
    LET f == stack[t][d]
    IN f.stage = "handlers" /\ f.call # "loaded" =>
         \/ Visible(f.slot)
         \/ f.slot \in erased
         \/ f.call = "drop" /\ who[f.slot] # f.conn

(* A bit is set only while a call for its client is under way, so that a slot *)
(* that stays free is not taken for a client; unless a thread has stored a    *)
(* word it loaded before the bit was cleared.                                 *)
BitsAreGivenBack ==
  \A s \in allowed :
    \/ s \in revived
    \/ \E t \in Threads : \E d \in DOMAIN stack[t] :
         /\ stack[t][d].slot = s /\ stack[t][d].call # "loaded"
         /\ stack[t][d].stage \in {"handlers", "clear", "clearing"}

Times(c, event) == Cardinality({k \in DOMAIN told[c] : told[c][k] = event})

(* While the main thread announces that a client goes, nobody else gets its   *)
(* slot, whatever the handlers do and other threads drop: the disconnect that *)
(* follows hits that client or nobody.  The disconnect of a kick on another   *)
(* thread can hit a newcomer, but only after the leaving of the client it was *)
(* meant for has been announced once more by somebody else, or that client    *)
(* was a newcomer hit like this itself.                                       *)
DropsWhomItAnnounced ==
  \A t \in Threads : \A d \in DOMAIN stack[t] :
    LET f == stack[t][d]
        own == IF f.stage \in {"set", "setting"} THEN 0 ELSE 1
    IN f.call = "drop" =>
         \/ who[f.slot] \in {f.conn, 0}
         \/ t # Main /\ (Times(f.conn, "disconnect") > own \/ f.conn \in hit)

(* player_loaded comes once for every time a client loads: at most once when  *)
(* it connects, and once more for every change of map it goes through.  That  *)
(* holds also when handlers kick it or change the map while it enters the     *)
(* world, though it is then announced as loaded though it is gone, or has to  *)
(* load first.  player_loaded never comes before player_connect.              *)
LoadedOncePerMap ==
  \A c \in Conns :
    /\ Times(c, "loaded") <= 1 + maps[c]
    /\ \A k \in DOMAIN told[c] :
         told[c][k] = "loaded" => \E j \in 1 .. k - 1 : told[c][j] = "connect"

=============================================================================

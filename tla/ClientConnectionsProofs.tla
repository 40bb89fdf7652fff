----------------------- MODULE ClientConnectionsProofs -----------------------
(***************************************************************************)
(* Theorems about client connections, for any threads, slots, number of    *)
(* connections and depth of nesting.                                       *)
(*                                                                         *)
(* Every action changes the stack of one thread: it pushes a call, turns   *)
(* its top from one stage to the next, or pops it (StackStepsHold).  What  *)
(* each theorem needs about calls that are under way is a predicate on the *)
(* frames of all stacks, kept by each of the three.                        *)
(***************************************************************************)
EXTENDS ClientConnections, FiniteSetTheorems, SequenceTheorems, TLAPS

(***************************************************************************)
(* The three ways the stack of a thread changes.                           *)
(***************************************************************************)
NewCall(call, s, c, stage) ==
  [call |-> call, slot |-> s, conn |-> c, stage |-> stage, word |-> {}, rejected |-> FALSE]

Stay(u, d) == d \in DOMAIN stack[u] /\ stack'[u][d] = stack[u][d]

Pushes(t, f) ==
  /\ stack' \in [Threads -> Seq(Call)]
  /\ Len(stack[t]) + 1 \in DOMAIN stack'[t] /\ stack'[t][Len(stack[t]) + 1] = f
  /\ \A u \in Threads : \A d \in DOMAIN stack'[u] :
       Stay(u, d) \/ (u = t /\ d = Len(stack[t]) + 1)
  /\ \A u \in Threads : \A d \in DOMAIN stack[u] : d \in DOMAIN stack'[u] /\ Stay(u, d)

Sets(t, f) ==
  /\ stack' \in [Threads -> Seq(Call)]
  /\ Len(stack[t]) \in DOMAIN stack[t] /\ stack'[t][Len(stack[t])] = f
  /\ \A u \in Threads : DOMAIN stack'[u] = DOMAIN stack[u]
  /\ \A u \in Threads : \A d \in DOMAIN stack[u] :
       Stay(u, d) \/ (u = t /\ d = Len(stack[t]))

\* The innermost call of a thread goes from one stage to another.
Turns(t, from, to) ==
  LET top == Len(stack[t])
  IN /\ stack' \in [Threads -> Seq(Call)]
     /\ top \in DOMAIN stack[t] /\ stack[t][top].stage = from /\ stack'[t][top].stage = to
     /\ \A u \in Threads : DOMAIN stack'[u] = DOMAIN stack[u]
     /\ \A u \in Threads : \A d \in DOMAIN stack[u] :
          /\ stack'[u][d].call = stack[u][d].call
          /\ stack'[u][d].slot = stack[u][d].slot
          /\ stack'[u][d].conn = stack[u][d].conn
          /\ stack'[u][d].stage = stack[u][d].stage \/ (u = t /\ d = top)

Pops(t) ==
  /\ stack' \in [Threads -> Seq(Call)]
  /\ Len(stack[t]) \in DOMAIN stack[t]
  /\ \A u \in Threads : \A d \in DOMAIN stack'[u] :
       Stay(u, d) /\ ~(u = t /\ d = Len(stack[t]))
  /\ \A u \in Threads : \A d \in DOMAIN stack[u] :
       d \in DOMAIN stack'[u] \/ (u = t /\ d = Len(stack[t]))

(* A call that begins lies on top of the ones before it. *)
LEMMA PushFrames ==
  ASSUME stack \in [Threads -> Seq(Call)], NEW t \in Threads, NEW call, NEW s, NEW c,
         NEW stage, NewCall(call, s, c, stage) \in Call, Push(t, call, s, c, stage)
  PROVE  Pushes(t, NewCall(call, s, c, stage))
  <1> DEFINE f == NewCall(call, s, c, stage)
  <1>1. stack' = [stack EXCEPT ![t] = Append(@, f)]
    BY DEF Push, NewCall
  <1> HIDE DEF f
  <1>2. stack[t] \in Seq(Call) /\ f \in Call
    BY DEF f
  <1>3. stack'[t] = Append(stack[t], f) /\ Append(stack[t], f) \in Seq(Call)
    BY <1>1, <1>2
  <1>4. stack' \in [Threads -> Seq(Call)] /\ \A u \in Threads \ {t} : stack'[u] = stack[u]
    BY <1>1, <1>3
  <1>5. Len(stack'[t]) = Len(stack[t]) + 1 /\ Len(stack[t]) \in Nat /\ stack'[t][Len(stack[t]) + 1] = f
        /\ \A d \in 1 .. Len(stack[t]) : stack'[t][d] = stack[t][d]
    BY <1>2, <1>3
  <1>6. \A u \in Threads : DOMAIN stack'[u] = 1 .. Len(stack'[u]) /\ DOMAIN stack[u] = 1 .. Len(stack[u])
    BY <1>4
  <1>7. Pushes(t, f)
    <2>1. DOMAIN stack[t] = 1 .. Len(stack[t]) /\ DOMAIN stack'[t] = 1 .. Len(stack[t]) + 1
      BY <1>5, <1>6
    <2>2. Len(stack[t]) + 1 \in DOMAIN stack'[t] /\ stack'[t][Len(stack[t]) + 1] = f
      BY <1>5, <2>1
    <2>3. \A d \in DOMAIN stack'[t] : Stay(t, d) \/ d = Len(stack[t]) + 1
      BY <1>5, <2>1 DEF Stay
    <2>4. \A d \in DOMAIN stack[t] : d \in DOMAIN stack'[t] /\ Stay(t, d)
      BY <1>5, <2>1 DEF Stay
    <2>5. \A u \in Threads \ {t} : DOMAIN stack'[u] = DOMAIN stack[u]
                                 /\ \A d \in DOMAIN stack[u] : Stay(u, d)
      BY <1>4 DEF Stay
    <2>6. QED
      BY <1>4, <2>2, <2>3, <2>4, <2>5 DEF Pushes
  <1>8. QED
    BY <1>7 DEF f

(* A call that goes on changes only the top of its stack. *)
LEMMA SetTopFrames ==
  ASSUME stack \in [Threads -> Seq(Call)], NEW t \in Threads, stack[t] # <<>>,
         NEW f \in Call, SetTop(t, f)
  PROVE  Sets(t, f)
  <1>1. stack[t] \in Seq(Call) /\ Len(stack[t]) \in 1 .. Len(stack[t])
    BY EmptySeq
  <1>2. stack'[t] = [stack[t] EXCEPT ![Len(stack[t])] = f]
    BY DEF SetTop
  <1>3. stack'[t] \in Seq(Call) /\ Len(stack'[t]) = Len(stack[t])
        /\ \A d \in 1 .. Len(stack[t]) : stack'[t][d] = IF d = Len(stack[t]) THEN f ELSE stack[t][d]
    BY <1>1, <1>2
  <1>4. stack' \in [Threads -> Seq(Call)] /\ \A u \in Threads \ {t} : stack'[u] = stack[u]
    BY <1>3 DEF SetTop
  <1>5. \A u \in Threads : DOMAIN stack'[u] = 1 .. Len(stack'[u]) /\ DOMAIN stack[u] = 1 .. Len(stack[u])
    BY <1>4
  <1>6. QED
    BY <1>1, <1>3, <1>4, <1>5 DEF Sets, Stay

(* What is left of a sequence when its last element goes. *)
LEMMA ButLast ==
  ASSUME NEW S, NEW s \in Seq(S), Len(s) \in 1 .. Len(s)
  PROVE  /\ SubSeq(s, 1, Len(s) - 1) \in Seq(S)
         /\ Len(SubSeq(s, 1, Len(s) - 1)) = Len(s) - 1
         /\ \A d \in 1 .. Len(s) - 1 : SubSeq(s, 1, Len(s) - 1)[d] = s[d]
  <1> DEFINE n == Len(s) - 1
  <1>1. n \in Nat /\ Len(s) \in Nat
    OBVIOUS
  <1>2. \A i \in 1 .. n : s[i] \in S
    BY <1>1
  <1> HIDE DEF n
  <1>3. /\ SubSeq(s, 1, n) \in Seq(S)
        /\ Len(SubSeq(s, 1, n)) = IF 1 <= n THEN n - 1 + 1 ELSE 0
        /\ \A i \in 1 .. n - 1 + 1 : SubSeq(s, 1, n)[i] = s[1 + i - 1]
    BY <1>1, <1>2, SubSeqProperties
  <1>4. \A i \in 1 .. n : 1 + i - 1 = i
    BY <1>1
  <1>5. n - 1 + 1 = n
    BY <1>1
  <1>6. Len(SubSeq(s, 1, n)) = n
    BY <1>1, <1>3
  <1>7. QED
    BY <1>3, <1>4, <1>5, <1>6 DEF n

(* A call that returns leaves the ones below it as they were. *)
LEMMA PopFrames ==
  ASSUME stack \in [Threads -> Seq(Call)], NEW t \in Threads, stack[t] # <<>>, Pop(t)
  PROVE  Pops(t)
  <1>1. stack[t] \in Seq(Call) /\ Len(stack[t]) \in 1 .. Len(stack[t])
    BY EmptySeq
  <1>2. stack'[t] = SubSeq(stack[t], 1, Len(stack[t]) - 1)
    BY DEF Pop
  <1>3. SubSeq(stack[t], 1, Len(stack[t]) - 1) \in Seq(Call)
        /\ Len(SubSeq(stack[t], 1, Len(stack[t]) - 1)) = Len(stack[t]) - 1
        /\ \A d \in 1 .. Len(stack[t]) - 1 : SubSeq(stack[t], 1, Len(stack[t]) - 1)[d] = stack[t][d]
    BY <1>1, ButLast
  <1>4. stack'[t] \in Seq(Call) /\ Len(stack'[t]) = Len(stack[t]) - 1
        /\ \A d \in 1 .. Len(stack[t]) - 1 : stack'[t][d] = stack[t][d]
    BY <1>2, <1>3
  <1>5. stack' \in [Threads -> Seq(Call)] /\ \A u \in Threads \ {t} : stack'[u] = stack[u]
    BY <1>4 DEF Pop
  <1>6. \A u \in Threads : DOMAIN stack'[u] = 1 .. Len(stack'[u]) /\ DOMAIN stack[u] = 1 .. Len(stack[u])
    BY <1>5
  <1>7. DOMAIN stack[t] = 1 .. Len(stack[t]) /\ DOMAIN stack'[t] = 1 .. Len(stack[t]) - 1
    BY <1>1, <1>4, <1>6
  <1>8. Len(stack[t]) \in DOMAIN stack[t]
    BY <1>1, <1>7
  <1>9. \A d \in DOMAIN stack'[t] : Stay(t, d) /\ d # Len(stack[t])
    <2>1. \A d \in 1 .. Len(stack[t]) - 1 : d \in 1 .. Len(stack[t]) /\ d # Len(stack[t])
      BY <1>1
    <2>2. QED
      BY <1>4, <1>7, <2>1 DEF Stay
  <1>10. \A d \in DOMAIN stack[t] : d \in DOMAIN stack'[t] \/ d = Len(stack[t])
    BY <1>1, <1>7
  <1>11. \A u \in Threads \ {t} : DOMAIN stack'[u] = DOMAIN stack[u]
                                 /\ \A d \in DOMAIN stack[u] : Stay(u, d)
    BY <1>5 DEF Stay
  <1>12. QED
    BY <1>5, <1>8, <1>9, <1>10, <1>11 DEF Pops

(***************************************************************************)
(* The invariant.                                                          *)
(***************************************************************************)
\* A slot belongs to a connection exactly while it is not free.
Occupied == \A s \in Slots : who[s] = 0 <=> state[s] = "free"

\* What each action does to the stack.
StackSteps ==
  /\ \A s \in Slots, bot \in BOOLEAN : ClientConnects(s, bot) =>
       Pushes(Main, NewCall("connect", s, conns + 1, "set"))
  /\ \A s \in Slots : EnterWorld(s) =>
       \/ state[s] = "primed" /\ Pushes(Main, NewCall("loaded", s, who[s], "spawning"))
       \/ state[s] # "primed" /\ stack' = stack
  /\ \A g \in BOOLEAN : EnteredWorld(g) => Turns(Main, "spawning", "handlers") \/ Pops(Main)
  /\ \A s \in Slots : ClientLeaves(s) => Pushes(Main, NewCall("drop", s, who[s], "set"))
  /\ \A t \in Threads, s \in Slots : Kick(t, s) => Pushes(t, NewCall("drop", s, who[s], "set"))
  /\ \A t \in Threads : Load(t) => Turns(t, "set", "setting") \/ Turns(t, "clear", "clearing")
  /\ \A t \in Threads : SetBit(t) => Turns(t, "setting", "handlers")
  /\ \A t \in Threads, r \in BOOLEAN : HandlersReturn(t, r) =>
       \/ Top(t).call = "loaded" /\ Pops(t)
       \/ Top(t).call # "loaded" /\ Turns(t, "handlers", "clear")
  /\ \A t \in Threads : ClearBit(t) => Turns(t, "clearing", "engine")
  /\ FinishConnect => Pops(Main)
  /\ \A t \in Threads : FinishDrop(t) => Pops(t)

(* The top of a stack that is not empty is one of its calls. *)
LEMMA TopFrame ==
  ASSUME stack \in [Threads -> Seq(Call)], NEW t \in Threads, stack[t] # <<>>
  PROVE  Len(stack[t]) \in DOMAIN stack[t] /\ Top(t) \in Call
  <1>1. stack[t] \in Seq(Call) /\ Len(stack[t]) \in 1 .. Len(stack[t])
    BY EmptySeq
  <1>2. QED
    BY <1>1 DEF Top

(* What lies on a stack is a call for a slot and a connection.                *)
LEMMA FramesAreCalls ==
  ASSUME TypeOK, NEW t \in Threads, NEW d \in DOMAIN stack[t]
  PROVE  /\ stack[t][d] \in Call /\ stack[t][d].slot \in Slots /\ stack[t][d].conn \in Conns
         /\ stack[t][d].stage \in Stages
  <1>1. stack[t][d] \in Call
    BY DEF TypeOK
  <1>2. QED
    BY <1>1 DEF Call

(* Every action changes the stack of one thread, in one of the three ways.    *)
LEMMA StackStepsHold ==
  ASSUME TypeOK, Occupied
  PROVE  StackSteps
  <1> USE ConnectionsAssumption
  <1>1. stack \in [Threads -> Seq(Call)]
    BY DEF TypeOK
  <1>2. ASSUME NEW s \in Slots, state[s] # "free" PROVE who[s] \in Conns
    BY <1>2 DEF TypeOK, Occupied, Conns
  <1>3. ASSUME NEW call \in {"connect", "drop", "loaded"}, NEW s \in Slots, NEW c \in Conns,
               NEW stage \in Stages
        PROVE  NewCall(call, s, c, stage) \in Call
    BY DEF NewCall, Call
  <1>4. ASSUME NEW s \in Slots, NEW bot \in BOOLEAN, ClientConnects(s, bot)
        PROVE  Pushes(Main, NewCall("connect", s, conns + 1, "set"))
    <2>1. conns + 1 \in Conns /\ conns' = conns + 1
      BY <1>4 DEF ClientConnects, TypeOK, Conns
    <2>2. Push(Main, "connect", s, conns + 1, "set")
      BY <1>4, <2>1 DEF ClientConnects
    <2>3. NewCall("connect", s, conns + 1, "set") \in Call
      BY <1>3, <2>1 DEF Stages
    <2>4. QED
      BY <1>1, <2>2, <2>3, PushFrames
  <1>5. ASSUME NEW s \in Slots, EnterWorld(s)
        PROVE  \/ state[s] = "primed" /\ Pushes(Main, NewCall("loaded", s, who[s], "spawning"))
               \/ state[s] # "primed" /\ stack' = stack
    <2>1. CASE state[s] = "primed"
      <3>1. Push(Main, "loaded", s, who[s], "spawning")
        BY <1>5, <2>1 DEF EnterWorld
      <3>2. NewCall("loaded", s, who[s], "spawning") \in Call
        BY <1>2, <1>3, <2>1 DEF Stages
      <3>3. QED
        BY <1>1, <2>1, <3>1, <3>2, PushFrames
    <2>2. CASE state[s] # "primed"
      BY <1>5, <2>2 DEF EnterWorld
    <2>3. QED
      BY <2>1, <2>2
  <1>6. ASSUME NEW t \in Threads, NEW s \in Slots, state[s] # "free",
               Push(t, "drop", s, who[s], "set")
        PROVE  Pushes(t, NewCall("drop", s, who[s], "set"))
    <2>1. NewCall("drop", s, who[s], "set") \in Call
      BY <1>2, <1>3, <1>6 DEF Stages
    <2>2. QED
      BY <1>1, <1>6, <2>1, PushFrames
  <1>7. ASSUME NEW s \in Slots, ClientLeaves(s)
        PROVE  Pushes(Main, NewCall("drop", s, who[s], "set"))
    BY <1>6, <1>7 DEF ClientLeaves
  <1>8. ASSUME NEW t \in Threads, NEW s \in Slots, Kick(t, s)
        PROVE  Pushes(t, NewCall("drop", s, who[s], "set"))
    BY <1>6, <1>8 DEF Kick
  <1>9. ASSUME NEW t \in Threads, stack[t] # <<>>, NEW f \in Call, SetTop(t, f),
               f.call = Top(t).call, f.slot = Top(t).slot, f.conn = Top(t).conn
        PROVE  Turns(t, Top(t).stage, f.stage)
    <2>1. Sets(t, f)
      BY <1>1, <1>9, SetTopFrames
    <2>2. QED
      BY <1>9, <2>1 DEF Sets, Turns, Stay, Top
  <1>10. ASSUME NEW t \in Threads, Load(t)
         PROVE  Turns(t, "set", "setting") \/ Turns(t, "clear", "clearing")
    <2> DEFINE f == [Top(t) EXCEPT !.word = allowed,
                                   !.stage = IF @ = "set" THEN "setting" ELSE "clearing"]
    <2>1. stack[t] # <<>> /\ Top(t).stage \in {"set", "clear"} /\ SetTop(t, f)
      BY <1>10 DEF Load, InStage
    <2>2. Top(t) \in Call /\ allowed \subseteq Slots
      BY <1>1, <2>1, TopFrame DEF TypeOK
    <2>3. f \in Call /\ f.stage = (IF Top(t).stage = "set" THEN "setting" ELSE "clearing")
          /\ f.call = Top(t).call /\ f.slot = Top(t).slot /\ f.conn = Top(t).conn
      BY <2>2 DEF Call, Stages
    <2> HIDE DEF f
    <2>4. Turns(t, Top(t).stage, f.stage)
      BY <1>9, <2>1, <2>3
    <2>5. QED
      BY <2>1, <2>3, <2>4
  <1>11. ASSUME NEW t \in Threads, NEW stage \in Stages, stack[t] # <<>>,
                SetTop(t, [Top(t) EXCEPT !.stage = stage, !.word = {}])
         PROVE  Turns(t, Top(t).stage, stage)
    <2> DEFINE f == [Top(t) EXCEPT !.stage = stage, !.word = {}]
    <2>1. f \in Call /\ f.stage = stage
          /\ f.call = Top(t).call /\ f.slot = Top(t).slot /\ f.conn = Top(t).conn
      BY <1>1, <1>11, TopFrame DEF Call
    <2>2. SetTop(t, f)
      BY <1>11
    <2> HIDE DEF f
    <2>3. QED
      BY <1>9, <1>11, <2>1, <2>2
  <1>12. ASSUME NEW t \in Threads, SetBit(t) PROVE Turns(t, "setting", "handlers")
    BY <1>11, <1>12 DEF SetBit, InStage, Stages
  <1>13. ASSUME NEW t \in Threads, ClearBit(t) PROVE Turns(t, "clearing", "engine")
    BY <1>11, <1>13 DEF ClearBit, InStage, Stages
  <1>14. ASSUME NEW t \in Threads, NEW r \in BOOLEAN, HandlersReturn(t, r)
         PROVE  \/ Top(t).call = "loaded" /\ Pops(t)
                \/ Top(t).call # "loaded" /\ Turns(t, "handlers", "clear")
    <2>1. stack[t] # <<>> /\ Top(t).stage = "handlers"
      BY <1>14 DEF HandlersReturn, InStage
    <2>2. CASE Top(t).call = "loaded"
      BY <1>1, <1>14, <2>1, <2>2, PopFrames DEF HandlersReturn
    <2>3. CASE Top(t).call # "loaded"
      <3> DEFINE f == [Top(t) EXCEPT !.stage = "clear",
                                     !.rejected = r /\ Top(t).call = "connect"]
      <3>1. f \in Call /\ f.stage = "clear"
            /\ f.call = Top(t).call /\ f.slot = Top(t).slot /\ f.conn = Top(t).conn
        BY <1>1, <2>1, TopFrame DEF Call, Stages
      <3>2. SetTop(t, f)
        BY <1>14, <2>3 DEF HandlersReturn
      <3> HIDE DEF f
      <3>3. Turns(t, Top(t).stage, f.stage)
        BY <1>9, <2>1, <3>1, <3>2
      <3>4. QED
        BY <2>1, <2>3, <3>1, <3>3
    <2>4. QED
      BY <2>2, <2>3
  <1>15. ASSUME FinishConnect PROVE Pops(Main)
    BY <1>1, <1>15, PopFrames DEF FinishConnect, InStage
  <1>16. ASSUME NEW t \in Threads, FinishDrop(t) PROVE Pops(t)
    BY <1>1, <1>16, PopFrames DEF FinishDrop, InStage
  <1>17. ASSUME NEW g \in BOOLEAN, EnteredWorld(g)
         PROVE  Turns(Main, "spawning", "handlers") \/ Pops(Main)
    <2> DEFINE f == [Top(Main) EXCEPT !.stage = "handlers"]
    <2>1. stack[Main] # <<>> /\ Top(Main).stage = "spawning"
      BY <1>17 DEF EnteredWorld, InStage
    <2>2. f \in Call /\ f.stage = "handlers"
          /\ f.call = Top(Main).call /\ f.slot = Top(Main).slot /\ f.conn = Top(Main).conn
      BY <1>1, <2>1, TopFrame DEF Call, Stages
    <2>3. SetTop(Main, f) \/ Pop(Main)
      BY <1>17 DEF EnteredWorld
    <2> HIDE DEF f
    <2>4. SetTop(Main, f) => Turns(Main, Top(Main).stage, f.stage)
      BY <1>9, <2>1, <2>2
    <2>5. Pop(Main) => Pops(Main)
      BY <1>1, <2>1, PopFrames
    <2>6. QED
      BY <2>1, <2>2, <2>3, <2>4, <2>5
  <1>18. QED
    BY <1>4, <1>5, <1>7, <1>8, <1>10, <1>12, <1>13, <1>14, <1>15, <1>16, <1>17 DEF StackSteps

(* Types, and which slots are free, are kept by every step. *)
LEMMA TypeStep ==
  ASSUME TypeOK, Occupied, [Next]_vars
  PROVE  TypeOK' /\ Occupied'
  <1> USE ConnectionsAssumption
  <1> DEFINE Rest == /\ state' \in [Slots -> {"free", "connected", "primed", "active", "zombie"}]
                     /\ who' \in [Slots -> 0 .. MaxConns]
                     /\ bots' \subseteq Conns
                     /\ allowed' \subseteq Slots
                     /\ conns' \in 0 .. MaxConns
                     /\ told' \in [Conns -> Seq({"connect", "loaded", "disconnect"})]
                     /\ maps' \in [Conns -> Nat]
                     /\ erased' \subseteq Slots /\ revived' \subseteq Slots /\ hit' \subseteq Conns
                     /\ Occupied'
             Stacks == stack' \in [Threads -> Seq(Call)]
  <1>1. StackSteps
    BY StackStepsHold
  <1>2. ASSUME NEW t \in Threads, stack[t] # <<>>
        PROVE  Top(t) \in Call /\ Top(t).slot \in Slots /\ Top(t).conn \in Conns
               /\ Top(t).word \subseteq Slots
    BY <1>2, TopFrame DEF TypeOK, Call
  <1>3. ASSUME NEW c \in Conns, NEW e \in {"connect", "loaded", "disconnect"}, Tell(c, e)
        PROVE  told' \in [Conns -> Seq({"connect", "loaded", "disconnect"})]
    BY <1>3 DEF Tell, TypeOK
  <1>4. ASSUME NEW t \in Threads, NEW word \in SUBSET Slots, Store(t, word)
        PROVE  allowed' \subseteq Slots /\ erased' \subseteq Slots /\ revived' \subseteq Slots
    BY <1>4 DEF Store, TypeOK
  <1>5. ASSUME NEW s \in Slots, state[s] # "free" PROVE who[s] \in Conns
    BY <1>5 DEF TypeOK, Occupied, Conns
  <1>6. ASSUME NEW s \in Slots, NEW bot \in BOOLEAN, ClientConnects(s, bot) PROVE Rest /\ Stacks
    <2>1. conns' \in Conns
      BY <1>6 DEF ClientConnects, TypeOK, Conns
    <2>2. Stacks
      BY <1>1, <1>6 DEF StackSteps, Pushes
    <2>3. QED
      BY <1>6, <2>1, <2>2 DEF ClientConnects, TypeOK, Occupied, Conns, histories
  <1>7. ASSUME NEW s \in Slots, ClientGetsGamestate(s) PROVE Rest /\ Stacks
    BY <1>7 DEF ClientGetsGamestate, TypeOK, Occupied, histories
  <1>8. ASSUME NEW s \in Slots, EnterWorld(s) PROVE Rest /\ Stacks
    <2>1. Stacks
      BY <1>1, <1>8 DEF StackSteps, Pushes, TypeOK
    <2>2. QED
      BY <1>8, <2>1 DEF EnterWorld, TypeOK, Occupied, histories
  <1>9. ASSUME NEW s \in Slots, ClientLeaves(s) PROVE Rest /\ Stacks
    <2>1. Stacks
      BY <1>1, <1>9 DEF StackSteps, Pushes
    <2>2. QED
      BY <1>9, <2>1 DEF ClientLeaves, TypeOK, Occupied, histories, engineVars
  <1>10. ASSUME NEW s \in Slots, FreeZombie(s) PROVE Rest /\ Stacks
    BY <1>10 DEF FreeZombie, TypeOK, Occupied, histories
  <1>11. ASSUME NEW t \in Threads, NEW s \in Slots, Kick(t, s) PROVE Rest /\ Stacks
    <2>1. Stacks
      BY <1>1, <1>11 DEF StackSteps, Pushes
    <2>2. QED
      BY <1>11, <2>1 DEF Kick, TypeOK, Occupied, histories, engineVars
  <1>12. ASSUME NEW t \in Threads, Load(t) PROVE Rest /\ Stacks
    <2>1. Stacks
      BY <1>1, <1>12 DEF StackSteps, Turns
    <2>2. QED
      BY <1>12, <2>1 DEF Load, TypeOK, Occupied, histories, engineVars
  <1>13. ASSUME NEW t \in Threads, SetBit(t) PROVE Rest /\ Stacks
    <2>1. Stacks
      BY <1>1, <1>13 DEF StackSteps, Turns
    <2>2. stack[t] # <<>>
      BY <1>13 DEF SetBit, InStage
    <2>3. told' \in [Conns -> Seq({"connect", "loaded", "disconnect"})]
      BY <1>2, <1>3, <1>13, <2>2 DEF SetBit
    <2>4. allowed' \subseteq Slots /\ erased' \subseteq Slots /\ revived' \subseteq Slots
      BY <1>2, <1>4, <1>13, <2>2 DEF SetBit
    <2>5. QED
      BY <1>13, <2>1, <2>3, <2>4 DEF SetBit, TypeOK, Occupied, engineVars
  <1>14. ASSUME NEW t \in Threads, NEW r \in BOOLEAN, HandlersReturn(t, r) PROVE Rest /\ Stacks
    <2>1. Stacks
      BY <1>1, <1>14 DEF StackSteps, Turns, Pops
    <2>2. QED
      BY <1>14, <2>1 DEF HandlersReturn, TypeOK, Occupied, histories, engineVars
  <1>15. ASSUME NEW t \in Threads, ClearBit(t) PROVE Rest /\ Stacks
    <2>1. Stacks
      BY <1>1, <1>15 DEF StackSteps, Turns
    <2>2. stack[t] # <<>>
      BY <1>15 DEF ClearBit, InStage
    <2>3. allowed' \subseteq Slots /\ erased' \subseteq Slots /\ revived' \subseteq Slots
      BY <1>2, <1>4, <1>15, <2>2 DEF ClearBit
    <2>4. QED
      BY <1>15, <2>1, <2>3 DEF ClearBit, TypeOK, Occupied, engineVars
  <1>16. ASSUME FinishConnect PROVE Rest /\ Stacks
    <2>1. Stacks
      BY <1>1, <1>16 DEF StackSteps, Pops
    <2>2. Top(Main).slot \in Slots /\ Top(Main).conn \in Conns
      BY <1>2, <1>16 DEF FinishConnect, InStage
    <2>3. state' \in [Slots -> {"free", "connected", "primed", "active", "zombie"}]
          /\ who' \in [Slots -> 0 .. MaxConns] /\ Occupied'
      <3>1. CASE UNCHANGED <<state, who>>
        BY <3>1 DEF TypeOK, Occupied
      <3>2. CASE /\ state' = [state EXCEPT ![Top(Main).slot] = "connected"]
                 /\ who' = [who EXCEPT ![Top(Main).slot] = Top(Main).conn]
        BY <2>2, <3>2 DEF TypeOK, Occupied, Conns
      <3>3. QED
        BY <1>16, <3>1, <3>2 DEF FinishConnect
    <2>4. QED
      BY <1>16, <2>1, <2>3 DEF FinishConnect, TypeOK, histories
  <1>17. ASSUME NEW t \in Threads, FinishDrop(t) PROVE Rest /\ Stacks
    <2>1. Stacks
      BY <1>1, <1>17 DEF StackSteps, Pops
    <2>2. Top(t).slot \in Slots
      BY <1>2, <1>17 DEF FinishDrop, InStage
    <2>3. state' \in [Slots -> {"free", "connected", "primed", "active", "zombie"}]
          /\ who' \in [Slots -> 0 .. MaxConns] /\ Occupied'
      <3>1. CASE UNCHANGED <<state, who>>
        BY <3>1 DEF TypeOK, Occupied
      <3>2. CASE \E s \in Slots :
                   /\ state[s] # "free"
                   /\ state' = [state EXCEPT ![s] = IF who[s] \in bots THEN "free" ELSE "zombie"]
                   /\ who' = [who EXCEPT ![s] = IF @ \in bots THEN 0 ELSE @]
        <4>1. PICK s \in Slots :
                   /\ state[s] # "free"
                   /\ state' = [state EXCEPT ![s] = IF who[s] \in bots THEN "free" ELSE "zombie"]
                   /\ who' = [who EXCEPT ![s] = IF @ \in bots THEN 0 ELSE @]
          BY <3>2
        <4>2. CASE who[s] \in bots
          BY <4>1, <4>2 DEF TypeOK, Occupied
        <4>3. CASE who[s] \notin bots
          BY <4>1, <4>3 DEF TypeOK, Occupied
        <4>4. QED
          BY <4>2, <4>3
      <3>3. QED
        BY <1>17, <2>2, <3>1, <3>2 DEF FinishDrop
    <2>4. hit' \subseteq Conns
      <3>1. state[Top(t).slot] # "free" => who[Top(t).slot] \in Conns
        BY <1>5, <2>2
      <3>2. hit \subseteq Conns
        BY DEF TypeOK
      <3>3. QED
        BY <1>17, <3>1, <3>2 DEF FinishDrop
    <2>5. QED
      BY <1>17, <2>1, <2>3, <2>4 DEF FinishDrop, TypeOK
  <1>18. CASE UNCHANGED vars
    BY <1>18 DEF vars, engineVars, histories, TypeOK, Occupied
  <1>19. ASSUME NEW g \in BOOLEAN, EnteredWorld(g) PROVE Rest /\ Stacks
    <2>1. Stacks
      BY <1>1, <1>19 DEF StackSteps, Turns, Pops
    <2>2. Top(Main).conn \in Conns
      BY <1>2, <1>19 DEF EnteredWorld, InStage
    <2>3. told' \in [Conns -> Seq({"connect", "loaded", "disconnect"})]
      BY <1>3, <1>19, <2>2 DEF EnteredWorld, TypeOK
    <2>4. QED
      BY <1>19, <2>1, <2>3 DEF EnteredWorld, TypeOK, Occupied, engineVars
  <1>20. ASSUME NEW t \in Threads, ChangeMap(t) PROVE Rest /\ Stacks
    <2> DEFINE reloading == {s \in Slots : state[s] \in {"connected", "primed", "active"}
                                             /\ who[s] \notin bots}
               staying == {who[s] : s \in reloading}
    <2>1. /\ \A c \in staying : maps[c] < MaxMaps[c]
          /\ state' = [s \in Slots |-> IF s \in reloading THEN "connected" ELSE state[s]]
          /\ maps' = [c \in Conns |-> IF c \in staying THEN maps[c] + 1 ELSE maps[c]]
          /\ UNCHANGED <<who, bots, conns, allowed, stack, told, erased, revived, hit>>
      BY <1>20 DEF ChangeMap
    <2>2. \A s \in reloading : state[s] # "free"
      OBVIOUS
    <2> HIDE DEF reloading, staying
    <2>3. maps' \in [Conns -> Nat]
      BY <2>1 DEF TypeOK
    <2>4. state' \in [Slots -> {"free", "connected", "primed", "active", "zombie"}]
      BY <2>1 DEF TypeOK
    <2>5. Occupied'
      BY <2>1, <2>2 DEF Occupied
    <2>6. QED
      BY <2>1, <2>3, <2>4, <2>5 DEF TypeOK
  <1>21. Rest /\ Stacks
    BY <1>6, <1>7, <1>8, <1>9, <1>10, <1>11, <1>12, <1>13, <1>14, <1>15, <1>16, <1>17, <1>18,
       <1>19, <1>20
    DEF Next, EngineStep, CallStep, TypeOK, vars, engineVars, histories
  <1>22. QED
    BY <1>21 DEF TypeOK

(* In the beginning all slots are free.                                       *)
LEMMA TypeInit == Init => TypeOK /\ Occupied
  BY ConnectionsAssumption DEF Init, TypeOK, Occupied, Conns

(* The types of the variables, for any number of slots, threads and           *)
(* connections: in particular, every call is about a connection that was made.*)
THEOREM TypeCorrect == Spec => []TypeOK
  <1>1. TypeOK /\ Occupied /\ [Next]_vars => TypeOK' /\ Occupied'
    BY TypeStep
  <1>2. QED
    BY <1>1, TypeInit, PTL DEF Spec

(***************************************************************************)
(* The bits of ALLOW_FREE_CLIENT.                                          *)
(***************************************************************************)
\* player_loaded has neither a bit to set nor something for the engine to do afterwards; it
\* is what the engine lets a client into the world for, with nothing else under way.
LoadedHasNoBit ==
  \A t \in Threads : \A d \in DOMAIN stack[t] :
    /\ stack[t][d].call = "loaded" => stack[t][d].stage \in {"handlers", "spawning"}
    /\ stack[t][d].stage = "spawning" => stack[t][d].call = "loaded" /\ t = Main /\ d = 1

Holds(f, s) ==
  f.slot = s /\ f.call # "loaded" /\ f.stage \in {"handlers", "clear", "clearing"}

Held(s) == \E t \in Threads : \E d \in DOMAIN stack[t] : Holds(stack[t][d], s)

(* Only calls for player_loaded are without a bit, from their beginning.      *)
LEMMA LoadedStep ==
  ASSUME TypeOK, Occupied, LoadedHasNoBit, [Next]_vars
  PROVE  LoadedHasNoBit'
  <1>1. StackSteps
    BY StackStepsHold
  <1>2. ASSUME NEW t \in Threads, NEW f, Pushes(t, f),
               f.call = "loaded" => f.stage = "spawning" /\ t = Main /\ stack[t] = <<>>,
               f.stage = "spawning" => f.call = "loaded"
        PROVE  LoadedHasNoBit'
    <2>1. stack[t] = <<>> => Len(stack[t]) + 1 = 1
      OBVIOUS
    <2>2. QED
      BY <1>2, <2>1 DEF Pushes, Stay, LoadedHasNoBit
  <1>3. ASSUME NEW t \in Threads, NEW from, NEW to, Turns(t, from, to),
               from # "handlers", to # "spawning", from = "spawning" => to = "handlers"
        PROVE  LoadedHasNoBit'
    BY <1>3 DEF Turns, LoadedHasNoBit
  <1>4. ASSUME NEW t \in Threads, Pops(t) PROVE LoadedHasNoBit'
    BY <1>4 DEF Pops, Stay, LoadedHasNoBit
  <1>5. ASSUME stack' = stack PROVE LoadedHasNoBit'
    BY <1>5 DEF LoadedHasNoBit
  <1>7. ASSUME NEW t \in Threads, Load(t) \/ SetBit(t) \/ ClearBit(t) PROVE LoadedHasNoBit'
    BY <1>1, <1>3, <1>7 DEF StackSteps
  <1>8. ASSUME NEW t \in Threads, NEW r \in BOOLEAN, HandlersReturn(t, r) PROVE LoadedHasNoBit'
    <2>1. CASE Pops(t)
      BY <1>4, <2>1
    <2>2. CASE Top(t).call # "loaded" /\ Turns(t, "handlers", "clear")
      BY <2>2 DEF Turns, LoadedHasNoBit, Top
    <2>3. QED
      BY <1>1, <1>8, <2>1, <2>2 DEF StackSteps
  <1>9. ASSUME NEW s \in Slots, EngineStep(s) PROVE LoadedHasNoBit'
    <2>1. ASSUME EnterWorld(s) PROVE LoadedHasNoBit'
      <3>1. stack[Main] = <<>>
        BY <2>1 DEF EnterWorld, EngineRuns
      <3>2. QED
        BY <1>1, <1>2, <1>5, <2>1, <3>1, ConnectionsAssumption DEF StackSteps, NewCall
    <2>2. ASSUME NEW bot \in BOOLEAN, ClientConnects(s, bot) PROVE LoadedHasNoBit'
      BY <1>1, <1>2, <2>2, ConnectionsAssumption DEF StackSteps, NewCall
    <2>3. ASSUME ClientLeaves(s) PROVE LoadedHasNoBit'
      BY <1>1, <1>2, <2>3, ConnectionsAssumption DEF StackSteps, NewCall
    <2>4. ASSUME ClientGetsGamestate(s) \/ FreeZombie(s) PROVE LoadedHasNoBit'
      BY <1>5, <2>4 DEF ClientGetsGamestate, FreeZombie
    <2>5. QED
      BY <1>9, <2>1, <2>2, <2>3, <2>4 DEF EngineStep
  <1>10. ASSUME NEW t \in Threads, NEW s \in Slots, Kick(t, s) PROVE LoadedHasNoBit'
    BY <1>1, <1>2, <1>10 DEF StackSteps, NewCall
  <1>11. ASSUME FinishConnect PROVE LoadedHasNoBit'
    BY <1>1, <1>4, <1>11, ConnectionsAssumption DEF StackSteps
  <1>12. ASSUME NEW t \in Threads, FinishDrop(t) PROVE LoadedHasNoBit'
    BY <1>1, <1>4, <1>12 DEF StackSteps
  <1>13. CASE UNCHANGED vars
    BY <1>5, <1>13 DEF vars
  <1>14. ASSUME NEW g \in BOOLEAN, EnteredWorld(g) PROVE LoadedHasNoBit'
    BY <1>1, <1>3, <1>4, <1>14, ConnectionsAssumption DEF StackSteps
  <1>15. ASSUME NEW t \in Threads, ChangeMap(t) PROVE LoadedHasNoBit'
    BY <1>5, <1>15 DEF ChangeMap
  <1>16. QED
    BY <1>7, <1>8, <1>9, <1>10, <1>11, <1>12, <1>13, <1>14, <1>15 DEF Next, CallStep

(* Every bit keeps a call that will clear it: SetBit sets it for its own      *)
(* call, and ClearBit stores a word that lacks it, unless the word was stale. *)
LEMMA BitsStep ==
  ASSUME TypeOK, Occupied, LoadedHasNoBit, BitsAreGivenBack, [Next]_vars
  PROVE  BitsAreGivenBack'
  <1> USE ConnectionsAssumption
  <1>1. StackSteps
    BY StackStepsHold
  <1>2. \A s \in allowed : s \in revived \/ Held(s)
    BY DEF BitsAreGivenBack, Held, Holds
  <1>3. SUFFICES \A s \in allowed' : s \in revived' \/ Held(s)'
    BY <1>3 DEF BitsAreGivenBack, Held, Holds
  <1>4. ASSUME NEW t \in Threads, NEW f, Pushes(t, f), NEW s, Held(s) PROVE Held(s)'
    BY <1>4 DEF Pushes, Stay, Held, Holds
  <1>5. ASSUME NEW t \in Threads, NEW from, NEW to, Turns(t, from, to), NEW s, Held(s),
               from = "clearing" => to = "clearing" \/ s # Top(t).slot,
               from \in {"handlers", "clear"} => to \in {"clear", "clearing"}
        PROVE  Held(s)'
    <2>1. PICK u \in Threads : \E d \in DOMAIN stack[u] : Holds(stack[u][d], s)
      BY <1>5 DEF Held
    <2>2. PICK d \in DOMAIN stack[u] : Holds(stack[u][d], s)
      BY <2>1
    <2>3. d \in DOMAIN stack'[u] /\ Holds(stack'[u][d], s)
      BY <1>5, <2>2 DEF Turns, Holds, Top
    <2>4. QED
      BY <2>3 DEF Held, Holds
  <1>6. ASSUME NEW t \in Threads, Pops(t), NEW s, Held(s), ~Holds(Top(t), s) PROVE Held(s)'
    <2>1. PICK u \in Threads : \E d \in DOMAIN stack[u] : Holds(stack[u][d], s)
      BY <1>6 DEF Held
    <2>2. PICK d \in DOMAIN stack[u] : Holds(stack[u][d], s)
      BY <2>1
    <2>3. d \in DOMAIN stack'[u] /\ stack'[u][d] = stack[u][d]
      BY <1>6, <2>2 DEF Pops, Stay, Top
    <2>4. QED
      BY <2>2, <2>3 DEF Held, Holds
  <1>7. ASSUME UNCHANGED <<allowed, revived>>, \A s \in Slots : Held(s) => Held(s)'
        PROVE  \A s \in allowed' : s \in revived' \/ Held(s)'
    BY <1>2, <1>7 DEF TypeOK
  <1>8. ASSUME NEW s \in Slots, EngineStep(s)
        PROVE  UNCHANGED <<allowed, revived>> /\ \A r \in Slots : Held(r) => Held(r)'
    <2>1. ASSUME EnterWorld(s)
          PROVE  UNCHANGED <<allowed, revived>> /\ \A r \in Slots : Held(r) => Held(r)'
      <3>1. stack' = stack \/ \E f : Pushes(Main, f)
        BY <1>1, <2>1 DEF StackSteps
      <3>2. stack' = stack => \A r \in Slots : Held(r) => Held(r)'
        BY DEF Held
      <3>3. QED
        BY <1>4, <2>1, <3>1, <3>2 DEF EnterWorld, histories
    <2>2. ASSUME NEW bot \in BOOLEAN, ClientConnects(s, bot)
          PROVE  UNCHANGED <<allowed, revived>> /\ \A r \in Slots : Held(r) => Held(r)'
      <3>1. \E f : Pushes(Main, f)
        BY <1>1, <2>2 DEF StackSteps
      <3>2. QED
        BY <1>4, <2>2, <3>1 DEF ClientConnects, histories
    <2>3. ASSUME ClientLeaves(s)
          PROVE  UNCHANGED <<allowed, revived>> /\ \A r \in Slots : Held(r) => Held(r)'
      <3>1. \E f : Pushes(Main, f)
        BY <1>1, <2>3 DEF StackSteps
      <3>2. QED
        BY <1>4, <2>3, <3>1 DEF ClientLeaves, histories
    <2>4. ASSUME ClientGetsGamestate(s) \/ FreeZombie(s)
          PROVE  UNCHANGED <<allowed, revived>> /\ \A r \in Slots : Held(r) => Held(r)'
      BY <2>4 DEF ClientGetsGamestate, FreeZombie, histories, Held
    <2>5. QED
      BY <1>8, <2>1, <2>2, <2>3, <2>4 DEF EngineStep
  <1>9. ASSUME NEW t \in Threads, NEW s \in Slots, Kick(t, s)
        PROVE  UNCHANGED <<allowed, revived>> /\ \A r \in Slots : Held(r) => Held(r)'
    <2>1. \E f : Pushes(t, f)
      BY <1>1, <1>9 DEF StackSteps
    <2>2. QED
      BY <1>4, <1>9, <2>1 DEF Kick, histories
  <1>10. ASSUME NEW t \in Threads, Load(t)
         PROVE  UNCHANGED <<allowed, revived>> /\ \A r \in Slots : Held(r) => Held(r)'
    <2>1. Turns(t, "set", "setting") \/ Turns(t, "clear", "clearing")
      BY <1>1, <1>10 DEF StackSteps
    <2>2. QED
      BY <1>5, <1>10, <2>1 DEF Load, histories
  <1>11. ASSUME NEW t \in Threads, NEW q \in BOOLEAN, HandlersReturn(t, q)
         PROVE  UNCHANGED <<allowed, revived>> /\ \A r \in Slots : Held(r) => Held(r)'
    <2>1. (Top(t).call = "loaded" /\ Pops(t)) \/ Turns(t, "handlers", "clear")
      BY <1>1, <1>11 DEF StackSteps
    <2>2. CASE Top(t).call = "loaded" /\ Pops(t)
      BY <1>6, <1>11, <2>2 DEF HandlersReturn, histories, Holds
    <2>3. CASE Turns(t, "handlers", "clear")
      BY <1>5, <1>11, <2>3 DEF HandlersReturn, histories
    <2>4. QED
      BY <2>1, <2>2, <2>3
  <1>12. ASSUME FinishConnect
         PROVE  UNCHANGED <<allowed, revived>> /\ \A r \in Slots : Held(r) => Held(r)'
    BY <1>1, <1>6, <1>12 DEF StackSteps, FinishConnect, InStage, Holds, histories
  <1>13. ASSUME NEW t \in Threads, FinishDrop(t)
         PROVE  UNCHANGED <<allowed, revived>> /\ \A r \in Slots : Held(r) => Held(r)'
    BY <1>1, <1>6, <1>13 DEF StackSteps, FinishDrop, InStage, Holds
  <1>14. ASSUME UNCHANGED vars
         PROVE  UNCHANGED <<allowed, revived>> /\ \A r \in Slots : Held(r) => Held(r)'
    BY <1>14 DEF vars, histories, Held
  <1>15. ASSUME NEW t \in Threads, SetBit(t)
         PROVE  \A s \in allowed' : s \in revived' \/ Held(s)'
    <2>1. Turns(t, "setting", "handlers")
      BY <1>1, <1>15 DEF StackSteps
    <2>2. Store(t, Top(t).word \cup {Top(t).slot})
      BY <1>15 DEF SetBit
    <2>3. stack[t][Len(stack[t])].call # "loaded"
      BY <2>1 DEF Turns, LoadedHasNoBit
    <2>4. TAKE s \in allowed'
    <2>5. CASE s = Top(t).slot
      <3>1. Holds(stack'[t][Len(stack[t])], s) /\ Len(stack[t]) \in DOMAIN stack'[t]
        BY <2>1, <2>3, <2>5 DEF Turns, Holds, Top
      <3>2. Held(s)'
        BY <3>1 DEF Held, Holds
      <3>3. QED
        BY <3>2
    <2>6. CASE s # Top(t).slot
      <3>1. s \in revived' \/ (s \in allowed /\ s \notin revived)
        BY <2>2, <2>4, <2>6 DEF Store
      <3>2. s \in allowed /\ s \notin revived => Held(s)'
        BY <1>2, <1>5, <2>1
      <3>3. QED
        BY <3>1, <3>2
    <2>7. QED
      BY <2>5, <2>6
  <1>16. ASSUME NEW t \in Threads, ClearBit(t)
         PROVE  \A s \in allowed' : s \in revived' \/ Held(s)'
    <2>1. Turns(t, "clearing", "engine")
      BY <1>1, <1>16 DEF StackSteps
    <2>2. Store(t, Top(t).word \ {Top(t).slot})
      BY <1>16 DEF ClearBit
    <2>3. TAKE s \in allowed'
    <2>4. s # Top(t).slot
      BY <2>2, <2>3 DEF Store
    <2>5. s \in revived' \/ (s \in allowed /\ s \notin revived)
      BY <2>2, <2>3, <2>4 DEF Store
    <2>6. s \in allowed /\ s \notin revived => Held(s)'
      BY <1>2, <1>5, <2>1, <2>4
    <2>7. QED
      BY <2>5, <2>6
  <1>17. ASSUME NEW g \in BOOLEAN, EnteredWorld(g)
         PROVE  UNCHANGED <<allowed, revived>> /\ \A r \in Slots : Held(r) => Held(r)'
    <2>1. Turns(Main, "spawning", "handlers") \/ Pops(Main)
      BY <1>1, <1>17 DEF StackSteps
    <2>2. CASE Turns(Main, "spawning", "handlers")
      BY <1>5, <1>17, <2>2 DEF EnteredWorld
    <2>3. CASE Pops(Main)
      BY <1>6, <1>17, <2>3 DEF EnteredWorld, InStage, Holds
    <2>4. QED
      BY <2>1, <2>2, <2>3
  <1>18. ASSUME NEW t \in Threads, ChangeMap(t)
         PROVE  UNCHANGED <<allowed, revived>> /\ \A r \in Slots : Held(r) => Held(r)'
    BY <1>18 DEF ChangeMap, Held
  <1>19. QED
    BY <1>7, <1>8, <1>9, <1>10, <1>11, <1>12, <1>13, <1>14, <1>15, <1>16, <1>17, <1>18
    DEF Next, CallStep

(* A bit of ALLOW_FREE_CLIENT is set only while a call for its client is      *)
(* under way or a stale word was stored: for any threads and any nesting.     *)
THEOREM BitsGivenBack == Spec => []BitsAreGivenBack
  <1> DEFINE Inv == TypeOK /\ Occupied /\ LoadedHasNoBit /\ BitsAreGivenBack
  <1>1. Init => Inv
    <2>1. Init => LoadedHasNoBit /\ BitsAreGivenBack
      BY DEF Init, LoadedHasNoBit, BitsAreGivenBack
    <2>2. QED
      BY <2>1, TypeInit
  <1>2. Inv /\ [Next]_vars => Inv'
    BY TypeStep, LoadedStep, BitsStep
  <1>3. QED
    BY <1>1, <1>2, PTL DEF Spec

(***************************************************************************)
(* What connecting clients can rely on.                                    *)
(***************************************************************************)
\* The engine connects one client at a time, and while it does nothing the main thread
\* is inside of is about the client's slot, which is free.
ConnectsAlone ==
  \A t \in Threads : \A d \in DOMAIN stack[t] :
    stack[t][d].call = "connect" =>
      /\ t = Main /\ d = 1
      /\ state[stack[t][d].slot] = "free"
      /\ stack[t][d].conn = conns
      /\ \A e \in DOMAIN stack[Main] : e # 1 => stack[Main][e].slot # stack[t][d].slot

\* The engine's disconnect, slot by slot.
Hits(t, s) ==
  /\ s = Top(t).slot
  /\ state[s] \notin {"free", "zombie"} /\ who[s] \in Conns
  /\ state'[s] \in {"free", "zombie"} /\ who'[s] \in {0, who[s]}
  /\ \A r \in Slots \ {s} : state'[r] = state[r] /\ who'[r] = who[r]
  /\ hit \subseteq hit' /\ who[s] \in hit' \cup {Top(t).conn}

(* The engine's disconnect frees one slot, whose client is then hit, or does  *)
(* nothing.                                                                   *)
LEMMA DropHits ==
  ASSUME TypeOK, Occupied, NEW t \in Threads, FinishDrop(t)
  PROVE  UNCHANGED <<state, who, hit>> \/ \E s \in Slots : Hits(t, s)
  <1> DEFINE s == Top(t).slot
  <1>1. s \in Slots
    BY TopFrame DEF FinishDrop, InStage, TypeOK, Call
  <1>2. SUFFICES ASSUME ~UNCHANGED <<state, who, hit>> PROVE Hits(t, s)
    BY <1>1
  <1>3. /\ state[s] \notin {"free", "zombie"}
        /\ state' = [state EXCEPT ![s] = IF who[s] \in bots THEN "free" ELSE "zombie"]
        /\ who' = [who EXCEPT ![s] = IF @ \in bots THEN 0 ELSE @]
        /\ hit' = hit \cup ({who[s]} \ {Top(t).conn})
    BY <1>2 DEF FinishDrop
  <1>4. who[s] \in Conns
    <2>1. who[s] \in 0 .. MaxConns /\ who[s] # 0
      BY <1>1, <1>3 DEF TypeOK, Occupied
    <2>2. QED
      BY <2>1, ConnectionsAssumption DEF Conns
  <1>5. state \in [Slots -> {"free", "connected", "primed", "active", "zombie"}]
        /\ who \in [Slots -> 0 .. MaxConns]
    BY DEF TypeOK
  <1> HIDE DEF s
  <1>6. state'[s] \in {"free", "zombie"} /\ who'[s] \in {0, who[s]}
        /\ \A r \in Slots \ {s} : state'[r] = state[r] /\ who'[r] = who[r]
    BY <1>1, <1>3, <1>5
  <1>7. QED
    BY <1>3, <1>4, <1>6 DEF Hits, s

(* Nothing begins beside a call that connects a client on the main thread,    *)
(* and nobody takes its slot before it ends.                                  *)
LEMMA AloneStep ==
  ASSUME TypeOK, Occupied, ConnectsAlone, [Next]_vars
  PROVE  ConnectsAlone'
  <1> USE ConnectionsAssumption
  <1>1. StackSteps
    BY StackStepsHold
  <1>2. ASSUME stack[Main] = <<>>, NEW t \in Threads, NEW d \in DOMAIN stack[t]
        PROVE  stack[t][d].call # "connect"
    BY <1>2 DEF ConnectsAlone
  <1>3. ASSUME NEW s \in Slots, NEW bot \in BOOLEAN, ClientConnects(s, bot)
        PROVE  ConnectsAlone'
    <2> DEFINE f == NewCall("connect", s, conns + 1, "set")
    <2>1. Pushes(Main, f) /\ stack[Main] = <<>> /\ state'[s] = "free" /\ conns' = conns + 1
      BY <1>1, <1>3 DEF StackSteps, ClientConnects, EngineRuns
    <2>2. f.call = "connect" /\ f.slot = s /\ f.conn = conns + 1
      BY DEF NewCall
    <2> HIDE DEF f
    <2>3. Len(stack[Main]) + 1 = 1 /\ DOMAIN stack[Main] = {}
      BY <2>1
    <2>4. \A d \in DOMAIN stack'[Main] : d = 1 /\ stack'[Main][d] = f
      BY <2>1, <2>3 DEF Pushes, Stay
    <2>5. \A t \in Threads \ {Main} : \A d \in DOMAIN stack'[t] :
            stack'[t][d].call # "connect"
      BY <1>2, <2>1 DEF Pushes, Stay
    <2>6. QED
      BY <2>1, <2>2, <2>4, <2>5 DEF ConnectsAlone
  <1>4. ASSUME stack[Main] = <<>>, NEW f, Pushes(Main, f), f.call # "connect"
        PROVE  ConnectsAlone'
    BY <1>2, <1>4 DEF Pushes, Stay, ConnectsAlone
  <1>5. ASSUME stack[Main] = <<>>, stack' = stack PROVE ConnectsAlone'
    BY <1>2, <1>5 DEF ConnectsAlone
  <1>6. ASSUME NEW s \in Slots, EngineStep(s) PROVE ConnectsAlone'
    <2>1. ASSUME EnterWorld(s) PROVE ConnectsAlone'
      BY <1>1, <1>4, <1>5, <2>1 DEF StackSteps, EnterWorld, EngineRuns, NewCall
    <2>2. ASSUME ClientLeaves(s) PROVE ConnectsAlone'
      BY <1>1, <1>4, <2>2 DEF StackSteps, ClientLeaves, EngineRuns, NewCall
    <2>3. ASSUME ClientGetsGamestate(s) \/ FreeZombie(s) PROVE ConnectsAlone'
      BY <1>5, <2>3 DEF ClientGetsGamestate, FreeZombie, EngineRuns
    <2>4. QED
      BY <1>3, <1>6, <2>1, <2>2, <2>3 DEF EngineStep
  <1>7. ASSUME NEW t \in Threads, NEW s \in Slots, Kick(t, s) PROVE ConnectsAlone'
    <2> DEFINE f == NewCall("drop", s, who[s], "set")
    <2>1. Pushes(t, f) /\ state[s] = "active" /\ UNCHANGED <<state, conns>>
      BY <1>1, <1>7 DEF StackSteps, Kick, engineVars
    <2>2. f.call = "drop" /\ f.slot = s
      BY DEF NewCall
    <2> HIDE DEF f
    <2>3. SUFFICES ASSUME NEW u \in Threads, NEW d \in DOMAIN stack'[u],
                          stack'[u][d].call = "connect"
                   PROVE  /\ u = Main /\ d = 1 /\ state[stack'[u][d].slot] = "free"
                          /\ stack'[u][d].conn = conns
                          /\ \A e \in DOMAIN stack'[Main] :
                               e # 1 => stack'[Main][e].slot # stack'[u][d].slot
      BY <2>1 DEF ConnectsAlone
    <2>4. Stay(u, d)
      BY <2>1, <2>2, <2>3 DEF Pushes
    <2>5. /\ u = Main /\ d = 1 /\ state[stack'[u][d].slot] = "free" /\ stack'[u][d].conn = conns
          /\ \A e \in DOMAIN stack[Main] : e # 1 => stack[Main][e].slot # stack'[u][d].slot
      BY <2>3, <2>4 DEF Stay, ConnectsAlone
    <2>6. ASSUME NEW e \in DOMAIN stack'[Main], e # 1
          PROVE  stack'[Main][e].slot # stack'[u][d].slot
      BY <2>1, <2>2, <2>5, <2>6 DEF Pushes, Stay
    <2>7. QED
      BY <2>5, <2>6
  <1>8. ASSUME NEW t \in Threads, NEW from, NEW to, Turns(t, from, to),
               UNCHANGED <<state, conns>>
        PROVE  ConnectsAlone'
    <2>1. SUFFICES ASSUME NEW u \in Threads, NEW d \in DOMAIN stack'[u],
                          stack'[u][d].call = "connect"
                   PROVE  /\ u = Main /\ d = 1 /\ state[stack'[u][d].slot] = "free"
                          /\ stack'[u][d].conn = conns
                          /\ \A e \in DOMAIN stack'[Main] :
                               e # 1 => stack'[Main][e].slot # stack'[u][d].slot
      BY <1>8 DEF ConnectsAlone
    <2>2. d \in DOMAIN stack[u] /\ stack[u][d].call = "connect"
          /\ stack'[u][d].slot = stack[u][d].slot /\ stack'[u][d].conn = stack[u][d].conn
      BY <1>8, <2>1 DEF Turns
    <2>3. \A e \in DOMAIN stack'[Main] :
            e \in DOMAIN stack[Main] /\ stack'[Main][e].slot = stack[Main][e].slot
      BY <1>8 DEF Turns
    <2>4. QED
      BY <2>2, <2>3 DEF ConnectsAlone
  <1>9. ASSUME NEW t \in Threads, Pops(t), UNCHANGED conns,
               \A s \in Slots : state[s] = "free" => state'[s] = "free"
        PROVE  ConnectsAlone'
    <2>1. SUFFICES ASSUME NEW u \in Threads, NEW d \in DOMAIN stack'[u],
                          stack'[u][d].call = "connect"
                   PROVE  /\ u = Main /\ d = 1 /\ state'[stack'[u][d].slot] = "free"
                          /\ stack'[u][d].conn = conns
                          /\ \A e \in DOMAIN stack'[Main] :
                               e # 1 => stack'[Main][e].slot # stack'[u][d].slot
      BY <1>9 DEF ConnectsAlone
    <2>2. d \in DOMAIN stack[u] /\ stack'[u][d] = stack[u][d]
      BY <1>9 DEF Pops, Stay
    <2>3. \A e \in DOMAIN stack'[Main] :
            e \in DOMAIN stack[Main] /\ stack'[Main][e] = stack[Main][e]
      BY <1>9 DEF Pops, Stay
    <2>4. stack[u][d].slot \in Slots
      <3>1. stack[u] \in Seq(Call)
        BY DEF TypeOK
      <3>2. stack[u][d] \in Call
        BY <2>2, <3>1
      <3>3. QED
        BY <3>2 DEF Call
    <2>5. /\ u = Main /\ d = 1 /\ state[stack[u][d].slot] = "free" /\ stack[u][d].conn = conns
          /\ \A e \in DOMAIN stack[Main] : e # 1 => stack[Main][e].slot # stack[u][d].slot
      BY <2>1, <2>2 DEF ConnectsAlone
    <2>6. state'[stack[u][d].slot] = "free"
      BY <1>9, <2>4, <2>5
    <2>7. QED
      BY <2>2, <2>3, <2>5, <2>6
  <1>10. ASSUME NEW t \in Threads, CallStep(t) PROVE ConnectsAlone'
    <2>1. ASSUME Load(t) \/ SetBit(t) \/ ClearBit(t) PROVE ConnectsAlone'
      BY <1>1, <1>8, <2>1 DEF StackSteps, Load, SetBit, ClearBit, engineVars
    <2>2. ASSUME NEW r \in BOOLEAN, HandlersReturn(t, r) PROVE ConnectsAlone'
      BY <1>1, <1>8, <1>9, <2>2 DEF StackSteps, HandlersReturn, engineVars
    <2>3. ASSUME FinishDrop(t) PROVE ConnectsAlone'
      <3>1. \A s \in Slots : state[s] = "free" => state'[s] = "free"
        BY <2>3, DropHits DEF Hits
      <3>2. QED
        BY <1>1, <1>9, <2>3, <3>1 DEF StackSteps, FinishDrop
    <2>4. QED
      BY <1>10, <2>1, <2>2, <2>3 DEF CallStep
  <1>11. ASSUME FinishConnect PROVE ConnectsAlone'
    <2>1. Pops(Main) /\ Top(Main).call = "connect"
      BY <1>1, <1>11 DEF StackSteps, FinishConnect
    <2>2. Len(stack[Main]) = 1
      BY <2>1 DEF Pops, Top, ConnectsAlone
    <2>3. ASSUME NEW u \in Threads, NEW d \in DOMAIN stack'[u]
          PROVE  stack'[u][d].call # "connect"
      BY <2>1, <2>2 DEF Pops, Stay, ConnectsAlone
    <2>4. QED
      BY <2>3 DEF ConnectsAlone
  <1>12. CASE UNCHANGED vars
    BY <1>12 DEF vars, engineVars, ConnectsAlone
  <1>13. ASSUME NEW g \in BOOLEAN, EnteredWorld(g) PROVE ConnectsAlone'
    BY <1>1, <1>8, <1>9, <1>13 DEF StackSteps, EnteredWorld, engineVars
  <1>14. ASSUME NEW t \in Threads, ChangeMap(t) PROVE ConnectsAlone'
    <2>1. UNCHANGED <<stack, conns>> /\ \A s \in Slots : state[s] = "free" => state'[s] = "free"
      BY <1>14 DEF ChangeMap
    <2>2. \A u \in Threads : \A d \in DOMAIN stack[u] : stack[u][d].slot \in Slots
      BY FramesAreCalls
    <2>3. QED
      BY <2>1, <2>2 DEF ConnectsAlone
  <1>15. QED
    BY <1>6, <1>7, <1>10, <1>11, <1>12, <1>13, <1>14 DEF Next

\* The handlers of player_connect find the bit set, unless a store took it away.
ConnectSeen ==
  \A t \in Threads : \A d \in DOMAIN stack[t] :
    stack[t][d].call = "connect" /\ stack[t][d].stage = "handlers" =>
      stack[t][d].slot \in allowed \cup erased

(* The bit of a client that connects goes only by another thread's store.     *)
LEMMA SeenStep ==
  ASSUME TypeOK, Occupied, LoadedHasNoBit, ConnectsAlone, ConnectSeen, [Next]_vars
  PROVE  ConnectSeen'
  <1> USE ConnectionsAssumption
  <1>1. StackSteps
    BY StackStepsHold
  <1>2. ASSUME NEW t \in Threads, NEW f, Pushes(t, f), UNCHANGED <<allowed, erased>>,
               f.call # "connect" \/ f.stage # "handlers"
        PROVE  ConnectSeen'
    BY <1>2 DEF Pushes, Stay, ConnectSeen
  <1>3. ASSUME NEW t \in Threads, Pops(t), UNCHANGED <<allowed, erased>> PROVE ConnectSeen'
    BY <1>3 DEF Pops, Stay, ConnectSeen
  <1>4. ASSUME NEW t \in Threads, NEW from, NEW to, Turns(t, from, to),
               UNCHANGED <<allowed, erased>>, to # "handlers"
        PROVE  ConnectSeen'
    <2>1. SUFFICES ASSUME NEW u \in Threads, NEW d \in DOMAIN stack'[u],
                          stack'[u][d].call = "connect", stack'[u][d].stage = "handlers"
                   PROVE  stack'[u][d].slot \in allowed \cup erased
      BY <1>4 DEF ConnectSeen
    <2>2. d \in DOMAIN stack[u] /\ stack[u][d].call = "connect" /\ stack[u][d].stage = "handlers"
          /\ stack'[u][d].slot = stack[u][d].slot
      BY <1>4, <2>1 DEF Turns
    <2>3. QED
      BY <2>2 DEF ConnectSeen
  <1>5. ASSUME stack' = stack, UNCHANGED <<allowed, erased>> PROVE ConnectSeen'
    BY <1>5 DEF ConnectSeen
  <1>6. ASSUME NEW s \in Slots, EngineStep(s) PROVE ConnectSeen'
    <2>1. ASSUME EnterWorld(s) PROVE ConnectSeen'
      BY <1>1, <1>2, <1>5, <2>1 DEF StackSteps, EnterWorld, NewCall, histories
    <2>2. ASSUME NEW bot \in BOOLEAN, ClientConnects(s, bot) PROVE ConnectSeen'
      BY <1>1, <1>2, <2>2 DEF StackSteps, ClientConnects, NewCall, histories
    <2>3. ASSUME ClientLeaves(s) PROVE ConnectSeen'
      BY <1>1, <1>2, <2>3 DEF StackSteps, ClientLeaves, NewCall, histories
    <2>4. ASSUME ClientGetsGamestate(s) \/ FreeZombie(s) PROVE ConnectSeen'
      BY <1>5, <2>4 DEF ClientGetsGamestate, FreeZombie, histories
    <2>5. QED
      BY <1>6, <2>1, <2>2, <2>3, <2>4 DEF EngineStep
  <1>7. ASSUME NEW t \in Threads, NEW s \in Slots, Kick(t, s) PROVE ConnectSeen'
    BY <1>1, <1>2, <1>7 DEF StackSteps, Kick, NewCall, histories
  <1>8. ASSUME NEW t \in Threads, Load(t) PROVE ConnectSeen'
    BY <1>1, <1>4, <1>8 DEF StackSteps, Load, histories
  <1>9. ASSUME NEW t \in Threads, NEW r \in BOOLEAN, HandlersReturn(t, r) PROVE ConnectSeen'
    BY <1>1, <1>3, <1>4, <1>9 DEF StackSteps, HandlersReturn, histories
  <1>10. ASSUME FinishConnect PROVE ConnectSeen'
    BY <1>1, <1>3, <1>10 DEF StackSteps, FinishConnect, histories
  <1>11. ASSUME NEW t \in Threads, FinishDrop(t) PROVE ConnectSeen'
    BY <1>1, <1>3, <1>11 DEF StackSteps, FinishDrop
  <1>12. CASE UNCHANGED vars
    BY <1>5, <1>12 DEF vars, histories
  \* What a store takes away from handlers that are under way is in erased.
  <1>13. ASSUME NEW t \in Threads, NEW word \in SUBSET Slots, Store(t, word), NEW s \in Slots,
                s \in allowed \cup erased, HandlersOf(Main, s),
                s \in word \/ t # Main \/ s \notin Top(t).word \cup {Top(t).slot}
         PROVE  s \in allowed' \cup erased'
    BY <1>13 DEF Store
  <1>14. ASSUME NEW u \in Threads, NEW d \in DOMAIN stack[u],
                stack[u][d].call = "connect", stack[u][d].stage = "handlers"
         PROVE  /\ u = Main /\ d = 1 /\ HandlersOf(Main, stack[u][d].slot)
                /\ stack[u][d].slot \in Slots /\ stack[u][d].slot \in allowed \cup erased
                /\ \A e \in DOMAIN stack[Main] : e # 1 => stack[Main][e].slot # stack[u][d].slot
    <2>1. stack[u] \in Seq(Call)
      BY DEF TypeOK
    <2>2. stack[u][d] \in Call
      BY <2>1
    <2>3. stack[u][d].slot \in Slots
      BY <2>2 DEF Call
    <2>4. QED
      BY <1>14, <2>3 DEF ConnectSeen, ConnectsAlone, HandlersOf
  <1>15. ASSUME NEW t \in Threads, stack[t] # <<>>
         PROVE  Top(t).slot \in Slots /\ Top(t).word \subseteq Slots
    BY <1>15, TopFrame DEF TypeOK, Call
  <1>16. ASSUME NEW t \in Threads, SetBit(t) PROVE ConnectSeen'
    <2>1. Turns(t, "setting", "handlers")
      BY <1>1, <1>16 DEF StackSteps
    <2>2. Store(t, Top(t).word \cup {Top(t).slot}) /\ Top(t).word \cup {Top(t).slot} \subseteq Slots
      BY <1>15, <1>16 DEF SetBit, InStage
    <2>3. SUFFICES ASSUME NEW u \in Threads, NEW d \in DOMAIN stack'[u],
                          stack'[u][d].call = "connect", stack'[u][d].stage = "handlers"
                   PROVE  stack'[u][d].slot \in allowed' \cup erased'
      BY DEF ConnectSeen
    <2>4. d \in DOMAIN stack[u] /\ stack[u][d].call = "connect"
          /\ stack'[u][d].slot = stack[u][d].slot
          /\ (stack[u][d].stage = "handlers" \/ (u = t /\ d = Len(stack[t])))
      BY <2>1, <2>3 DEF Turns
    <2>5. CASE u = t /\ d = Len(stack[t])
      BY <2>2, <2>4, <2>5 DEF Store, Top
    <2>6. CASE stack[u][d].stage = "handlers"
      <3>1. HandlersOf(Main, stack[u][d].slot) /\ stack[u][d].slot \in Slots
            /\ stack[u][d].slot \in allowed \cup erased
        BY <1>14, <2>4, <2>6
      <3>2. QED
        BY <1>13, <2>2, <2>4, <3>1
    <2>7. QED
      BY <2>4, <2>5, <2>6
  <1>17. ASSUME NEW t \in Threads, ClearBit(t) PROVE ConnectSeen'
    <2>1. Turns(t, "clearing", "engine")
      BY <1>1, <1>17 DEF StackSteps
    <2>2. Store(t, Top(t).word \ {Top(t).slot}) /\ Top(t).word \ {Top(t).slot} \subseteq Slots
      BY <1>15, <1>17 DEF ClearBit, InStage
    <2>3. SUFFICES ASSUME NEW u \in Threads, NEW d \in DOMAIN stack'[u],
                          stack'[u][d].call = "connect", stack'[u][d].stage = "handlers"
                   PROVE  stack'[u][d].slot \in allowed' \cup erased'
      BY DEF ConnectSeen
    <2>4. d \in DOMAIN stack[u] /\ stack[u][d].call = "connect"
          /\ stack'[u][d].slot = stack[u][d].slot /\ stack[u][d].stage = "handlers"
      BY <2>1, <2>3 DEF Turns
    <2>5. /\ u = Main /\ d = 1 /\ HandlersOf(Main, stack[u][d].slot)
          /\ stack[u][d].slot \in Slots /\ stack[u][d].slot \in allowed \cup erased
          /\ \A e \in DOMAIN stack[Main] : e # 1 => stack[Main][e].slot # stack[u][d].slot
      BY <1>14, <2>4
    <2>6. t = Main => stack[u][d].slot # Top(t).slot
      BY <2>1, <2>4, <2>5 DEF Turns, Top
    <2>7. \A s \in Slots :
            s = stack[u][d].slot =>
              \/ s \in Top(t).word \ {Top(t).slot}
              \/ t # Main \/ s \notin Top(t).word \cup {Top(t).slot}
      BY <2>6
    <2>8. QED
      BY <1>13, <2>2, <2>4, <2>5, <2>7
  <1>18. ASSUME NEW g \in BOOLEAN, EnteredWorld(g) PROVE ConnectSeen'
    <2>1. UNCHANGED <<allowed, erased>>
      BY <1>18 DEF EnteredWorld
    <2>2. CASE Pops(Main)
      BY <1>3, <2>1, <2>2
    <2>3. CASE Turns(Main, "spawning", "handlers")
      <3>1. stack[Main][Len(stack[Main])].call = "loaded"
        BY <2>3 DEF Turns, LoadedHasNoBit
      <3>2. QED
        BY <2>1, <2>3, <3>1 DEF Turns, ConnectSeen
    <2>4. QED
      BY <1>1, <1>18, <2>2, <2>3 DEF StackSteps
  <1>19. ASSUME NEW t \in Threads, ChangeMap(t) PROVE ConnectSeen'
    BY <1>5, <1>19 DEF ChangeMap
  <1>20. QED
    BY <1>6, <1>7, <1>8, <1>9, <1>10, <1>11, <1>12, <1>16, <1>17, <1>18, <1>19
    DEF Next, CallStep

(* Handlers of player_connect and player_disconnect find the client they are  *)
(* told about, but for the three ways HandlersSeeTheClient names.             *)
THEOREM ClientsAreSeen == Spec => []HandlersSeeTheClient
  <1> DEFINE Inv == TypeOK /\ Occupied /\ LoadedHasNoBit /\ ConnectsAlone /\ ConnectSeen
  <1>1. Init => Inv
    <2>1. Init => LoadedHasNoBit /\ ConnectsAlone /\ ConnectSeen
      BY DEF Init, LoadedHasNoBit, ConnectsAlone, ConnectSeen
    <2>2. QED
      BY <2>1, TypeInit
  <1>2. Inv /\ [Next]_vars => Inv'
    BY TypeStep, LoadedStep, AloneStep, SeenStep
  <1>3. Inv => HandlersSeeTheClient
    <2>1. SUFFICES ASSUME Inv, NEW t \in Threads, NEW d \in DOMAIN stack[t],
                          stack[t][d].stage = "handlers", stack[t][d].call # "loaded"
                   PROVE  \/ Visible(stack[t][d].slot)
                          \/ stack[t][d].slot \in erased
                          \/ stack[t][d].call = "drop" /\ who[stack[t][d].slot] # stack[t][d].conn
      BY DEF HandlersSeeTheClient
    <2>2. stack[t][d] \in Call
      BY <2>1 DEF TypeOK
    <2>3. stack[t][d].slot \in Slots /\ stack[t][d].conn \in 1 .. MaxConns
          /\ stack[t][d].call \in {"connect", "drop", "loaded"}
      BY <2>2 DEF Call, Conns
    <2>4. CASE stack[t][d].call = "connect"
      BY <2>1, <2>4 DEF ConnectSeen, Visible
    <2>5. CASE stack[t][d].call = "drop"
      BY <2>1, <2>3, <2>5 DEF Occupied, Visible
    <2>6. QED
      BY <2>1, <2>3, <2>4, <2>5
  <1>4. QED
    BY <1>1, <1>2, <1>3, PTL DEF Spec

(***************************************************************************)
(* Whom a disconnect hits.                                                 *)
(***************************************************************************)
(* The events of a kind in a sequence can be counted.                         *)
LEMMA EventsAreFinite ==
  ASSUME NEW q \in Seq({"connect", "loaded", "disconnect"}), NEW x
  PROVE  /\ IsFiniteSet({k \in DOMAIN q : q[k] = x})
         /\ Cardinality({k \in DOMAIN q : q[k] = x}) \in Nat
  <1>1. Len(q) \in Nat /\ DOMAIN q = 1 .. Len(q)
    OBVIOUS
  <1>2. IsFiniteSet(1 .. Len(q))
    BY <1>1, FS_Interval
  <1>3. {k \in DOMAIN q : q[k] = x} \subseteq 1 .. Len(q)
    BY <1>1
  <1>4. QED
    BY <1>2, <1>3, FS_Subset, FS_CardinalityType

(* How often plugins were told of an event is a number.                       *)
LEMMA TimesAreCounted ==
  ASSUME told \in [Conns -> Seq({"connect", "loaded", "disconnect"})], NEW c \in Conns, NEW x
  PROVE  Times(c, x) \in Nat
  <1>1. told[c] \in Seq({"connect", "loaded", "disconnect"})
    OBVIOUS
  <1>2. QED
    BY <1>1, EventsAreFinite DEF Times

(* An event adds one to the count of its kind, for the connection it is about.*)
LEMMA ToldTimes ==
  ASSUME TypeOK, NEW c \in Conns, NEW e \in {"connect", "loaded", "disconnect"}, Tell(c, e),
         NEW b \in Conns, NEW x
  PROVE  Times(b, x)' = Times(b, x) + (IF b = c /\ e = x THEN 1 ELSE 0)
  <1> DEFINE before == {k \in DOMAIN told[b] : told[b][k] = x}
             after == {k \in DOMAIN told'[b] : told'[b][k] = x}
  <1>1. told \in [Conns -> Seq({"connect", "loaded", "disconnect"})]
    BY DEF TypeOK
  <1>2. told[b] \in Seq({"connect", "loaded", "disconnect"}) /\ Times(b, x) \in Nat
    BY <1>1, TimesAreCounted
  <1>3. CASE b # c
    <2>1. told'[b] = told[b]
      BY <1>1, <1>3 DEF Tell
    <2>2. Times(b, x)' = Times(b, x)
      BY <2>1 DEF Times
    <2>3. QED
      BY <1>2, <1>3, <2>2
  <1>4. CASE b = c
    <2>1. told'[b] = Append(told[b], e)
      BY <1>1, <1>4 DEF Tell
    <2>2. Len(told[b]) \in Nat /\ DOMAIN told[b] = 1 .. Len(told[b])
          /\ DOMAIN told'[b] = 1 .. Len(told[b]) + 1
          /\ told'[b][Len(told[b]) + 1] = e
          /\ \A k \in 1 .. Len(told[b]) : told'[b][k] = told[b][k]
      BY <1>2, <2>1
    <2>3. CASE e = x
      <3>1. after = before \cup {Len(told[b]) + 1} /\ Len(told[b]) + 1 \notin before
        BY <2>2, <2>3
      <3>2. IsFiniteSet(before)
        BY <1>2, EventsAreFinite
      <3>3. Cardinality(after) = Cardinality(before) + 1
        BY <3>1, <3>2, FS_AddElement
      <3>4. QED
        BY <1>4, <2>3, <3>3 DEF Times
    <2>4. CASE e # x
      <3>1. after = before
        BY <2>2, <2>4
      <3>2. Times(b, x)' = Times(b, x)
        BY <3>1 DEF Times
      <3>3. QED
        BY <1>2, <2>4, <3>2
    <2>5. QED
      BY <2>3, <2>4
  <1>5. QED
    BY <1>3, <1>4

Goodbyes(c) == Times(c, "disconnect")

\* A call on the main thread to drop a client finds that client or nobody.
MainDrops ==
  \A d \in DOMAIN stack[Main] :
    stack[Main][d].call = "drop" => who[stack[Main][d].slot] \in {stack[Main][d].conn, 0}

(* While the main thread drops a client no other client gets the slot: one    *)
(* that connects meanwhile does so below it on the stack, in another slot.    *)
LEMMA MainDropsStep ==
  ASSUME TypeOK, Occupied, ConnectsAlone, MainDrops, [Next]_vars
  PROVE  MainDrops'
  <1> USE ConnectionsAssumption
  <1>1. StackSteps
    BY StackStepsHold
  <1>2. ASSUME NEW t \in Threads, NEW f, Pushes(t, f), UNCHANGED who,
               f.call = "drop" => f.conn = who[f.slot]
        PROVE  MainDrops'
    BY <1>2 DEF Pushes, Stay, MainDrops
  <1>3. ASSUME NEW t \in Threads, NEW from, NEW to, Turns(t, from, to), UNCHANGED who
        PROVE  MainDrops'
    BY <1>3 DEF Turns, MainDrops
  <1>4. ASSUME NEW t \in Threads, Pops(t), UNCHANGED who PROVE MainDrops'
    BY <1>4 DEF Pops, Stay, MainDrops
  <1>5. ASSUME NEW s \in Slots, EngineStep(s) PROVE MainDrops'
    <2>1. ASSUME EnterWorld(s) PROVE MainDrops'
      BY <1>1, <1>2, <2>1 DEF StackSteps, EnterWorld, NewCall, MainDrops
    <2>2. ASSUME NEW bot \in BOOLEAN, ClientConnects(s, bot) PROVE MainDrops'
      BY <1>1, <1>2, <2>2 DEF StackSteps, ClientConnects, NewCall
    <2>3. ASSUME ClientLeaves(s) PROVE MainDrops'
      BY <1>1, <1>2, <2>3 DEF StackSteps, ClientLeaves, NewCall, engineVars
    <2>4. ASSUME ClientGetsGamestate(s) \/ FreeZombie(s) PROVE MainDrops'
      BY <2>4 DEF ClientGetsGamestate, FreeZombie, EngineRuns, MainDrops
    <2>5. QED
      BY <1>5, <2>1, <2>2, <2>3, <2>4 DEF EngineStep
  <1>6. ASSUME NEW t \in Threads, NEW s \in Slots, Kick(t, s) PROVE MainDrops'
    BY <1>1, <1>2, <1>6 DEF StackSteps, Kick, NewCall, engineVars
  <1>7. ASSUME NEW t \in Threads, CallStep(t) PROVE MainDrops'
    <2>1. ASSUME Load(t) \/ SetBit(t) \/ ClearBit(t) PROVE MainDrops'
      BY <1>1, <1>3, <2>1 DEF StackSteps, Load, SetBit, ClearBit, engineVars
    <2>2. ASSUME NEW r \in BOOLEAN, HandlersReturn(t, r) PROVE MainDrops'
      BY <1>1, <1>3, <1>4, <2>2 DEF StackSteps, HandlersReturn, engineVars
    <2>3. ASSUME FinishDrop(t) PROVE MainDrops'
      <3>1. CASE UNCHANGED who
        BY <1>1, <1>4, <2>3, <3>1 DEF StackSteps
      <3>2. ASSUME NEW s \in Slots, Hits(t, s) PROVE MainDrops'
        <4>1. Pops(t)
          BY <1>1, <2>3 DEF StackSteps
        <4>2. \A r \in Slots : who'[r] \in {0, who[r]}
          BY <3>2 DEF Hits
        <4>3. \A d \in DOMAIN stack'[Main] : d \in DOMAIN stack[Main] /\ stack'[Main][d] = stack[Main][d]
          BY <4>1 DEF Pops, Stay
        <4>4. \A d \in DOMAIN stack[Main] : stack[Main][d].slot \in Slots
          BY FramesAreCalls
        <4>5. QED
          BY <4>2, <4>3, <4>4 DEF MainDrops
      <3>3. QED
        BY <2>3, <3>1, <3>2, DropHits
    <2>4. QED
      BY <1>7, <2>1, <2>2, <2>3 DEF CallStep
  <1>8. ASSUME FinishConnect PROVE MainDrops'
    <2>1. Pops(Main) /\ Top(Main).call = "connect"
      BY <1>1, <1>8 DEF StackSteps, FinishConnect
    <2>2. Len(stack[Main]) = 1
      BY <2>1 DEF Pops, Top, ConnectsAlone
    <2>3. stack[Main] \in Seq(Call)
      BY DEF TypeOK
    <2>4. DOMAIN stack[Main] = 1 .. 1
      BY <2>2, <2>3
    <2>5. \A d \in DOMAIN stack'[Main] : FALSE
      BY <2>1, <2>2, <2>4 DEF Pops, Stay
    <2>6. QED
      BY <2>5 DEF MainDrops
  <1>9. CASE UNCHANGED vars
    BY <1>9 DEF vars, engineVars, MainDrops
  <1>10. ASSUME NEW g \in BOOLEAN, EnteredWorld(g) PROVE MainDrops'
    BY <1>1, <1>3, <1>4, <1>10 DEF StackSteps, EnteredWorld, engineVars
  <1>11. ASSUME NEW t \in Threads, ChangeMap(t) PROVE MainDrops'
    BY <1>11 DEF ChangeMap, MainDrops
  <1>12. QED
    BY <1>5, <1>6, <1>7, <1>8, <1>9, <1>10, <1>11 DEF Next

\* A call's own player_disconnect, once its handlers run.
Own(f) == IF f.stage \in {"set", "setting"} THEN 0 ELSE 1

Lively == {"connected", "primed", "active"}

\* The calls to drop a client after a step: at most one of them is new, or has just
\* announced that the client leaves.
DropsGoOn(t, k) ==
  \A u \in Threads : \A d \in DOMAIN stack'[u] :
    stack'[u][d].call = "drop" =>
      \/ /\ u = t /\ d = k /\ d \notin DOMAIN stack[u]
         /\ Own(stack'[u][d]) = 0
         /\ who[stack'[u][d].slot] = stack'[u][d].conn /\ state[stack'[u][d].slot] \in Lively
         /\ UNCHANGED <<state, who>>
      \/ /\ d \in DOMAIN stack[u] /\ stack[u][d].call = "drop"
         /\ stack'[u][d].slot = stack[u][d].slot /\ stack'[u][d].conn = stack[u][d].conn
         /\ \/ Own(stack'[u][d]) = Own(stack[u][d])
            \/ /\ u = t /\ d = k
               /\ Own(stack[u][d]) = 0 /\ Own(stack'[u][d]) = 1
               /\ \A c \in Conns : c = stack[u][d].conn => Goodbyes(c)' = Goodbyes(c) + 1

(* A step begins at most one call to drop a client, or announces one leaving; *)
(* the count of goodbyes never falls.                                         *)
LEMMA DropsGoOnHolds ==
  ASSUME TypeOK, Occupied, [Next]_vars
  PROVE  /\ \E t \in Threads, k \in Nat : DropsGoOn(t, k)
         /\ \A c \in Conns : Goodbyes(c) \in Nat /\ Goodbyes(c)' \in Nat
                             /\ Goodbyes(c)' >= Goodbyes(c)
  <1> USE ConnectionsAssumption
  <1> DEFINE Grow == \A c \in Conns : Goodbyes(c)' >= Goodbyes(c)
             Go == \E t \in Threads, k \in Nat : DropsGoOn(t, k)
  <1>1. StackSteps
    BY StackStepsHold
  <1>2. \A c \in Conns : Goodbyes(c) \in Nat
    BY TimesAreCounted DEF TypeOK, Goodbyes
  <1>3. ASSUME UNCHANGED told PROVE \A c \in Conns : Goodbyes(c)' = Goodbyes(c)
    BY <1>3 DEF Goodbyes, Times
  <1>4. UNCHANGED told => Grow
    BY <1>2, <1>3
  <1>5. \A t \in Threads : Len(stack[t]) \in Nat /\ DOMAIN stack[t] = 1 .. Len(stack[t])
    BY DEF TypeOK
  <1>6. ASSUME NEW t \in Threads, NEW f, Pushes(t, f),
               f.call = "drop" => /\ f.stage = "set" /\ who[f.slot] = f.conn
                                  /\ state[f.slot] \in Lively /\ UNCHANGED <<state, who>>
        PROVE  Go
    <2>1. Len(stack[t]) + 1 \in Nat /\ Len(stack[t]) + 1 \notin DOMAIN stack[t]
      BY <1>5
    <2>2. DropsGoOn(t, Len(stack[t]) + 1)
      BY <1>6, <2>1 DEF DropsGoOn, Pushes, Stay, Own
    <2>3. QED
      BY <2>1, <2>2
  <1>7. ASSUME NEW t \in Threads, NEW from, NEW to, Turns(t, from, to),
               from \in {"set", "setting"} <=> to \in {"set", "setting"}
        PROVE  Go
    <2>1. \A u \in Threads : \A d \in DOMAIN stack'[u] : Own(stack'[u][d]) = Own(stack[u][d])
      BY <1>7 DEF Turns, Own
    <2>2. DropsGoOn(t, 0)
      BY <1>7, <2>1 DEF DropsGoOn, Turns
    <2>3. QED
      BY <2>2
  <1>8. ASSUME NEW t \in Threads, Pops(t) PROVE Go
    <2>1. DropsGoOn(t, 0)
      BY <1>8 DEF DropsGoOn, Pops, Stay
    <2>2. QED
      BY <2>1
  <1>9. ASSUME stack' = stack PROVE Go
    <2>1. DropsGoOn(Main, 0)
      BY <1>9 DEF DropsGoOn
    <2>2. QED
      BY <2>1
  <1>10. ASSUME NEW s \in Slots, EngineStep(s) PROVE Go /\ Grow
    <2>1. ASSUME EnterWorld(s) PROVE Go /\ Grow
      BY <1>1, <1>4, <1>6, <1>9, <2>1 DEF StackSteps, EnterWorld, NewCall, histories
    <2>2. ASSUME NEW bot \in BOOLEAN, ClientConnects(s, bot) PROVE Go /\ Grow
      BY <1>1, <1>4, <1>6, <2>2 DEF StackSteps, ClientConnects, NewCall, histories
    <2>3. ASSUME ClientLeaves(s) PROVE Go /\ Grow
      BY <1>1, <1>4, <1>6, <2>3 DEF StackSteps, ClientLeaves, NewCall, histories, engineVars, Lively
    <2>4. ASSUME ClientGetsGamestate(s) \/ FreeZombie(s) PROVE Go /\ Grow
      BY <1>4, <1>9, <2>4 DEF ClientGetsGamestate, FreeZombie, histories
    <2>5. QED
      BY <1>10, <2>1, <2>2, <2>3, <2>4 DEF EngineStep
  <1>11. ASSUME NEW t \in Threads, NEW s \in Slots, Kick(t, s) PROVE Go /\ Grow
    BY <1>1, <1>4, <1>6, <1>11 DEF StackSteps, Kick, NewCall, histories, engineVars, Lively
  <1>12. ASSUME NEW t \in Threads, Load(t) PROVE Go /\ Grow
    BY <1>1, <1>4, <1>7, <1>12 DEF StackSteps, Load, histories
  <1>13. ASSUME NEW t \in Threads, NEW r \in BOOLEAN, HandlersReturn(t, r) PROVE Go /\ Grow
    BY <1>1, <1>4, <1>7, <1>8, <1>13 DEF StackSteps, HandlersReturn, histories
  <1>14. ASSUME NEW t \in Threads, ClearBit(t) PROVE Go /\ Grow
    BY <1>1, <1>4, <1>7, <1>14 DEF StackSteps, ClearBit
  <1>15. ASSUME FinishConnect PROVE Go /\ Grow
    BY <1>1, <1>4, <1>8, <1>15 DEF StackSteps, FinishConnect, histories
  <1>16. ASSUME NEW t \in Threads, FinishDrop(t) PROVE Go /\ Grow
    BY <1>1, <1>4, <1>8, <1>16 DEF StackSteps, FinishDrop
  <1>17. ASSUME UNCHANGED vars PROVE Go /\ Grow
    BY <1>4, <1>9, <1>17 DEF vars, histories
  <1>18. ASSUME NEW t \in Threads, SetBit(t) PROVE Go /\ Grow
    <2> DEFINE c == Top(t).conn
               e == IF Top(t).call = "connect" THEN "connect" ELSE "disconnect"
               k == Len(stack[t])
    <2>1. Turns(t, "setting", "handlers")
      BY <1>1, <1>18 DEF StackSteps
    <2>2. k \in DOMAIN stack[t] /\ k \in Nat
      BY <1>5, <2>1 DEF Turns
    <2>3. c \in Conns /\ Tell(c, e)
      BY <1>18, <2>2, FramesAreCalls DEF SetBit, Top
    <2>4. \A b \in Conns : Goodbyes(b)' = Goodbyes(b) + (IF b = c /\ e = "disconnect" THEN 1 ELSE 0)
      BY <2>3, ToldTimes DEF Goodbyes
    <2>5. Grow
      BY <1>2, <2>4
    <2>6. stack[t][k].call = "drop" =>
            \A b \in Conns : b = stack[t][k].conn => Goodbyes(b)' = Goodbyes(b) + 1
      BY <2>3, <2>4 DEF Top
    <2>7. DropsGoOn(t, k)
      <3>1. SUFFICES ASSUME NEW u \in Threads, NEW d \in DOMAIN stack'[u], stack'[u][d].call = "drop"
                     PROVE  /\ d \in DOMAIN stack[u] /\ stack[u][d].call = "drop"
                            /\ stack'[u][d].slot = stack[u][d].slot
                            /\ stack'[u][d].conn = stack[u][d].conn
                            /\ \/ Own(stack'[u][d]) = Own(stack[u][d])
                               \/ /\ u = t /\ d = k
                                  /\ Own(stack[u][d]) = 0 /\ Own(stack'[u][d]) = 1
                                  /\ \A b \in Conns : b = stack[u][d].conn => Goodbyes(b)' = Goodbyes(b) + 1
        BY DEF DropsGoOn
      <3>2. d \in DOMAIN stack[u] /\ stack[u][d].call = "drop"
            /\ stack'[u][d].slot = stack[u][d].slot /\ stack'[u][d].conn = stack[u][d].conn
        BY <2>1, <3>1 DEF Turns
      <3>3. CASE u = t /\ d = k
        <4>1. stack[u][d].stage = "setting" /\ stack'[u][d].stage = "handlers"
          BY <2>1, <3>3 DEF Turns
        <4>2. Own(stack[u][d]) = 0 /\ Own(stack'[u][d]) = 1
          BY <4>1 DEF Own
        <4>3. QED
          BY <2>6, <3>2, <3>3, <4>2
      <3>4. CASE ~(u = t /\ d = k)
        <4>1. stack'[u][d].stage = stack[u][d].stage
          BY <2>1, <3>2, <3>4 DEF Turns
        <4>2. QED
          BY <3>2, <4>1 DEF Own
      <3>5. QED
        BY <3>3, <3>4
    <2>8. QED
      BY <2>2, <2>5, <2>7
  <1>19. ASSUME NEW g \in BOOLEAN, EnteredWorld(g) PROVE Go /\ Grow
    <2>1. Go
      BY <1>1, <1>7, <1>8, <1>19 DEF StackSteps
    <2>2. CASE UNCHANGED told
      BY <1>4, <2>1, <2>2
    <2>3. CASE ~UNCHANGED told
      <3>1. Tell(Top(Main).conn, "loaded") /\ stack[Main] # <<>>
        BY <1>19, <2>3 DEF EnteredWorld, InStage
      <3>2. Top(Main).conn \in Conns
        BY <3>1, TopFrame DEF TypeOK, Call
      <3>3. \A c \in Conns : Goodbyes(c)' = Goodbyes(c) + 0
        BY <3>1, <3>2, ToldTimes DEF Goodbyes
      <3>4. QED
        BY <1>2, <2>1, <3>3
    <2>4. QED
      BY <2>2, <2>3
  <1>20. ASSUME NEW t \in Threads, ChangeMap(t) PROVE Go /\ Grow
    BY <1>4, <1>9, <1>20 DEF ChangeMap
  <1>21. Go /\ Grow
    BY <1>10, <1>11, <1>12, <1>13, <1>14, <1>15, <1>16, <1>17, <1>18, <1>19, <1>20
    DEF Next, CallStep
  <1>22. told' \in [Conns -> Seq({"connect", "loaded", "disconnect"})]
    BY TypeStep DEF TypeOK
  <1>23. \A c \in Conns : Goodbyes(c)' \in Nat
    <2>1. SUFFICES ASSUME NEW c \in Conns PROVE Times(c, "disconnect")' \in Nat
      BY DEF Goodbyes
    <2>2. told'[c] \in Seq({"connect", "loaded", "disconnect"})
      BY <1>22
    <2>3. QED
      BY <2>2, EventsAreFinite DEF Times
  <1>24. QED
    BY <1>2, <1>21, <1>23

\* Every call to drop a client announces its leaving, two of them twice.
EachAnnounces ==
  \A t \in Threads : \A d \in DOMAIN stack[t] :
    stack[t][d].call = "drop" => Goodbyes(stack[t][d].conn) >= Own(stack[t][d])

BothAnnounce ==
  \A t, u \in Threads : \A d \in DOMAIN stack[t], e \in DOMAIN stack[u] :
    /\ ~(t = u /\ d = e)
    /\ stack[t][d].call = "drop" /\ stack[u][e].call = "drop"
    /\ stack[t][d].conn = stack[u][e].conn
    => Goodbyes(stack[t][d].conn) >= Own(stack[t][d]) + Own(stack[u][e])

(* Each call to drop a client adds its own goodbye, so two add two.           *)
LEMMA AnnounceStep ==
  ASSUME TypeOK, Occupied, EachAnnounces, BothAnnounce, [Next]_vars
  PROVE  EachAnnounces' /\ BothAnnounce'
  <1>1. PICK t \in Threads, k \in Nat : DropsGoOn(t, k)
    BY DropsGoOnHolds
  <1>2. \A c \in Conns : Goodbyes(c) \in Nat /\ Goodbyes(c)' \in Nat /\ Goodbyes(c)' >= Goodbyes(c)
    BY DropsGoOnHolds
  <1>3. \A f : Own(f) \in {0, 1}
    BY DEF Own
  <1>4. \A u \in Threads : \A d \in DOMAIN stack'[u] : stack'[u][d].conn \in Conns
    <2>1. TypeOK'
      BY TypeStep
    <2>2. \A u \in Threads : \A d \in DOMAIN stack'[u] : stack'[u][d] \in Call
      BY <2>1 DEF TypeOK
    <2>3. QED
      BY <2>2 DEF Call
  <1>5. EachAnnounces'
    <2>1. SUFFICES ASSUME NEW u \in Threads, NEW d \in DOMAIN stack'[u],
                          stack'[u][d].call = "drop",
                          NEW c \in Conns, c = stack'[u][d].conn
                   PROVE  Goodbyes(c)' >= Own(stack'[u][d])
      BY <1>4 DEF EachAnnounces, Goodbyes, Times
    <2>2. CASE Own(stack'[u][d]) = 0
      BY <1>2, <2>2
    <2>3. CASE Own(stack'[u][d]) # 0
      <3>1. d \in DOMAIN stack[u] /\ stack[u][d].call = "drop" /\ stack[u][d].conn = c
            /\ \/ Own(stack'[u][d]) = Own(stack[u][d])
               \/ Own(stack'[u][d]) = 1 /\ Goodbyes(c)' = Goodbyes(c) + 1
        BY <1>1, <2>1, <2>3 DEF DropsGoOn
      <3>2. Goodbyes(c) >= Own(stack[u][d])
        BY <3>1 DEF EachAnnounces
      <3>3. QED
        BY <1>2, <1>3, <3>1, <3>2
    <2>4. QED
      BY <2>2, <2>3
  <1>6. BothAnnounce'
    <2>1. SUFFICES ASSUME NEW u \in Threads, NEW v \in Threads,
                          NEW d \in DOMAIN stack'[u], NEW e \in DOMAIN stack'[v],
                          ~(u = v /\ d = e),
                          stack'[u][d].call = "drop", stack'[v][e].call = "drop",
                          NEW c \in Conns, c = stack'[u][d].conn, c = stack'[v][e].conn
                   PROVE  Goodbyes(c)' >= Own(stack'[u][d]) + Own(stack'[v][e])
      BY <1>4 DEF BothAnnounce, Goodbyes, Times
    <2>2. CASE Own(stack'[u][d]) = 0 \/ Own(stack'[v][e]) = 0
      <3>1. Goodbyes(c)' >= Own(stack'[u][d]) /\ Goodbyes(c)' >= Own(stack'[v][e])
        BY <1>5, <2>1 DEF EachAnnounces, Goodbyes, Times
      <3>2. Own(stack'[u][d]) \in {0, 1} /\ Own(stack'[v][e]) \in {0, 1}
        BY <1>3
      <3>3. QED
        BY <1>2, <2>2, <3>1, <3>2
    <2>3. CASE Own(stack'[u][d]) # 0 /\ Own(stack'[v][e]) # 0
      <3>1. d \in DOMAIN stack[u] /\ stack[u][d].call = "drop" /\ stack[u][d].conn = c
            /\ \/ Own(stack'[u][d]) = Own(stack[u][d])
               \/ u = t /\ d = k /\ Own(stack[u][d]) = 0 /\ Own(stack'[u][d]) = 1
                  /\ Goodbyes(c)' = Goodbyes(c) + 1
        BY <1>1, <2>1, <2>3 DEF DropsGoOn
      <3>2. e \in DOMAIN stack[v] /\ stack[v][e].call = "drop" /\ stack[v][e].conn = c
            /\ \/ Own(stack'[v][e]) = Own(stack[v][e])
               \/ v = t /\ e = k /\ Own(stack[v][e]) = 0 /\ Own(stack'[v][e]) = 1
                  /\ Goodbyes(c)' = Goodbyes(c) + 1
        BY <1>1, <2>1, <2>3 DEF DropsGoOn
      <3>3. Goodbyes(c) >= Own(stack[u][d]) + Own(stack[v][e])
        BY <2>1, <3>1, <3>2 DEF BothAnnounce
      <3>4. Own(stack[u][d]) \in {0, 1} /\ Own(stack[v][e]) \in {0, 1}
        BY <1>3
      <3>5. QED
        BY <1>2, <2>1, <3>1, <3>2, <3>3, <3>4
    <2>4. QED
      BY <2>2, <2>3
  <1>7. QED
    BY <1>5, <1>6

\* A client that is gone while a call to drop it goes on was dropped by another one.
IsGone(f) == who[f.slot] # f.conn \/ state[f.slot] = "zombie"

GoneTwice ==
  \A t \in Threads : \A d \in DOMAIN stack[t] :
    stack[t][d].call = "drop" /\ IsGone(stack[t][d]) =>
      stack[t][d].conn \in hit \/ Goodbyes(stack[t][d].conn) > Own(stack[t][d])

(* Only the engine's disconnect makes a client go. *)
LEMMA OnlyDropsEnd ==
  ASSUME TypeOK, Occupied, ConnectsAlone, [Next]_vars, NEW s \in Slots,
         who[s] # 0, state[s] # "zombie", who'[s] # who[s] \/ state'[s] = "zombie"
  PROVE  \E t \in Threads : FinishDrop(t) /\ Hits(t, s)
  <1>1. ASSUME NEW r \in Slots, EngineStep(r) PROVE FALSE
    <2>1. state \in [Slots -> {"free", "connected", "primed", "active", "zombie"}]
          /\ who \in [Slots -> 0 .. MaxConns]
      BY DEF TypeOK
    <2>2. QED
      BY <1>1, <2>1 DEF EngineStep, ClientConnects, ClientGetsGamestate, EnterWorld,
                        ClientLeaves, FreeZombie, engineVars
  <1>2. ASSUME NEW t \in Threads, NEW r \in Slots, Kick(t, r) PROVE FALSE
    BY <1>2 DEF Kick, engineVars
  <1>3. ASSUME FinishConnect PROVE FALSE
    <2>1. stack[Main] # <<>> /\ Top(Main).call = "connect"
      BY <1>3 DEF FinishConnect, InStage
    <2>2. Len(stack[Main]) \in DOMAIN stack[Main] /\ Top(Main).slot \in Slots
      BY <2>1, TopFrame, ConnectionsAssumption DEF TypeOK, Call
    <2>3. state[Top(Main).slot] = "free"
      BY <2>1, <2>2, ConnectionsAssumption DEF ConnectsAlone, Top
    <2>4. s # Top(Main).slot
      BY <2>3 DEF Occupied
    <2>5. QED
      BY <1>3, <2>2, <2>4 DEF FinishConnect, TypeOK
  <1>4. ASSUME NEW t \in Threads, CallStep(t) PROVE FinishDrop(t) /\ Hits(t, s)
    <2>1. FinishDrop(t)
      BY <1>4 DEF CallStep, Load, SetBit, ClearBit, HandlersReturn, engineVars
    <2>2. PICK r \in Slots : Hits(t, r)
      BY <2>1, DropHits
    <2>3. r = s
      BY <2>2 DEF Hits
    <2>4. QED
      BY <2>1, <2>2, <2>3
  <1>5. ASSUME NEW g \in BOOLEAN, EnteredWorld(g) PROVE FALSE
    BY <1>5 DEF EnteredWorld, engineVars
  <1>6. ASSUME NEW t \in Threads, ChangeMap(t) PROVE FALSE
    BY <1>6 DEF ChangeMap
  <1>7. QED
    BY <1>1, <1>2, <1>3, <1>4, <1>5, <1>6 DEF Next, vars, engineVars

(* A client that is gone before the call that drops it came to an end was     *)
(* dropped by another call, which has announced it too, or it was hit.        *)
LEMMA GoneStep ==
  ASSUME TypeOK, Occupied, ConnectsAlone, BothAnnounce, GoneTwice, [Next]_vars
  PROVE  GoneTwice'
  <1>1. PICK t \in Threads, k \in Nat : DropsGoOn(t, k)
    BY DropsGoOnHolds
  <1>2. \A c \in Conns : Goodbyes(c) \in Nat /\ Goodbyes(c)' \in Nat /\ Goodbyes(c)' >= Goodbyes(c)
    BY DropsGoOnHolds
  <1>3. \A f : Own(f) \in {0, 1}
    BY DEF Own
  <1>4. \A u \in Threads : \A d \in DOMAIN stack'[u] :
          stack'[u][d].conn \in Conns /\ stack'[u][d].slot \in Slots
    <2>1. TypeOK'
      BY TypeStep
    <2>2. \A u \in Threads : \A d \in DOMAIN stack'[u] : stack'[u][d] \in Call
      BY <2>1 DEF TypeOK
    <2>3. QED
      BY <2>2 DEF Call
  <1>5. hit \subseteq hit'
    <2>1. ASSUME NEW u \in Threads, FinishDrop(u) PROVE hit \subseteq hit'
      BY <2>1 DEF FinishDrop
    <2>2. ASSUME NEW s \in Slots, EngineStep(s) PROVE hit \subseteq hit'
      BY <2>2 DEF EngineStep, ClientConnects, ClientGetsGamestate, EnterWorld, ClientLeaves,
                  FreeZombie, histories
    <2>3. ASSUME NEW u \in Threads, CallStep(u) PROVE hit \subseteq hit'
      BY <2>1, <2>3 DEF CallStep, Load, SetBit, ClearBit, HandlersReturn, histories
    <2>4. QED
      BY <2>2, <2>3 DEF Next, Kick, FinishConnect, EnteredWorld, ChangeMap, vars, histories
  <1>6. SUFFICES ASSUME NEW u \in Threads, NEW d \in DOMAIN stack'[u],
                        stack'[u][d].call = "drop",
                        NEW c \in Conns, c = stack'[u][d].conn,
                        NEW s \in Slots, s = stack'[u][d].slot,
                        who'[s] # c \/ state'[s] = "zombie"
                 PROVE  c \in hit' \/ Goodbyes(c)' > Own(stack'[u][d])
    BY <1>4 DEF GoneTwice, IsGone, Goodbyes, Times
  <1>7. /\ d \in DOMAIN stack[u] /\ stack[u][d].call = "drop"
        /\ stack[u][d].slot = s /\ stack[u][d].conn = c
        /\ \/ Own(stack'[u][d]) = Own(stack[u][d])
           \/ Own(stack[u][d]) = 0 /\ Own(stack'[u][d]) = 1 /\ Goodbyes(c)' = Goodbyes(c) + 1
    BY <1>1, <1>6 DEF DropsGoOn, Lively
  <1>8. CASE IsGone(stack[u][d])
    <2>1. c \in hit \/ Goodbyes(c) > Own(stack[u][d])
      BY <1>7, <1>8 DEF GoneTwice
    <2>2. QED
      BY <1>2, <1>3, <1>5, <1>7, <2>1
  <1>9. CASE ~IsGone(stack[u][d])
    <2>1. who[s] = c /\ state[s] # "zombie" /\ c # 0
      BY <1>7, <1>9, ConnectionsAssumption DEF IsGone, Conns
    <2>2. PICK v \in Threads : FinishDrop(v) /\ Hits(v, s)
      BY <1>6, <2>1, OnlyDropsEnd
    <2>3. CASE c \in hit'
      BY <2>3
    <2>4. CASE c = Top(v).conn
      <3>1. Pops(v)
        BY <2>2, StackStepsHold DEF StackSteps
      <3>2. ~(u = v /\ d = Len(stack[v])) /\ Len(stack[v]) \in DOMAIN stack[v]
            /\ stack'[u][d] = stack[u][d]
        BY <3>1 DEF Pops, Stay
      <3>3. stack[v][Len(stack[v])].call = "drop" /\ Own(stack[v][Len(stack[v])]) = 1
        BY <2>2 DEF FinishDrop, InStage, Top, Own
      <3>4. Goodbyes(c) >= Own(stack[u][d]) + 1
        BY <1>7, <2>4, <3>2, <3>3 DEF BothAnnounce, Top
      <3>5. QED
        BY <1>2, <1>3, <3>2, <3>4
    <2>5. QED
      BY <2>1, <2>2, <2>3, <2>4 DEF Hits
  <1>10. QED
    BY <1>8, <1>9

(* A disconnect on the main thread hits the client whose leaving it           *)
(* announced, or nobody; one on another thread can hit a newcomer only when   *)
(* the leaving of its own client was announced once more, or that client was  *)
(* such a newcomer itself.                                                    *)
THEOREM DropsHitWhomTheyAnnounced == Spec => []DropsWhomItAnnounced
  <1> DEFINE Inv == /\ TypeOK /\ Occupied /\ ConnectsAlone /\ MainDrops
                    /\ EachAnnounces /\ BothAnnounce /\ GoneTwice
  <1>1. Init => Inv
    <2>1. Init => ConnectsAlone /\ MainDrops /\ EachAnnounces /\ BothAnnounce /\ GoneTwice
      BY ConnectionsAssumption
      DEF Init, ConnectsAlone, MainDrops, EachAnnounces, BothAnnounce, GoneTwice
    <2>2. QED
      BY <2>1, TypeInit
  <1>2. Inv /\ [Next]_vars => Inv'
    BY TypeStep, AloneStep, MainDropsStep, AnnounceStep, GoneStep
  <1>3. Inv => DropsWhomItAnnounced
    <2>1. SUFFICES ASSUME Inv, NEW t \in Threads, NEW d \in DOMAIN stack[t],
                          stack[t][d].call = "drop",
                          who[stack[t][d].slot] \notin {stack[t][d].conn, 0}
                   PROVE  t # Main /\ (\/ Goodbyes(stack[t][d].conn) > Own(stack[t][d])
                                       \/ stack[t][d].conn \in hit)
      BY DEF DropsWhomItAnnounced, Own, Goodbyes
    <2>2. t # Main
      BY <2>1 DEF MainDrops
    <2>3. QED
      BY <2>1, <2>2 DEF GoneTwice, IsGone
  <1>4. QED
    BY <1>1, <1>2, <1>3, PTL DEF Spec

(***************************************************************************)
(* What plugins are told of a connection, and in which order.              *)
(***************************************************************************)
Unloaded(c) == Times(c, "loaded") = 0

ToldInOrder ==
  \A c \in Conns :
    /\ c > conns => told[c] = <<>>
    /\ told[c] # <<>> => told[c][1] = "connect"

\* A connection that has a slot was announced, and has no other slot.
MembersInOrder ==
  \A s \in Slots : \A c \in Conns : who[s] = c =>
    /\ c <= conns /\ told[c] # <<>>
    /\ \A r \in Slots : who[r] = c => r = s

\* One that is being connected has no slot; until its handlers run nobody was told of it.
CallsInOrder ==
  \A t \in Threads : \A d \in DOMAIN stack[t] : \A c \in Conns : stack[t][d].conn = c =>
    IF stack[t][d].call = "connect"
    THEN /\ Unloaded(c) /\ \A s \in Slots : who[s] # c
         /\ told[c] = <<>> <=> stack[t][d].stage \in {"set", "setting"}
    ELSE told[c] # <<>>

(* Events come in order because a connection has one slot at most and is not  *)
(* told of before its player_connect.                                         *)
LEMMA OrderStep ==
  ASSUME TypeOK, Occupied, LoadedHasNoBit, ConnectsAlone,
         ToldInOrder, MembersInOrder, CallsInOrder, [Next]_vars
  PROVE  ToldInOrder' /\ MembersInOrder' /\ CallsInOrder'
  <1> USE ConnectionsAssumption
  <1> DEFINE Order == ToldInOrder' /\ MembersInOrder' /\ CallsInOrder'
  <1>1. StackSteps
    BY StackStepsHold
  <1>2. conns \in Nat /\ \A c \in Conns : c \in Nat \ {0}
    BY DEF TypeOK, Conns
  <1>3. ASSUME UNCHANGED <<told, conns>> PROVE ToldInOrder'
    BY <1>3 DEF ToldInOrder
  <1>4. ASSUME UNCHANGED <<told, conns>>, \A s \in Slots : who'[s] \in {0, who[s]}
        PROVE  MembersInOrder'
    BY <1>2, <1>4 DEF MembersInOrder
  <1>5. ASSUME UNCHANGED told PROVE \A c \in Conns : Unloaded(c)' <=> Unloaded(c)
    BY <1>5 DEF Unloaded, Times
  <1>6. ASSUME UNCHANGED told, \A s \in Slots : who'[s] \in {0, who[s]},
               NEW t \in Threads, NEW from, NEW to, Turns(t, from, to),
               from \in {"set", "setting"} <=> to \in {"set", "setting"}
        PROVE  CallsInOrder'
    <2>1. SUFFICES ASSUME NEW u \in Threads, NEW d \in DOMAIN stack'[u], NEW c \in Conns,
                          stack'[u][d].conn = c
                   PROVE  IF stack'[u][d].call = "connect"
                          THEN /\ Unloaded(c) /\ \A s \in Slots : who'[s] # c
                               /\ told[c] = <<>> <=> stack'[u][d].stage \in {"set", "setting"}
                          ELSE told[c] # <<>>
      BY <1>6, <1>5 DEF CallsInOrder
    <2>2. d \in DOMAIN stack[u] /\ stack[u][d].conn = c /\ stack[u][d].call = stack'[u][d].call
          /\ (stack[u][d].stage \in {"set", "setting"} <=> stack'[u][d].stage \in {"set", "setting"})
      BY <1>6, <2>1 DEF Turns
    <2>3. QED
      BY <1>2, <1>6, <2>2 DEF CallsInOrder
  <1>7. ASSUME UNCHANGED told, \A s \in Slots : who'[s] \in {0, who[s]}, NEW t \in Threads, Pops(t)
        PROVE  CallsInOrder'
    <2>1. SUFFICES ASSUME NEW u \in Threads, NEW d \in DOMAIN stack'[u], NEW c \in Conns,
                          stack'[u][d].conn = c
                   PROVE  IF stack'[u][d].call = "connect"
                          THEN /\ Unloaded(c) /\ \A s \in Slots : who'[s] # c
                               /\ told[c] = <<>> <=> stack'[u][d].stage \in {"set", "setting"}
                          ELSE told[c] # <<>>
      BY <1>7, <1>5 DEF CallsInOrder
    <2>2. d \in DOMAIN stack[u] /\ stack'[u][d] = stack[u][d]
      BY <1>7 DEF Pops, Stay
    <2>3. QED
      BY <1>2, <1>7, <2>1, <2>2 DEF CallsInOrder
  <1>8. ASSUME UNCHANGED <<told, who>>, NEW t \in Threads, NEW f, Pushes(t, f),
               f.call # "connect", \A c \in Conns : f.conn = c => told[c] # <<>>
        PROVE  CallsInOrder'
    <2>1. SUFFICES ASSUME NEW u \in Threads, NEW d \in DOMAIN stack'[u], NEW c \in Conns,
                          stack'[u][d].conn = c
                   PROVE  IF stack'[u][d].call = "connect"
                          THEN /\ Unloaded(c) /\ \A s \in Slots : who'[s] # c
                               /\ told[c] = <<>> <=> stack'[u][d].stage \in {"set", "setting"}
                          ELSE told[c] # <<>>
      BY <1>8, <1>5 DEF CallsInOrder
    <2>2. stack'[u][d] = f \/ Stay(u, d)
      BY <1>8, <2>1 DEF Pushes
    <2>3. QED
      BY <1>8, <2>1, <2>2 DEF Stay, CallsInOrder
  <1>9. ASSUME UNCHANGED told, \A s \in Slots : who'[s] \in {0, who[s]}, stack' = stack
        PROVE  CallsInOrder'
    BY <1>2, <1>9, <1>5 DEF CallsInOrder
  \* What is told adds to what was told.
  <1>10. ASSUME NEW c \in Conns, NEW e \in {"connect", "loaded", "disconnect"}, Tell(c, e)
        PROVE  /\ told'[c] # <<>>
               /\ told'[c][1] = IF told[c] = <<>> THEN e ELSE told[c][1]
               /\ Unloaded(c)' <=> Unloaded(c) /\ e # "loaded"
               /\ \A b \in Conns \ {c} : told'[b] = told[b] /\ (Unloaded(b)' <=> Unloaded(b))
    <2>1. told[c] \in Seq({"connect", "loaded", "disconnect"}) /\ told'[c] = Append(told[c], e)
          /\ \A b \in Conns \ {c} : told'[b] = told[b]
      BY <1>10 DEF Tell, TypeOK
    <2>2. /\ Len(told[c]) \in Nat /\ DOMAIN told[c] = 1 .. Len(told[c])
          /\ DOMAIN told'[c] = 1 .. Len(told[c]) + 1
          /\ told'[c][Len(told[c]) + 1] = e
          /\ \A k \in 1 .. Len(told[c]) : told'[c][k] = told[c][k]
      BY <2>1
    <2>3. told'[c] # <<>>
      BY <2>1
    <2>4. told'[c][1] = IF told[c] = <<>> THEN e ELSE told[c][1]
      <3>1. told[c] # <<>> => Len(told[c]) >= 1
        BY <2>1, EmptySeq
      <3>2. told[c] = <<>> => Len(told[c]) = 0
        OBVIOUS
      <3>3. QED
        BY <2>2, <3>1, <3>2
    <2>5. \A b \in Conns : Times(b, "loaded") \in Nat
      BY TimesAreCounted DEF TypeOK
    <2>6. \A b \in Conns :
            Times(b, "loaded")' = Times(b, "loaded") + (IF b = c /\ e = "loaded" THEN 1 ELSE 0)
      BY <1>10, ToldTimes
    <2>7. /\ Unloaded(c)' <=> Unloaded(c) /\ e # "loaded"
          /\ \A b \in Conns \ {c} : Unloaded(b)' <=> Unloaded(b)
      BY <2>5, <2>6 DEF Unloaded
    <2>8. QED
      BY <2>1, <2>3, <2>4, <2>7
  <1>11. ASSUME stack[Main] = <<>>, NEW t \in Threads, NEW d \in DOMAIN stack[t]
         PROVE  stack[t][d].call # "connect"
    BY <1>11 DEF ConnectsAlone
  <1>12. ASSUME NEW s \in Slots, NEW bot \in BOOLEAN, ClientConnects(s, bot) PROVE Order
    <2> DEFINE f == NewCall("connect", s, conns + 1, "set")
    <2>1. Pushes(Main, f) /\ stack[Main] = <<>> /\ conns' = conns + 1 /\ UNCHANGED <<told, who, state>>
      BY <1>1, <1>12 DEF StackSteps, ClientConnects, EngineRuns, histories
    <2>2. f.call = "connect" /\ f.conn = conns + 1 /\ f.stage = "set"
      BY DEF NewCall
    <2> HIDE DEF f
    <2>3. ToldInOrder'
      BY <1>2, <2>1 DEF ToldInOrder
    <2>4. MembersInOrder'
      BY <1>2, <2>1 DEF MembersInOrder
    <2>5. \A c \in Conns : c = conns + 1 => told[c] = <<>> /\ Unloaded(c) /\ \A r \in Slots : who[r] # c
      <3>1. \A c \in Conns : told[c] = <<>> => Unloaded(c)
        <4>1. SUFFICES ASSUME NEW c \in Conns, told[c] = <<>> PROVE Times(c, "loaded") = 0
          BY DEF Unloaded
        <4>2. {k \in DOMAIN told[c] : told[c][k] = "loaded"} = {}
          BY <4>1
        <4>3. QED
          BY <4>2, FS_EmptySet DEF Times
      <3>2. QED
        BY <1>2, <3>1 DEF ToldInOrder, MembersInOrder
    <2>6. CallsInOrder'
      <3>1. SUFFICES ASSUME NEW u \in Threads, NEW d \in DOMAIN stack'[u], NEW c \in Conns,
                            stack'[u][d].conn = c
                     PROVE  IF stack'[u][d].call = "connect"
                            THEN /\ Unloaded(c) /\ \A r \in Slots : who[r] # c
                                 /\ told[c] = <<>> <=> stack'[u][d].stage \in {"set", "setting"}
                            ELSE told[c] # <<>>
        BY <1>5, <2>1 DEF CallsInOrder
      <3>2. stack'[u][d] = f \/ Stay(u, d)
        BY <2>1, <3>1 DEF Pushes
      <3>3. CASE stack'[u][d] = f
        BY <2>2, <2>5, <3>1, <3>3
      <3>4. CASE Stay(u, d)
        BY <1>11, <2>1, <3>1, <3>4 DEF Stay, CallsInOrder
      <3>5. QED
        BY <3>2, <3>3, <3>4
    <2>7. QED
      BY <2>3, <2>4, <2>6
  <1>13. ASSUME NEW s \in Slots, ClientGetsGamestate(s) \/ FreeZombie(s) PROVE Order
    <2>1. UNCHANGED <<told, conns, stack>> /\ \A r \in Slots : who'[r] \in {0, who[r]}
      BY <1>13 DEF ClientGetsGamestate, FreeZombie, TypeOK, histories
    <2>2. QED
      BY <1>3, <1>4, <1>9, <2>1
  <1>14. ASSUME NEW s \in Slots, EnterWorld(s) PROVE Order
    <2>1. UNCHANGED <<told, who, conns>>
      BY <1>14 DEF EnterWorld, histories
    <2>2. CASE stack' = stack
      BY <1>3, <1>4, <1>9, <2>1, <2>2
    <2>3. CASE state[s] = "primed" /\ Pushes(Main, NewCall("loaded", s, who[s], "spawning"))
      <3> DEFINE f == NewCall("loaded", s, who[s], "spawning")
      <3>1. f.call = "loaded" /\ f.conn = who[s] /\ Pushes(Main, f)
        BY <2>3 DEF NewCall
      <3> HIDE DEF f
      <3>2. \A c \in Conns : f.conn = c => told[c] # <<>>
        BY <3>1 DEF MembersInOrder
      <3>3. CallsInOrder'
        BY <1>8, <2>1, <3>1, <3>2
      <3>4. QED
        BY <1>3, <1>4, <2>1, <3>3
    <2>4. QED
      BY <1>1, <1>14, <2>2, <2>3 DEF StackSteps
  <1>15. ASSUME NEW t \in Threads, NEW s \in Slots, Pushes(t, NewCall("drop", s, who[s], "set")),
                UNCHANGED <<told, conns, who, state>>, state[s] # "free"
         PROVE  Order
    <2> DEFINE f == NewCall("drop", s, who[s], "set")
    <2>1. f.call = "drop" /\ f.conn = who[s]
      BY DEF NewCall
    <2>2. Pushes(t, f)
      BY <1>15
    <2> HIDE DEF f
    <2>3. \A c \in Conns : f.conn = c => told[c] # <<>>
      BY <2>1 DEF MembersInOrder
    <2>4. CallsInOrder'
      BY <1>8, <1>15, <2>1, <2>2, <2>3
    <2>5. QED
      BY <1>3, <1>4, <1>15, <2>4
  <1>16. ASSUME NEW s \in Slots, ClientLeaves(s) PROVE Order
    BY <1>1, <1>15, <1>16 DEF StackSteps, ClientLeaves, histories, engineVars
  <1>17. ASSUME NEW t \in Threads, NEW s \in Slots, Kick(t, s) PROVE Order
    BY <1>1, <1>15, <1>17 DEF StackSteps, Kick, histories, engineVars
  <1>18. ASSUME NEW t \in Threads, Load(t) \/ ClearBit(t) PROVE Order
    BY <1>1, <1>3, <1>4, <1>6, <1>18 DEF StackSteps, Load, ClearBit, histories, engineVars
  <1>19. ASSUME NEW t \in Threads, NEW r \in BOOLEAN, HandlersReturn(t, r) PROVE Order
    BY <1>1, <1>3, <1>4, <1>6, <1>7, <1>19 DEF StackSteps, HandlersReturn, histories, engineVars
  <1>20. ASSUME NEW t \in Threads, SetBit(t) PROVE Order
    <2> DEFINE k == Len(stack[t])
    <2>1. Turns(t, "setting", "handlers") /\ UNCHANGED <<who, state, conns>>
      BY <1>1, <1>20 DEF StackSteps, SetBit, engineVars
    <2>2. k \in DOMAIN stack[t] /\ stack[t][k].stage = "setting"
      BY <2>1 DEF Turns
    <2>3. PICK c \in Conns : c = stack[t][k].conn
      BY <2>2, FramesAreCalls
    <2>4. CASE stack[t][k].call = "connect"
      <3>1. told[c] = <<>> /\ Unloaded(c) /\ c = conns /\ \A s \in Slots : who[s] # c
        BY <2>2, <2>3, <2>4 DEF CallsInOrder, ConnectsAlone
      <3>2. Tell(c, "connect")
        BY <1>20, <2>3, <2>4 DEF SetBit, Top
      <3>3. /\ told'[c] # <<>> /\ told'[c][1] = "connect" /\ Unloaded(c)'
            /\ \A b \in Conns \ {c} : told'[b] = told[b] /\ (Unloaded(b)' <=> Unloaded(b))
        BY <1>10, <3>1, <3>2
      <3>4. ToldInOrder'
        <4>1. \A b \in Conns : b = c => ~(b > conns)
          BY <1>2, <3>1
        <4>2. QED
          BY <2>1, <3>3, <4>1 DEF ToldInOrder
      <3>5. MembersInOrder'
        BY <2>1, <3>1, <3>3 DEF MembersInOrder
      <3>6. CallsInOrder'
        <4>1. SUFFICES ASSUME NEW u \in Threads, NEW d \in DOMAIN stack'[u], NEW b \in Conns,
                              stack'[u][d].conn = b
                       PROVE  IF stack'[u][d].call = "connect"
                              THEN /\ Unloaded(b)' /\ \A s \in Slots : who[s] # b
                                   /\ told'[b] = <<>> <=> stack'[u][d].stage \in {"set", "setting"}
                              ELSE told'[b] # <<>>
          BY <2>1 DEF CallsInOrder
        <4>2. d \in DOMAIN stack[u] /\ stack[u][d].conn = b /\ stack[u][d].call = stack'[u][d].call
          BY <2>1, <4>1 DEF Turns
        <4>3. CASE stack'[u][d].call = "connect"
          <5>1. u = t /\ d = k
            BY <2>2, <2>4, <4>2, <4>3 DEF ConnectsAlone
          <5>2. stack'[u][d].stage = "handlers" /\ b = c
            BY <2>1, <2>3, <4>2, <5>1 DEF Turns
          <5>3. QED
            BY <3>1, <3>3, <4>3, <5>2
        <4>4. CASE stack'[u][d].call # "connect"
          BY <3>3, <4>2, <4>4 DEF CallsInOrder
        <4>5. QED
          BY <4>3, <4>4
      <3>7. QED
        BY <3>4, <3>5, <3>6
    <2>5. CASE stack[t][k].call # "connect"
      <3>1. told[c] # <<>>
        BY <2>2, <2>3, <2>5 DEF CallsInOrder
      <3>2. Tell(c, "disconnect")
        BY <1>20, <2>3, <2>5 DEF SetBit, Top
      <3>3. /\ \A b \in Conns : told'[b] = <<>> <=> told[b] = <<>>
            /\ \A b \in Conns : Unloaded(b)' <=> Unloaded(b)
            /\ told'[c][1] = told[c][1]
            /\ \A b \in Conns \ {c} : told'[b] = told[b]
        BY <1>10, <3>1, <3>2
      <3>4. ToldInOrder'
        <4>1. told[c][1] = "connect" /\ ~(c > conns)
          BY <3>1 DEF ToldInOrder
        <4>2. QED
          BY <2>1, <3>3, <4>1 DEF ToldInOrder
      <3>5. MembersInOrder'
        BY <2>1, <3>3 DEF MembersInOrder
      <3>6. CallsInOrder'
        <4>1. SUFFICES ASSUME NEW u \in Threads, NEW d \in DOMAIN stack'[u], NEW b \in Conns,
                              stack'[u][d].conn = b
                       PROVE  IF stack'[u][d].call = "connect"
                              THEN /\ Unloaded(b) /\ \A s \in Slots : who[s] # b
                                   /\ told[b] = <<>> <=> stack'[u][d].stage \in {"set", "setting"}
                              ELSE told[b] # <<>>
          BY <2>1, <3>3 DEF CallsInOrder
        <4>2. d \in DOMAIN stack[u] /\ stack[u][d].conn = b /\ stack[u][d].call = stack'[u][d].call
              /\ (stack'[u][d].stage = stack[u][d].stage \/ (u = t /\ d = k))
          BY <2>1, <4>1 DEF Turns
        <4>3. CASE stack'[u][d].call = "connect"
          BY <2>5, <4>2, <4>3 DEF CallsInOrder
        <4>4. CASE stack'[u][d].call # "connect"
          BY <4>2, <4>4 DEF CallsInOrder
        <4>5. QED
          BY <4>3, <4>4
      <3>7. QED
        BY <3>4, <3>5, <3>6
    <2>6. QED
      BY <2>4, <2>5
  <1>21. ASSUME NEW t \in Threads, FinishDrop(t) PROVE Order
    <2>1. Pops(t) /\ UNCHANGED <<told, conns>>
      BY <1>1, <1>21 DEF StackSteps, FinishDrop
    <2>2. CASE UNCHANGED <<state, who>>
      BY <1>3, <1>4, <1>7, <2>1, <2>2
    <2>3. ASSUME NEW s \in Slots, Hits(t, s) PROVE Order
      <3>1. \A r \in Slots : who'[r] \in {0, who[r]}
        BY <2>3 DEF Hits
      <3>2. QED
        BY <1>3, <1>4, <1>7, <2>1, <3>1
    <2>4. QED
      BY <1>21, <2>2, <2>3, DropHits
  <1>22. ASSUME FinishConnect PROVE Order
    <2>1. Pops(Main) /\ UNCHANGED <<told, conns>>
      BY <1>1, <1>22 DEF StackSteps, FinishConnect, histories
    <2>2. CASE UNCHANGED <<state, who>>
      BY <1>3, <1>4, <1>7, <2>1, <2>2
    <2>3. CASE /\ state' = [state EXCEPT ![Top(Main).slot] = "connected"]
               /\ who' = [who EXCEPT ![Top(Main).slot] = Top(Main).conn]
      <3>1. Len(stack[Main]) \in DOMAIN stack[Main]
        BY <2>1 DEF Pops
      <3>2. PICK s \in Slots, c \in Conns : s = Top(Main).slot /\ c = Top(Main).conn
        BY <3>1, FramesAreCalls DEF Top
      <3>3. Top(Main).call = "connect" /\ Top(Main).stage = "engine"
        BY <1>22 DEF FinishConnect, InStage
      <3>4. Unloaded(c) /\ told[c] # <<>> /\ c = conns /\ (\A r \in Slots : who[r] # c)
        BY <3>1, <3>2, <3>3 DEF CallsInOrder, ConnectsAlone, Top
      <3>5. state'[s] = "connected" /\ who'[s] = c
            /\ \A r \in Slots \ {s} : state'[r] = state[r] /\ who'[r] = who[r]
        BY <2>3, <3>2 DEF TypeOK
      <3>6. MembersInOrder'
        <4>1. told' = told
          BY <2>1
        <4>2. c <= conns
          BY <1>2, <3>4
        <4>3. QED
          BY <2>1, <3>4, <3>5, <4>1, <4>2 DEF MembersInOrder
      <3>7. CallsInOrder'
        <4>1. \A u \in Threads : \A d \in DOMAIN stack'[u] :
                d \in DOMAIN stack[u] /\ stack'[u][d] = stack[u][d]
                /\ ~(u = Main /\ d = Len(stack[Main]))
          BY <2>1 DEF Pops, Stay
        <4>2. \A u \in Threads : \A d \in DOMAIN stack'[u] : stack[u][d].call # "connect"
          BY <3>1, <3>3, <4>1 DEF ConnectsAlone, Top
        <4>3. QED
          BY <2>1, <4>1, <4>2 DEF CallsInOrder
      <3>8. QED
        BY <1>3, <2>1, <3>6, <3>7
    <2>4. QED
      BY <1>22, <2>2, <2>3 DEF FinishConnect
  <1>23. CASE UNCHANGED vars
    BY <1>3, <1>4, <1>9, <1>23 DEF vars, engineVars, histories
  <1>24. ASSUME NEW t \in Threads, ChangeMap(t) PROVE Order
    BY <1>3, <1>4, <1>9, <1>24 DEF ChangeMap
  <1>25. ASSUME NEW g \in BOOLEAN, EnteredWorld(g) PROVE Order
    <2>1. UNCHANGED <<who, conns>>
      BY <1>25 DEF EnteredWorld, engineVars
    <2>2. CASE UNCHANGED told /\ Pops(Main)
      BY <1>3, <1>4, <1>7, <2>1, <2>2
    <2>3. CASE UNCHANGED told /\ Turns(Main, "spawning", "handlers")
      BY <1>3, <1>4, <1>6, <2>1, <2>3
    <2>4. CASE ~UNCHANGED told
      <3>1. Tell(Top(Main).conn, "loaded")
        BY <1>25, <2>4 DEF EnteredWorld
      <3>2. Len(stack[Main]) \in DOMAIN stack[Main] /\ Top(Main).stage = "spawning"
        BY <1>25, TopFrame DEF EnteredWorld, InStage, TypeOK
      <3>3. PICK c \in Conns : c = Top(Main).conn
        BY <3>2, FramesAreCalls DEF Top
      <3>4. Len(stack[Main]) = 1 /\ stack[Main][1].call = "loaded" /\ stack[Main][1].conn = c
        <4>1. stack[Main][Len(stack[Main])].stage = "spawning"
          BY <3>2 DEF Top
        <4>2. Len(stack[Main]) = 1 /\ stack[Main][Len(stack[Main])].call = "loaded"
          BY <3>2, <4>1 DEF LoadedHasNoBit
        <4>3. QED
          BY <3>3, <4>2 DEF Top
      <3>5. told[c] # <<>>
        BY <3>2, <3>4 DEF CallsInOrder
      <3>6. /\ told'[c] # <<>> /\ told'[c][1] = told[c][1]
            /\ \A b \in Conns \ {c} : told'[b] = told[b]
        BY <1>10, <3>1, <3>3, <3>5
      <3>7. ToldInOrder'
        <4>1. told[c][1] = "connect" /\ ~(c > conns)
          BY <3>5 DEF ToldInOrder
        <4>2. QED
          BY <2>1, <3>6, <4>1 DEF ToldInOrder
      <3>8. \A b \in Conns : told[b] # <<>> => told'[b] # <<>>
        BY <3>6
      <3>9. MembersInOrder'
        BY <2>1, <3>8 DEF MembersInOrder
      \* A client that connects would be where the one that enters the world is.
      <3>10. \A u \in Threads : \A d \in DOMAIN stack[u] : stack[u][d].call # "connect"
        BY <3>4 DEF ConnectsAlone
      <3>11. \A u \in Threads : \A d \in DOMAIN stack'[u] :
               /\ d \in DOMAIN stack[u] /\ stack'[u][d].call = stack[u][d].call
               /\ stack'[u][d].conn = stack[u][d].conn
        BY <1>1, <1>25 DEF StackSteps, Turns, Pops, Stay
      <3>12. CallsInOrder'
        BY <3>8, <3>10, <3>11 DEF CallsInOrder
      <3>13. QED
        BY <3>7, <3>9, <3>12
    <2>5. QED
      BY <1>1, <1>25, <2>2, <2>3, <2>4 DEF StackSteps
  <1>26. QED
    BY <1>12, <1>13, <1>14, <1>16, <1>17, <1>18, <1>19, <1>20, <1>21, <1>22, <1>23, <1>24, <1>25
    DEF Next, EngineStep, CallStep

\* A client that the engine is letting into the world, for which player_loaded is yet to come.
Spawning(c) ==
  \E t \in Threads : \E d \in DOMAIN stack[t] :
    stack[t][d].stage = "spawning" /\ stack[t][d].conn = c

Loading(c) == \E s \in Slots : who[s] = c /\ state[s] \in {"connected", "primed"}

One(p) == IF p THEN 1 ELSE 0

\* The player_loaded that were, and those that are to come without another change of map.
LoadsAreCounted ==
  \A c \in Conns : Times(c, "loaded") + One(Spawning(c)) + One(Loading(c)) <= 1 + maps[c]

(* A client loads when it connects and at a change of map; entering the world *)
(* takes the load, and player_loaded takes the entrance.                      *)
LEMMA LoadsStep ==
  ASSUME TypeOK, Occupied, LoadedHasNoBit, ConnectsAlone, MembersInOrder, CallsInOrder,
         LoadsAreCounted, [Next]_vars
  PROVE  LoadsAreCounted'
  <1> USE ConnectionsAssumption
  <1>1. StackSteps
    BY StackStepsHold
  <1>2. \A c \in Conns : maps[c] \in Nat
    BY DEF TypeOK
  <1>3. \A c \in Conns : Times(c, "loaded") \in Nat
    BY TimesAreCounted DEF TypeOK
  <1>4. ASSUME UNCHANGED told PROVE \A c \in Conns : Times(c, "loaded")' = Times(c, "loaded")
    BY <1>4 DEF Times
  <1>5. ASSUME NEW t \in Threads, NEW f, Pushes(t, f), f.stage # "spawning"
        PROVE  \A c \in Conns : Spawning(c)' => Spawning(c)
    BY <1>5 DEF Pushes, Stay, Spawning
  <1>6. ASSUME NEW t \in Threads, NEW from, NEW to, Turns(t, from, to), to # "spawning"
        PROVE  \A c \in Conns : Spawning(c)' => Spawning(c)
    <2>1. \A u \in Threads : \A d \in DOMAIN stack'[u] : stack'[u][d].stage = "spawning" =>
            /\ d \in DOMAIN stack[u] /\ stack[u][d].stage = "spawning"
            /\ stack[u][d].conn = stack'[u][d].conn
      BY <1>6 DEF Turns
    <2>2. QED
      BY <2>1 DEF Spawning
  <1>7. ASSUME NEW t \in Threads, Pops(t) PROVE \A c \in Conns : Spawning(c)' => Spawning(c)
    BY <1>7 DEF Pops, Stay, Spawning
  <1>8. ASSUME stack' = stack PROVE \A c \in Conns : Spawning(c)' => Spawning(c)
    BY <1>8 DEF Spawning
  <1>9. ASSUME UNCHANGED <<state, who>> PROVE \A c \in Conns : Loading(c)' => Loading(c)
    BY <1>9 DEF Loading
  \* Every step but those of a client that loads or enters the world.
  <1>10. ASSUME UNCHANGED maps,
                \A c \in Conns : Times(c, "loaded")' = Times(c, "loaded"),
                \A c \in Conns : Spawning(c)' => Spawning(c),
                \A c \in Conns : Loading(c)' => Loading(c)
         PROVE  LoadsAreCounted'
    <2>1. SUFFICES ASSUME NEW c \in Conns
                   PROVE  Times(c, "loaded")' + One(Spawning(c)') + One(Loading(c)') <= 1 + maps'[c]
      BY DEF LoadsAreCounted, One
    <2>2. Times(c, "loaded")' = Times(c, "loaded") /\ maps'[c] = maps[c]
      BY <1>10
    <2>3. Times(c, "loaded") + One(Spawning(c)) + One(Loading(c)) <= 1 + maps[c]
      BY DEF LoadsAreCounted
    <2>4. One(Spawning(c)') <= One(Spawning(c)) /\ One(Loading(c)') <= One(Loading(c))
      BY <1>10 DEF One
    <2>5. One(Spawning(c)) \in Nat /\ One(Loading(c)) \in Nat
          /\ One(Spawning(c)') \in Nat /\ One(Loading(c)') \in Nat
      BY DEF One
    <2>6. QED
      BY <1>2, <1>3, <2>2, <2>3, <2>4, <2>5
  <1>11. ASSUME NEW s \in Slots, NEW bot \in BOOLEAN, ClientConnects(s, bot)
         PROVE  LoadsAreCounted'
    <2> DEFINE f == NewCall("connect", s, conns + 1, "set")
    <2>1. Pushes(Main, f) /\ f.stage # "spawning"
      BY <1>1, <1>11 DEF StackSteps, NewCall
    <2>2. UNCHANGED <<told, maps, state, who>>
      BY <1>11 DEF ClientConnects, histories
    <2> HIDE DEF f
    <2>3. QED
      BY <1>4, <1>5, <1>9, <1>10, <2>1, <2>2
  <1>12. ASSUME NEW s \in Slots, ClientGetsGamestate(s) \/ FreeZombie(s) PROVE LoadsAreCounted'
    <2>1. UNCHANGED <<told, maps, stack>>
      BY <1>12 DEF ClientGetsGamestate, FreeZombie, histories
    <2>2. \A r \in Slots, c \in Conns :
            who'[r] = c /\ state'[r] \in {"connected", "primed"} =>
              who[r] = c /\ state[r] \in {"connected", "primed"}
      BY <1>12 DEF ClientGetsGamestate, FreeZombie, TypeOK, Conns
    <2>3. \A c \in Conns : Loading(c)' => Loading(c)
      BY <2>2 DEF Loading
    <2>4. QED
      BY <1>4, <1>8, <1>10, <2>1, <2>3
  <1>13. ASSUME NEW s \in Slots, EnterWorld(s) PROVE LoadsAreCounted'
    <2>1. /\ UNCHANGED <<told, maps, who>> /\ stack[Main] = <<>>
          /\ state' = [state EXCEPT ![s] = "active"]
      BY <1>13 DEF EnterWorld, EngineRuns, histories
    <2>2. \A r \in Slots : state'[r] \in {"connected", "primed"} =>
            r # s /\ state[r] \in {"connected", "primed"}
      BY <2>1 DEF TypeOK
    <2>3. \A c \in Conns : Loading(c)' => Loading(c)
      BY <2>1, <2>2 DEF Loading
    <2>4. CASE stack' = stack
      BY <1>4, <1>8, <1>10, <2>1, <2>3, <2>4
    <2>5. CASE state[s] = "primed" /\ Pushes(Main, NewCall("loaded", s, who[s], "spawning"))
      <3> DEFINE f == NewCall("loaded", s, who[s], "spawning")
      <3>1. f.conn = who[s] /\ Pushes(Main, f)
        BY <2>5 DEF NewCall
      <3> HIDE DEF f
      <3>2. \A c \in Conns : ~Spawning(c)
        BY <2>1 DEF Spawning, LoadedHasNoBit
      <3>3. \A u \in Threads : \A d \in DOMAIN stack'[u] : Stay(u, d) \/ stack'[u][d] = f
        BY <3>1 DEF Pushes
      <3>4. \A c \in Conns : Spawning(c)' => c = who[s]
        BY <3>1, <3>2, <3>3 DEF Spawning, Stay
      <3>5. \A c \in Conns : c = who[s] => Loading(c) /\ ~Loading(c)'
        <4>1. SUFFICES ASSUME NEW c \in Conns, c = who[s] PROVE Loading(c) /\ ~Loading(c)'
          OBVIOUS
        <4>2. \A r \in Slots : who[r] = c => r = s
          BY <4>1 DEF MembersInOrder
        <4>3. QED
          BY <2>1, <2>2, <2>5, <4>1, <4>2 DEF Loading
      <3>6. SUFFICES ASSUME NEW c \in Conns
                     PROVE  Times(c, "loaded") + One(Spawning(c)') + One(Loading(c)')
                              <= 1 + maps[c]
        BY <1>4, <2>1 DEF LoadsAreCounted, One
      <3>7. Times(c, "loaded") + One(Spawning(c)) + One(Loading(c)) <= 1 + maps[c]
        BY DEF LoadsAreCounted
      <3>8. One(Spawning(c)') + One(Loading(c)') <= One(Spawning(c)) + One(Loading(c))
        BY <2>3, <3>4, <3>5 DEF One
      <3>9. One(Spawning(c)) \in Nat /\ One(Loading(c)) \in Nat
            /\ One(Spawning(c)') \in Nat /\ One(Loading(c)') \in Nat
        BY DEF One
      <3>10. QED
        BY <1>2, <1>3, <3>7, <3>8, <3>9
    <2>6. QED
      BY <1>1, <1>13, <2>4, <2>5 DEF StackSteps
  <1>14. ASSUME NEW t \in Threads, NEW s \in Slots, (t = Main /\ ClientLeaves(s)) \/ Kick(t, s)
         PROVE  LoadsAreCounted'
    <2> DEFINE f == NewCall("drop", s, who[s], "set")
    <2>1. Pushes(t, f) /\ f.stage # "spawning"
      BY <1>1, <1>14 DEF StackSteps, NewCall
    <2>2. UNCHANGED <<told, maps, state, who>>
      BY <1>14 DEF ClientLeaves, Kick, histories, engineVars
    <2> HIDE DEF f
    <2>3. QED
      BY <1>4, <1>5, <1>9, <1>10, <2>1, <2>2
  <1>15. ASSUME NEW t \in Threads, Load(t) \/ (\E r \in BOOLEAN : HandlersReturn(t, r))
         PROVE  LoadsAreCounted'
    <2>1. \A c \in Conns : Spawning(c)' => Spawning(c)
      BY <1>1, <1>6, <1>7, <1>15 DEF StackSteps
    <2>2. UNCHANGED <<told, maps, state, who>>
      BY <1>15 DEF Load, HandlersReturn, histories, engineVars
    <2>3. QED
      BY <1>4, <1>9, <1>10, <2>1, <2>2
  <1>16. ASSUME NEW t \in Threads, ClearBit(t) PROVE LoadsAreCounted'
    <2>1. \A c \in Conns : Spawning(c)' => Spawning(c)
      BY <1>1, <1>6, <1>16 DEF StackSteps
    <2>2. UNCHANGED <<told, maps, state, who>>
      BY <1>16 DEF ClearBit, engineVars
    <2>3. QED
      BY <1>4, <1>9, <1>10, <2>1, <2>2
  <1>17. ASSUME NEW t \in Threads, SetBit(t) PROVE LoadsAreCounted'
    <2>1. \A c \in Conns : Spawning(c)' => Spawning(c)
      BY <1>1, <1>6, <1>17 DEF StackSteps
    <2>2. UNCHANGED <<maps, state, who>>
      BY <1>17 DEF SetBit, engineVars
    <2>3. \E e \in {"connect", "disconnect"} : Tell(Top(t).conn, e)
      BY <1>17 DEF SetBit
    <2>4. Top(t).conn \in Conns
      BY <1>17, TopFrame DEF SetBit, InStage, TypeOK, Call
    <2>5. \A c \in Conns : Times(c, "loaded")' = Times(c, "loaded") + 0
      BY <2>3, <2>4, ToldTimes
    <2>6. QED
      BY <1>3, <1>9, <1>10, <2>1, <2>2, <2>5
  <1>18. ASSUME NEW t \in Threads, FinishDrop(t) PROVE LoadsAreCounted'
    <2>1. Pops(t) /\ UNCHANGED <<told, maps>>
      BY <1>1, <1>18 DEF StackSteps, FinishDrop
    <2>2. ASSUME NEW s \in Slots, Hits(t, s) PROVE \A c \in Conns : Loading(c)' => Loading(c)
      BY <2>2 DEF Hits, Loading
    <2>3. \A c \in Conns : Loading(c)' => Loading(c)
      BY <1>9, <1>18, <2>2, DropHits
    <2>4. QED
      BY <1>4, <1>7, <1>10, <2>1, <2>3
  <1>19. ASSUME FinishConnect PROVE LoadsAreCounted'
    <2>1. Pops(Main) /\ UNCHANGED <<told, maps>>
      BY <1>1, <1>19 DEF StackSteps, FinishConnect, histories
    <2>2. CASE UNCHANGED <<state, who>>
      BY <1>4, <1>7, <1>9, <1>10, <2>1, <2>2
    <2>3. CASE /\ state' = [state EXCEPT ![Top(Main).slot] = "connected"]
               /\ who' = [who EXCEPT ![Top(Main).slot] = Top(Main).conn]
      <3>1. Len(stack[Main]) \in DOMAIN stack[Main]
        BY <2>1 DEF Pops
      <3>2. PICK s \in Slots, b \in Conns : s = Top(Main).slot /\ b = Top(Main).conn
        BY <3>1, FramesAreCalls DEF Top
      <3>3. Top(Main).call = "connect"
        BY <1>19 DEF FinishConnect
      <3>4. Unloaded(b) /\ Len(stack[Main]) = 1
        BY <3>1, <3>2, <3>3 DEF CallsInOrder, ConnectsAlone, Top
      \* A client that enters the world would be where the one that connects is.
      <3>5. \A c \in Conns : ~Spawning(c)
        BY <3>1, <3>3, <3>4 DEF Spawning, LoadedHasNoBit, Top
      <3>6. \A c \in Conns : ~Spawning(c)'
        BY <1>7, <2>1, <3>5
      <3>7. \A c \in Conns \ {b} : Loading(c)' => Loading(c)
        BY <2>3, <3>2 DEF TypeOK, Loading
      <3>8. SUFFICES ASSUME NEW c \in Conns
                     PROVE  Times(c, "loaded") + One(Spawning(c)') + One(Loading(c)')
                              <= 1 + maps[c]
        BY <1>4, <2>1 DEF LoadsAreCounted, One
      <3>9. Times(c, "loaded") + One(Spawning(c)) + One(Loading(c)) <= 1 + maps[c]
        BY DEF LoadsAreCounted
      <3>10. One(Spawning(c)') = 0 /\ One(Loading(c)') \in {0, 1}
             /\ One(Spawning(c)) = 0 /\ One(Loading(c)) \in {0, 1}
        BY <3>5, <3>6 DEF One
      <3>11. CASE c = b
        BY <1>2, <3>4, <3>10, <3>11 DEF Unloaded
      <3>12. CASE c # b
        <4>1. One(Loading(c)') <= One(Loading(c))
          BY <3>7, <3>12 DEF One
        <4>2. QED
          BY <1>2, <1>3, <3>9, <3>10, <4>1
      <3>13. QED
        BY <3>11, <3>12
    <2>4. QED
      BY <1>19, <2>2, <2>3 DEF FinishConnect
  <1>20. ASSUME NEW g \in BOOLEAN, EnteredWorld(g) PROVE LoadsAreCounted'
    <2>1. UNCHANGED <<state, who, maps>>
      BY <1>20 DEF EnteredWorld, engineVars
    <2>2. \A c \in Conns : Spawning(c)' => Spawning(c)
      BY <1>1, <1>6, <1>7, <1>20 DEF StackSteps
    <2>3. CASE UNCHANGED told
      BY <1>4, <1>9, <1>10, <2>1, <2>2, <2>3
    <2>4. CASE ~UNCHANGED told
      <3>1. Tell(Top(Main).conn, "loaded") /\ SetTop(Main, [Top(Main) EXCEPT !.stage = "handlers"])
        BY <1>20, <2>4 DEF EnteredWorld
      <3>2. Len(stack[Main]) \in DOMAIN stack[Main] /\ Top(Main).stage = "spawning"
        BY <1>20, TopFrame DEF EnteredWorld, InStage, TypeOK
      <3>3. PICK b \in Conns : b = Top(Main).conn
        BY <3>2, FramesAreCalls DEF Top
      <3>4. Spawning(b)
        BY <3>2, <3>3 DEF Spawning, Top
      \* Only one client enters the world at a time.
      <3>5. Len(stack[Main]) = 1
        BY <3>2 DEF LoadedHasNoBit, Top
      <3>6. \A u \in Threads : \A d \in DOMAIN stack'[u] : stack'[u][d].stage # "spawning"
        <4>1. Turns(Main, "spawning", "handlers") \/ Pops(Main)
          BY <1>1, <1>20 DEF StackSteps
        <4>2. \A u \in Threads : \A d \in DOMAIN stack[u] :
                stack[u][d].stage = "spawning" => u = Main /\ d = 1
          BY DEF LoadedHasNoBit
        <4>3. CASE Pops(Main)
          BY <3>5, <4>2, <4>3 DEF Pops, Stay
        <4>4. CASE Turns(Main, "spawning", "handlers")
          <5>1. \A u \in Threads : \A d \in DOMAIN stack'[u] :
                  stack'[u][d].stage = "spawning" =>
                    d \in DOMAIN stack[u] /\ stack[u][d].stage = "spawning"
            BY <4>4 DEF Turns
          <5>2. stack'[Main][1].stage = "handlers"
            BY <3>5, <4>4 DEF Turns
          <5>3. QED
            BY <4>2, <5>1, <5>2
        <4>5. QED
          BY <4>1, <4>3, <4>4
      <3>7. \A c \in Conns : ~Spawning(c)'
        BY <3>6 DEF Spawning
      <3>8. \A c \in Conns :
              Times(c, "loaded")' = Times(c, "loaded") + (IF c = b THEN 1 ELSE 0)
        BY <3>1, <3>3, ToldTimes
      <3>9. SUFFICES ASSUME NEW c \in Conns
                     PROVE  Times(c, "loaded")' + One(Spawning(c)') + One(Loading(c)')
                              <= 1 + maps[c]
        BY <2>1 DEF LoadsAreCounted, One
      <3>10. Times(c, "loaded") + One(Spawning(c)) + One(Loading(c)) <= 1 + maps[c]
        BY DEF LoadsAreCounted
      <3>11. One(Spawning(c)') = 0 /\ One(Loading(c)') <= One(Loading(c))
             /\ One(Loading(c)') \in Nat /\ One(Loading(c)) \in Nat
             /\ One(Spawning(c)) \in Nat /\ (c = b => One(Spawning(c)) = 1)
        BY <1>9, <2>1, <3>4, <3>7 DEF One
      <3>12. QED
        BY <1>2, <1>3, <3>8, <3>10, <3>11
    <2>5. QED
      BY <2>3, <2>4
  <1>21. ASSUME NEW t \in Threads, ChangeMap(t) PROVE LoadsAreCounted'
    <2> DEFINE reloading == {s \in Slots : state[s] \in {"connected", "primed", "active"}
                                             /\ who[s] \notin bots}
               staying == {who[s] : s \in reloading}
    <2>1. /\ state' = [s \in Slots |-> IF s \in reloading THEN "connected" ELSE state[s]]
          /\ maps' = [c \in Conns |-> IF c \in staying THEN maps[c] + 1 ELSE maps[c]]
          /\ UNCHANGED <<who, stack, told>>
      BY <1>21 DEF ChangeMap
    <2>2. \A s \in reloading : who[s] \in staying
      OBVIOUS
    <2> HIDE DEF reloading, staying
    <2>3. SUFFICES ASSUME NEW c \in Conns
                   PROVE  Times(c, "loaded") + One(Spawning(c)') + One(Loading(c)') <= 1 + maps'[c]
      BY <1>4, <2>1 DEF LoadsAreCounted, One
    <2>4. Times(c, "loaded") + One(Spawning(c)) + One(Loading(c)) <= 1 + maps[c]
      BY DEF LoadsAreCounted
    <2>5. One(Spawning(c)') <= One(Spawning(c))
          /\ One(Spawning(c)') \in Nat /\ One(Spawning(c)) \in Nat
          /\ One(Loading(c)') \in {0, 1} /\ One(Loading(c)) \in {0, 1}
      BY <1>8, <2>1 DEF One
    <2>6. CASE c \in staying
      <3>1. maps'[c] = maps[c] + 1
        BY <2>1, <2>6
      <3>2. QED
        BY <1>2, <1>3, <2>4, <2>5, <3>1
    <2>7. CASE c \notin staying
      <3>1. maps'[c] = maps[c]
        BY <2>1, <2>7
      <3>2. Loading(c)' => Loading(c)
        BY <2>1, <2>2, <2>7 DEF Loading
      <3>3. One(Loading(c)') <= One(Loading(c))
        BY <3>2 DEF One
      <3>4. QED
        BY <1>2, <1>3, <2>4, <2>5, <3>1, <3>3
    <2>8. QED
      BY <2>6, <2>7
  <1>22. CASE UNCHANGED vars
    BY <1>4, <1>8, <1>9, <1>10, <1>22 DEF vars, engineVars, histories
  <1>23. QED
    BY <1>11, <1>12, <1>13, <1>14, <1>15, <1>16, <1>17, <1>18, <1>19, <1>20, <1>21, <1>22
    DEF Next, EngineStep, CallStep

(* player_loaded comes at most once for every time a client loads, when it    *)
(* connects and at each change of map, and after its player_connect: for any  *)
(* number of clients, kicks, changes of map and threads.                      *)
THEOREM LoadedOnceForEveryMap == Spec => []LoadedOncePerMap
  <1> DEFINE Inv == /\ TypeOK /\ Occupied /\ LoadedHasNoBit /\ ConnectsAlone
                    /\ ToldInOrder /\ MembersInOrder /\ CallsInOrder /\ LoadsAreCounted
  <1>1. Init => Inv
    <2>1. Init => LoadedHasNoBit /\ ConnectsAlone /\ CallsInOrder
      BY DEF Init, LoadedHasNoBit, ConnectsAlone, CallsInOrder
    <2>2. Init => ToldInOrder /\ MembersInOrder
      BY ConnectionsAssumption DEF Init, ToldInOrder, MembersInOrder, Conns
    <2>3. ASSUME Init, NEW c \in Conns
          PROVE  Times(c, "loaded") + One(Spawning(c)) + One(Loading(c)) <= 1 + maps[c]
      <3>1. {k \in DOMAIN told[c] : told[c][k] = "loaded"} = {}
        BY <2>3 DEF Init
      <3>2. Times(c, "loaded") = 0
        BY <3>1, FS_EmptySet DEF Times
      <3>3. ~Spawning(c) /\ ~Loading(c) /\ maps[c] = 0
        BY <2>3 DEF Init, Spawning, Loading
      <3>4. QED
        BY <3>2, <3>3 DEF One
    <2>4. QED
      BY <2>1, <2>2, <2>3, TypeInit DEF LoadsAreCounted
  <1>2. Inv /\ [Next]_vars => Inv'
    BY TypeStep, LoadedStep, AloneStep, OrderStep, LoadsStep
  <1>3. Inv => LoadedOncePerMap
    <2>1. SUFFICES ASSUME Inv, NEW c \in Conns
                   PROVE  /\ Times(c, "loaded") <= 1 + maps[c]
                          /\ \A k \in DOMAIN told[c] :
                               told[c][k] = "loaded" => \E j \in 1 .. k - 1 : told[c][j] = "connect"
      BY DEF LoadedOncePerMap
    <2>2. told[c] \in Seq({"connect", "loaded", "disconnect"}) /\ maps[c] \in Nat
      BY <2>1 DEF TypeOK
    <2>3. Times(c, "loaded") <= 1 + maps[c]
      <3>1. Times(c, "loaded") \in Nat
        BY <2>2, EventsAreFinite DEF Times
      <3>2. One(Spawning(c)) \in Nat /\ One(Loading(c)) \in Nat
        BY DEF One
      <3>3. Times(c, "loaded") + One(Spawning(c)) + One(Loading(c)) <= 1 + maps[c]
        BY <2>1 DEF LoadsAreCounted
      <3>4. QED
        BY <2>2, <3>1, <3>2, <3>3
    <2>4. ASSUME NEW k \in DOMAIN told[c], told[c][k] = "loaded"
          PROVE  \E j \in 1 .. k - 1 : told[c][j] = "connect"
      <3>1. k \in 1 .. Len(told[c]) /\ Len(told[c]) \in Nat
        BY <2>2
      <3>2. told[c] # <<>>
        BY <3>1
      <3>3. told[c][1] = "connect"
        BY <2>1, <3>2 DEF ToldInOrder
      <3>4. k # 1
        BY <2>4, <3>3
      <3>5. 1 \in 1 .. k - 1
        BY <3>1, <3>4
      <3>6. QED
        BY <3>3, <3>5
    <2>5. QED
      BY <2>3, <2>4
  <1>4. QED
    BY <1>1, <1>2, <1>3, PTL DEF Spec

=============================================================================

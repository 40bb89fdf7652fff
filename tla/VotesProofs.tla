----------------------------- MODULE VotesProofs -----------------------------
(***************************************************************************)
(* What is proved of votes, for any number of threads, clients and votes   *)
(* and any nesting of calls.                                               *)
(*                                                                         *)
(* The five invariants of Votes say what holds at a few places only; what  *)
(* makes them hold is carried from one place to the next by VInv:          *)
(*   Frames      each call knows its vote, who called it, the count it     *)
(*               will set, and what the game holds meanwhile;              *)
(*   Lonely      of two calls at a time both are crossed, unless the one   *)
(*               below waits for the handlers of vote_called;              *)
(*   StringKept  when the string is not that of the game's vote, a call    *)
(*               is about to make it so, or something came in between;     *)
(*   TurnsKept   an announced vote that is not over is the game's, or was  *)
(*               crossed;                                                  *)
(*   CountKept   the count goes the way of the string.                     *)
(* A step changes what is on top of one stack: the lemmas on stacks and on *)
(* calls at the same time say once what it leaves of the rest, and there   *)
(* is one lemma per action.                                                *)
(***************************************************************************)
EXTENDS Votes, FiniteSetTheorems, SequenceTheorems, TLAPS

\* A call that sets or clears something of a vote.
AboutVote(f) == f.call \notin {"ballot", "force"}

\* What a handler had a hand in, or another call.
Disturbed == crossed \cup stopped

\* A call that starts a vote is setting its string, or announcing it.
Starting(f) == f.call # "end" /\ f.at \in {"string", "started"}

\* ... or about to set its count, as is a call of the game that counts.
Setting(f) == f.call # "end" /\ f.at \in {"string", "started", "yes"}

\* The vote is over, and its string about to be cleared.
Clearing(f) == f.call = "end" /\ f.at \in {"clear", "started"}

\* A handler of vote_called is about to call a vote of its own.
NestedCaller == stack[Main] # <<>> /\ Top(Main).at \in {"checked", "level"}

Shape(f) ==
  /\ f.vote \in 1 .. called
  /\ \/ f.call = "client" /\ f.at \in {"called", "string", "started", "yes"}
     \/ f.call = "plugin" /\ f.at \in {"checked", "level", "string", "started", "yes"}
     \/ f.call = "count" /\ f.at = "yes"
     \/ f.call = "end" /\ f.at \in {"print", "ended", "clear", "started"}
     \/ f.call \in {"ballot", "force"} /\ f.at = f.call
  /\ f.at = "called" => f.count = 1
  /\ f.at \in {"checked", "level"} => f.count = 0
  /\ f.call = "plugin" => f.who = None
  /\ f.call \in {"client", "ballot"} => f.who \in Clients

\* The caller that vote_started tells.
CallerKept(f) ==
  /\ f.at = "called" =>
       \/ player = f.who \/ f.vote \in crossed
       \/ level # 0 \/ NestedCaller
  /\ f.at = "level" => player = f.who \/ f.vote \in crossed
  /\ f.at = "string" => player = f.who \/ f.vote \in crossed \/ StringIsStale(f.vote)
  /\ f.at = "started" /\ f.call # "end" =>
       f.by = f.who \/ f.vote \in crossed \/ StringIsStale(f.vote)

\* The vote the game holds meanwhile.
LevelKept(f) ==
  /\ f.at \in {"checked", "level"} => cs = 0 \/ cs \in crossed
  /\ Setting(f) =>
       \/ level = f.vote /\ f.count = yes
       \/ f.vote \in crossed /\ level \in crossed \cup {0}
  /\ f.at \in {"print", "ended"} =>
       level = f.vote \/ (f.vote \in crossed /\ level \in crossed)
  /\ Clearing(f) => f.vote \in over /\ level \in crossed \cup {0}

Told(f) ==
  /\ f.at = "started" => f.vote \in started
  /\ f.at = "ended" =>
       /\ f.told \in started
       /\ \/ f.told = f.vote /\ f.count = yes
          \/ {f.told, f.vote} \cap Disturbed # {}

Sound(f) == Shape(f) /\ CallerKept(f) /\ LevelKept(f) /\ Told(f)

\* Where the call is: of the game's calls there is one at a time, and nothing below it.
Placed(t, d) == stack[t][d].call \notin {"plugin", "force"} => t = Main /\ d = 1

Frames ==
  /\ \A f \in Calls : Sound(f)
  /\ \A t \in Threads : \A d \in DOMAIN stack[t] : Placed(t, d)

\* Of two calls at a time each is crossed, unless one is a vote that a handler of the
\* other's vote_called calls.
Lonely ==
  \A t, u \in Threads : \A d \in DOMAIN stack[t], e \in DOMAIN stack[u] :
    /\ t # u \/ d < e
    /\ AboutVote(stack[t][d]) /\ AboutVote(stack[u][e])
    => \/ t = u /\ stack[t][d].at = "called"
       \/ stack[t][d].vote \in crossed /\ stack[u][e].vote \in crossed

StringKept ==
  /\ cs <= called /\ level <= called
  /\ cs # 0 => cs \in started
  /\ cs \notin {0, level} =>
       cs \in Disturbed \/ \E f \in Calls : Clearing(f) /\ f.vote = cs
  /\ level \notin {0, cs} =>
       level \in Disturbed \/ \E f \in Calls : Starting(f) /\ f.vote = level

TurnsKept ==
  \A w \in started \ over :
    \/ w \in crossed
    \/ w = level /\ (cs = w \/ \E f \in Calls : Starting(f) /\ f.at = "started" /\ f.vote = w)

CountKept ==
  level # 0 =>
    \/ csYes = yes
    \/ level \in Disturbed
    \/ \E f \in Calls : Setting(f) /\ f.vote = level /\ f.count = yes

VInv == TypeOK /\ Frames /\ Lonely /\ StringKept /\ TurnsKept /\ CountKept

-----------------------------------------------------------------------------
(***************************************************************************)
(* Stacks.  A step of a thread keeps its first n calls and puts at most    *)
(* one call on top of them.                                                *)
(***************************************************************************)
Keeps(t, n) ==
  /\ stack' \in [Threads -> Seq(Call)]
  /\ n \in 0 .. Len(stack[t])
  /\ Len(stack'[t]) \in {n, n + 1}
  /\ \A u \in Threads \ {t} : stack'[u] = stack[u]
  /\ \A d \in 1 .. n : stack'[t][d] = stack[t][d]

\* The calls but for those the thread is inside of above its first n.
Rest(t, n) ==
  {f \in Call :
     \/ \E u \in Threads \ {t} : \E d \in DOMAIN stack[u] : f = stack[u][d]
     \/ \E d \in 1 .. n : f = stack[t][d]}

(* The first elements of a sequence. *)
LEMMA FrontParts ==
  ASSUME NEW S, NEW s \in Seq(S), NEW k \in 0 .. Len(s)
  PROVE  /\ SubSeq(s, 1, k) \in Seq(S)
         /\ Len(SubSeq(s, 1, k)) = k
         /\ \A i \in 1 .. k : SubSeq(s, 1, k)[i] = s[i]
<1>1. Len(s) \in Nat
  OBVIOUS
<1> QED
  BY <1>1

(* A stack is a sequence of calls, and its calls are among all calls. *)
LEMMA StackParts ==
  ASSUME stack \in [Threads -> Seq(Call)], NEW t \in Threads
  PROVE  /\ stack[t] \in Seq(Call)
         /\ Len(stack[t]) \in Nat
         /\ DOMAIN stack[t] = 1 .. Len(stack[t])
         /\ \A d \in 1 .. Len(stack[t]) : stack[t][d] \in Call /\ stack[t][d] \in Calls
  BY DEF Calls

(* A call that is under way is at some place. *)
LEMMA CallParts ==
  ASSUME stack \in [Threads -> Seq(Call)], NEW f \in Calls
  PROVE  \E t \in Threads : \E d \in DOMAIN stack[t] : f = stack[t][d]
  BY DEF Calls

(* The call on top. *)
LEMMA TopParts ==
  ASSUME stack \in [Threads -> Seq(Call)], NEW t \in Threads, stack[t] # <<>>
  PROVE  /\ Len(stack[t]) \in Nat /\ Len(stack[t]) > 0
         /\ Top(t) \in Call /\ Top(t) \in Calls
         /\ Top(t) = stack[t][Len(stack[t])]
<1>1. /\ stack[t] \in Seq(Call)
      /\ Len(stack[t]) \in Nat
      /\ \A d \in 1 .. Len(stack[t]) : stack[t][d] \in Call /\ stack[t][d] \in Calls
  BY StackParts
<1>2. Len(stack[t]) > 0
  BY <1>1, EmptySeq
<1> QED
  BY <1>1, <1>2 DEF Top

(* What all calls are made of before and after such a step. *)
LEMMA CallsMove ==
  ASSUME stack \in [Threads -> Seq(Call)], NEW t \in Threads, NEW n, Keeps(t, n)
  PROVE  /\ Rest(t, n) \subseteq Calls
         /\ Rest(t, n) \subseteq Calls'
         /\ \A f \in Calls : f \in Rest(t, n)
              \/ \E d \in n + 1 .. Len(stack[t]) : f = stack[t][d]
         /\ \A f \in Calls' : f \in Rest(t, n)
              \/ (Len(stack'[t]) = n + 1 /\ f = stack'[t][n + 1])
<1>1. /\ Len(stack[t]) \in Nat
      /\ \A u \in Threads : DOMAIN stack[u] = 1 .. Len(stack[u])
      /\ n \in 0 .. Len(stack[t])
  BY StackParts DEF Keeps
<1>2. /\ Len(stack'[t]) \in {n, n + 1}
      /\ \A u \in Threads : DOMAIN stack'[u] = 1 .. Len(stack'[u])
      /\ \A u \in Threads \ {t} : stack'[u] = stack[u]
      /\ \A d \in 1 .. n : stack'[t][d] = stack[t][d]
  BY DEF Keeps
<1>3. Rest(t, n) \subseteq Calls
  <2> SUFFICES ASSUME NEW f \in Rest(t, n)
               PROVE  f \in Calls
    OBVIOUS
  <2>1. CASE \E u \in Threads \ {t} : \E d \in DOMAIN stack[u] : f = stack[u][d]
    BY <2>1 DEF Calls
  <2>2. CASE \E d \in 1 .. n : f = stack[t][d]
    BY <1>1, <2>2 DEF Calls
  <2> QED
    BY <2>1, <2>2 DEF Rest
<1>4. Rest(t, n) \subseteq Calls'
  <2> SUFFICES ASSUME NEW f \in Rest(t, n)
               PROVE  f \in Calls'
    OBVIOUS
  <2>1. CASE \E u \in Threads \ {t} : \E d \in DOMAIN stack[u] : f = stack[u][d]
    BY <1>2, <2>1 DEF Calls
  <2>2. CASE \E d \in 1 .. n : f = stack[t][d]
    BY <1>1, <1>2, <2>2 DEF Calls
  <2> QED
    BY <2>1, <2>2 DEF Rest
<1>5. ASSUME NEW f \in Calls
      PROVE  f \in Rest(t, n) \/ \E d \in n + 1 .. Len(stack[t]) : f = stack[t][d]
  <2>0. PICK u \in Threads : \E d \in DOMAIN stack[u] : f = stack[u][d]
    BY CallParts
  <2>1. PICK d \in DOMAIN stack[u] : f = stack[u][d]
    BY <2>0
  <2>2. u # t => f \in Rest(t, n)
    BY <1>1, <2>1, StackParts DEF Rest
  <2>3. u = t => d \in 1 .. n \/ d \in n + 1 .. Len(stack[t])
    BY <1>1, <2>1
  <2> QED
    BY <1>1, <2>1, <2>2, <2>3, StackParts DEF Rest
<1>6. ASSUME NEW f \in Calls'
      PROVE  f \in Rest(t, n) \/ (Len(stack'[t]) = n + 1 /\ f = stack'[t][n + 1])
  <2>0. PICK u \in Threads : \E d \in DOMAIN stack'[u] : f = stack'[u][d]
    BY DEF Calls
  <2>1. PICK d \in DOMAIN stack'[u] : f = stack'[u][d]
    BY <2>0
  <2>2. u # t => f \in Rest(t, n)
    <3>1. ASSUME u # t
          PROVE  d \in DOMAIN stack[u] /\ f = stack[u][d] /\ f \in Call
      BY <1>1, <1>2, <2>1, <3>1, StackParts
    <3> QED
      BY <3>1 DEF Rest
  <2>3. u = t => d \in 1 .. n \/ (Len(stack'[t]) = n + 1 /\ d = n + 1)
    <3> SUFFICES ASSUME u = t
                 PROVE  d \in 1 .. n \/ (Len(stack'[t]) = n + 1 /\ d = n + 1)
      OBVIOUS
    <3>1. d \in 1 .. Len(stack'[t])
      BY <1>2, <2>1
    <3>2. n \in Nat /\ (Len(stack'[t]) = n \/ Len(stack'[t]) = n + 1)
      BY <1>1, <1>2
    <3> QED
      BY <3>1, <3>2
  <2>4. ASSUME u = t, d \in 1 .. n
        PROVE  f \in Rest(t, n)
    <3>1. f = stack[t][d] /\ f \in Call
      BY <1>1, <1>2, <2>1, <2>4, StackParts
    <3> QED
      BY <2>4, <3>1 DEF Rest
  <2>5. ASSUME u = t, d = n + 1
        PROVE  f = stack'[t][n + 1]
    BY <2>1, <2>5
  <2> QED
    BY <2>2, <2>3, <2>4, <2>5
<1> QED
  BY <1>3, <1>4, <1>5, <1>6

(* Pushing a call. *)
LEMMA PushKeeps ==
  ASSUME stack \in [Threads -> Seq(Call)], NEW t \in Threads, NEW f \in Call,
         stack' = [stack EXCEPT ![t] = Append(stack[t], f)]
  PROVE  /\ Keeps(t, Len(stack[t]))
         /\ Len(stack'[t]) = Len(stack[t]) + 1
         /\ stack'[t][Len(stack[t]) + 1] = f
  BY AppendProperties DEF Keeps

(* Changing the call on top. *)
LEMMA SetTopKeeps ==
  ASSUME stack \in [Threads -> Seq(Call)], NEW t \in Threads, NEW f \in Call,
         stack[t] # <<>>, SetTop(t, f)
  PROVE  /\ Keeps(t, Len(stack[t]) - 1)
         /\ Len(stack'[t]) = Len(stack[t])
         /\ stack'[t][Len(stack[t])] = f
<1>1. stack[t] \in Seq(Call) /\ Len(stack[t]) \in Nat /\ Len(stack[t]) > 0
  BY TopParts, StackParts
<1>2. stack' = [stack EXCEPT ![t] = [stack[t] EXCEPT ![Len(stack[t])] = f]]
  BY DEF SetTop
<1>3. /\ [stack[t] EXCEPT ![Len(stack[t])] = f] \in Seq(Call)
      /\ Len([stack[t] EXCEPT ![Len(stack[t])] = f]) = Len(stack[t])
      /\ \A d \in 1 .. Len(stack[t]) :
           [stack[t] EXCEPT ![Len(stack[t])] = f][d] =
             IF d = Len(stack[t]) THEN f ELSE stack[t][d]
  BY <1>1, ExceptSeq
<1> QED
  BY <1>1, <1>2, <1>3 DEF Keeps

(* Taking the call on top away. *)
LEMMA PopKeeps ==
  ASSUME stack \in [Threads -> Seq(Call)], NEW t \in Threads, stack[t] # <<>>, Pop(t)
  PROVE  /\ Keeps(t, Len(stack[t]) - 1)
         /\ Len(stack'[t]) = Len(stack[t]) - 1
<1>1. stack[t] \in Seq(Call) /\ Len(stack[t]) \in Nat /\ Len(stack[t]) > 0
  BY TopParts, StackParts
<1>2. stack' = [stack EXCEPT ![t] = SubSeq(stack[t], 1, Len(stack[t]) - 1)]
  BY DEF Pop
<1>3. /\ SubSeq(stack[t], 1, Len(stack[t]) - 1) \in Seq(Call)
      /\ Len(SubSeq(stack[t], 1, Len(stack[t]) - 1)) = Len(stack[t]) - 1
      /\ \A d \in 1 .. Len(stack[t]) - 1 :
           SubSeq(stack[t], 1, Len(stack[t]) - 1)[d] = stack[t][d]
  <2>1. Len(stack[t]) - 1 \in 0 .. Len(stack[t])
    BY <1>1
  <2> QED
    BY <1>1, <2>1, FrontParts, Zenon
<1> QED
  BY <1>1, <1>2, <1>3 DEF Keeps

-----------------------------------------------------------------------------
(***************************************************************************)
(* Calls that are under way at the same time.                              *)
(***************************************************************************)
(* A thread that changes or ends its call on top leaves the calls crossed. *)
LEMMA LonelyTop ==
  ASSUME stack \in [Threads -> Seq(Call)], Lonely, crossed \subseteq crossed',
         NEW t \in Threads, stack[t] # <<>>, NEW n \in Nat, n + 1 = Len(stack[t]), Keeps(t, n),
         Len(stack'[t]) = n + 1 =>
           /\ stack'[t][n + 1].call = stack[t][n + 1].call
           /\ stack'[t][n + 1].vote = stack[t][n + 1].vote
  PROVE  Lonely'
<1>1. \A u \in Threads : /\ Len(stack[u]) \in Nat
                         /\ DOMAIN stack[u] = 1 .. Len(stack[u])
  BY StackParts
<1>2. /\ Len(stack'[t]) \in {n, n + 1}
      /\ \A u \in Threads : DOMAIN stack'[u] = 1 .. Len(stack'[u])
      /\ \A u \in Threads \ {t} : stack'[u] = stack[u]
      /\ \A d \in 1 .. n : stack'[t][d] = stack[t][d]
  BY DEF Keeps
<1>3. ASSUME NEW u \in Threads, NEW d \in DOMAIN stack'[u]
      PROVE  /\ d \in DOMAIN stack[u]
             /\ stack'[u][d].call = stack[u][d].call
             /\ stack'[u][d].vote = stack[u][d].vote
             /\ u # t \/ d # n + 1 => stack'[u][d] = stack[u][d]
             /\ u = t => d \in 1 .. n + 1
  <2>1. CASE u # t
    BY <1>2, <1>3, <2>1
  <2>2. CASE u = t
    <3>1. d \in 1 .. n + 1 /\ (d \in 1 .. n \/ (d = n + 1 /\ Len(stack'[t]) = n + 1))
      BY <1>2, <1>3, <2>2
    <3> QED
      BY <1>1, <1>2, <2>2, <3>1
  <2> QED
    BY <2>1, <2>2
<1> SUFFICES ASSUME NEW u1 \in Threads, NEW u2 \in Threads,
                    NEW d \in DOMAIN stack'[u1], NEW e \in DOMAIN stack'[u2],
                    u1 # u2 \/ d < e,
                    AboutVote(stack'[u1][d]), AboutVote(stack'[u2][e])
             PROVE  \/ u1 = u2 /\ stack'[u1][d].at = "called"
                    \/ /\ stack'[u1][d].vote \in crossed'
                       /\ stack'[u2][e].vote \in crossed'
  BY DEF Lonely
<1>4. AboutVote(stack[u1][d]) /\ AboutVote(stack[u2][e])
  BY <1>3 DEF AboutVote
<1>5. \/ u1 = u2 /\ stack[u1][d].at = "called"
      \/ stack[u1][d].vote \in crossed /\ stack[u2][e].vote \in crossed
  BY <1>3, <1>4 DEF Lonely
<1>6. CASE stack[u1][d].vote \in crossed /\ stack[u2][e].vote \in crossed
  BY <1>3, <1>6
<1>7. CASE u1 = u2 /\ stack[u1][d].at = "called"
  <2>1. u1 = t => d # n + 1
    <3> SUFFICES ASSUME u1 = t
                 PROVE  d # n + 1
      OBVIOUS
    <3>1. d \in 1 .. n + 1 /\ e \in 1 .. n + 1 /\ d < e
      BY <1>3, <1>7
    <3> QED
      BY <3>1
  <2> QED
    BY <1>3, <1>7, <2>1
<1> QED
  BY <1>5, <1>6, <1>7

(* A call that is begun while others are under way crosses them. *)
LEMMA PushCrosses ==
  ASSUME stack \in [Threads -> Seq(Call)], NEW t \in Threads, NEW call, NEW v, Crosses(t, call, v)
  PROVE  /\ crossed \subseteq crossed'
         /\ call \notin {"ballot", "force"} => \A u \in Threads, d \in Nat :
              d \in DOMAIN stack[u] /\ AboutVote(stack[u][d])
                /\ (u # t \/ stack[u][d].at # "called")
              => stack[u][d].vote \in crossed' /\ v \in crossed'
<1>1. ASSUME call \notin {"ballot", "force"}, NEW u \in Threads, NEW d \in DOMAIN stack[u],
             AboutVote(stack[u][d]), u # t \/ stack[u][d].at # "called"
      PROVE  stack[u][d] \in Underway(t)
  <2>1. CASE u # t
    <3>1. stack[u][d] \in UNION {{stack[w][e] : e \in DOMAIN stack[w]} : w \in Threads \ {t}}
      BY <1>1, <2>1
    <3> QED
      BY <1>1, <3>1 DEF Underway, AboutVote
  <2>2. CASE u = t
    BY <1>1, <2>2 DEF Underway, AboutVote
  <2> QED
    BY <2>1, <2>2
<1> QED
  BY <1>1 DEF Crosses

(* So beginning a call keeps what is said of calls at the same time. *)
LEMMA LonelyPush ==
  ASSUME stack \in [Threads -> Seq(Call)], Lonely, NEW t \in Threads, NEW f \in Call,
         NEW n \in Nat, n = Len(stack[t]), Keeps(t, n),
         Len(stack'[t]) = n + 1, stack'[t][n + 1] = f, Crosses(t, f.call, f.vote)
  PROVE  Lonely'
<1>1. \A u \in Threads : /\ Len(stack[u]) \in Nat
                         /\ DOMAIN stack[u] = 1 .. Len(stack[u])
  BY StackParts
<1>2. Len(stack'[t]) = n + 1 /\ stack'[t][n + 1] = f
  OBVIOUS
<1>3. /\ n \in Nat
      /\ \A u \in Threads : DOMAIN stack'[u] = 1 .. Len(stack'[u])
      /\ \A u \in Threads \ {t} : stack'[u] = stack[u]
      /\ \A d \in 1 .. n : stack'[t][d] = stack[t][d]
  BY <1>1, <1>2 DEF Keeps
<1>4. ASSUME NEW u \in Threads, NEW d \in DOMAIN stack'[u]
      PROVE  \/ d \in DOMAIN stack[u] /\ stack'[u][d] = stack[u][d] /\ (u = t => d \in 1 .. n)
             \/ u = t /\ d = n + 1
  <2>1. CASE u # t
    BY <1>3, <1>4, <2>1
  <2>2. CASE u = t
    <3>1. d \in 1 .. n \/ d = n + 1
      BY <1>2, <1>3, <1>4, <2>2
    <3> QED
      BY <1>1, <1>3, <2>2, <3>1
  <2> QED
    BY <2>1, <2>2
<1>5. /\ crossed \subseteq crossed'
      /\ AboutVote(f) => \A u \in Threads, d \in Nat :
           d \in DOMAIN stack[u] /\ AboutVote(stack[u][d])
             /\ (u # t \/ stack[u][d].at # "called")
           => stack[u][d].vote \in crossed' /\ f.vote \in crossed'
  BY PushCrosses DEF AboutVote
<1> SUFFICES ASSUME NEW u1 \in Threads, NEW u2 \in Threads,
                    NEW d \in DOMAIN stack'[u1], NEW e \in DOMAIN stack'[u2],
                    u1 # u2 \/ d < e,
                    AboutVote(stack'[u1][d]), AboutVote(stack'[u2][e])
             PROVE  \/ u1 = u2 /\ stack'[u1][d].at = "called"
                    \/ /\ stack'[u1][d].vote \in crossed'
                       /\ stack'[u2][e].vote \in crossed'
  BY DEF Lonely
<1>6. d \in Nat /\ e \in Nat
  BY <1>3
<1>7. CASE u1 = t /\ d = n + 1
  <2>1. u2 # t
    <3> SUFFICES ASSUME u2 = t
                 PROVE  FALSE
      OBVIOUS
    <3>1. d < e /\ e \in 1 .. n + 1
      BY <1>2, <1>3, <1>7
    <3> QED
      BY <1>3, <1>6, <1>7, <3>1
  <2>2. e \in DOMAIN stack[u2] /\ stack'[u2][e] = stack[u2][e]
    BY <1>4, <2>1
  <2> QED
    BY <1>2, <1>5, <1>6, <1>7, <2>1, <2>2
<1>8. CASE ~(u1 = t /\ d = n + 1) /\ u2 = t /\ e = n + 1
  <2>1. d \in DOMAIN stack[u1] /\ stack'[u1][d] = stack[u1][d]
    BY <1>4, <1>8
  <2>2. CASE u1 = t /\ stack[u1][d].at = "called"
    BY <1>8, <2>1, <2>2
  <2>3. CASE u1 # t \/ stack[u1][d].at # "called"
    BY <1>2, <1>5, <1>6, <1>8, <2>1, <2>3
  <2> QED
    BY <2>2, <2>3
<1>9. CASE ~(u1 = t /\ d = n + 1) /\ ~(u2 = t /\ e = n + 1)
  <2>1. /\ d \in DOMAIN stack[u1] /\ stack'[u1][d] = stack[u1][d]
        /\ e \in DOMAIN stack[u2] /\ stack'[u2][e] = stack[u2][e]
    BY <1>4, <1>9
  <2>2. \/ u1 = u2 /\ stack[u1][d].at = "called"
        \/ stack[u1][d].vote \in crossed /\ stack[u2][e].vote \in crossed
    BY <2>1 DEF Lonely
  <2> QED
    BY <1>5, <2>1, <2>2
<1> QED
  BY <1>7, <1>8, <1>9

(* What the thread's call on top has to do with a call below or beside it. *)
LEMMA TopCrosses ==
  ASSUME stack \in [Threads -> Seq(Call)], Frames, Lonely,
         NEW t \in Threads, NEW n \in Nat, n + 1 = Len(stack[t]), AboutVote(stack[t][n + 1]),
         NEW f \in Rest(t, n), AboutVote(f)
  PROVE  \/ f.vote \in crossed /\ stack[t][n + 1].vote \in crossed
         \/ f.at = "called" /\ t = Main /\ n > 0
<1>1. \A u \in Threads : DOMAIN stack[u] = 1 .. Len(stack[u])
  BY StackParts
<1>2. n + 1 \in DOMAIN stack[t]
  BY <1>1
<1>3. CASE \E u \in Threads \ {t} : \E d \in DOMAIN stack[u] : f = stack[u][d]
  <2>1. PICK u \in Threads \ {t} : \E d \in DOMAIN stack[u] : f = stack[u][d]
    BY <1>3
  <2>2. PICK d \in DOMAIN stack[u] : f = stack[u][d]
    BY <2>1
  <2> QED
    BY <1>2, <2>2 DEF Lonely
<1>4. CASE \E d \in 1 .. n : f = stack[t][d]
  <2>1. PICK d \in 1 .. n : f = stack[t][d]
    BY <1>4
  <2>2. d \in DOMAIN stack[t] /\ d < n + 1 /\ n > 0
    BY <1>1, <2>1
  <2>3. \/ f.at = "called"
        \/ f.vote \in crossed /\ stack[t][n + 1].vote \in crossed
    BY <1>2, <2>1, <2>2 DEF Lonely
  <2>4. f.at = "called" => t = Main
    <3>1. f \in Calls
      BY <2>1, <2>2 DEF Calls
    <3>2. Shape(f)
      BY <3>1 DEF Frames, Sound
    <3>3. Placed(t, d)
      BY <2>2 DEF Frames
    <3> QED
      BY <2>1, <3>2, <3>3 DEF Shape, Placed
  <2> QED
    BY <2>2, <2>3, <2>4
<1> QED
  BY <1>3, <1>4 DEF Rest

\* A step forgets nothing.
Grows ==
  /\ crossed \subseteq crossed' /\ stopped \subseteq stopped'
  /\ started \subseteq started' /\ over \subseteq over'
  /\ called \in Nat /\ called' \in Nat /\ called <= called'

(* A ballot or a force knows nothing that could change. *)
LEMMA BallotSound ==
  ASSUME NEW f \in Call, Grows, Shape(f), ~AboutVote(f)
  PROVE  Sound(f)'
<1>1. f.at \in {"ballot", "force"} /\ f.call \in {"ballot", "force"}
  BY DEF Shape, AboutVote
<1>2. f.vote \in 1 .. called'
  BY DEF Shape, Grows
<1>3. Shape(f)'
  BY <1>1, <1>2 DEF Shape
<1>4. CallerKept(f)' /\ LevelKept(f)' /\ Told(f)'
  BY <1>1 DEF CallerKept, LevelKept, Told, Setting, Clearing
<1> QED
  BY <1>3, <1>4 DEF Sound

(* The shape of a call stays. *)
LEMMA ShapeStays ==
  ASSUME NEW f, Grows, Shape(f)
  PROVE  Shape(f)'
<1>1. f.vote \in 1 .. called'
  BY DEF Shape, Grows
<1> QED
  BY <1>1 DEF Shape

(* A step that leaves votes alone. *)
LEMMA QuietSound ==
  ASSUME NEW f, Grows, Sound(f), UNCHANGED <<player, level, yes, cs>>,
         f.at = "called" /\ NestedCaller => NestedCaller' \/ level # 0
  PROVE  Sound(f)'
<1>1. Shape(f)'
  BY ShapeStays DEF Sound
<1>2. StringIsStale(f.vote) => StringIsStale(f.vote)'
  BY DEF StringIsStale, Grows
<1>3. CallerKept(f)'
  BY <1>2 DEF Sound, CallerKept, Grows
<1>4. LevelKept(f)'
  BY DEF Sound, LevelKept, Grows, Setting, Clearing
<1>5. Told(f)'
  BY DEF Sound, Told, Grows, Disturbed
<1> QED
  BY <1>1, <1>3, <1>4, <1>5 DEF Sound

(* A step of another call, which crosses this one. *)
LEMMA CrossedSound ==
  ASSUME NEW f, Grows, Sound(f), f.at # "called", f.vote \in crossed',
         level' \in {level, 0} \cup crossed', cs' \in {0, cs} \cup crossed',
         f.at \in {"print", "ended"} => level' \in {level} \cup crossed'
  PROVE  Sound(f)'
<1>1. Shape(f)'
  BY ShapeStays DEF Sound
<1>2. CallerKept(f)'
  BY DEF CallerKept
<1>3. LevelKept(f)'
  <2>1. f.at \in {"checked", "level"} => cs' = 0 \/ cs' \in crossed'
    BY DEF Sound, LevelKept, Grows
  <2>2. Setting(f) => level' \in crossed' \cup {0}
    BY DEF Sound, LevelKept, Grows
  <2>3. f.at \in {"print", "ended"} => level' \in crossed'
    BY DEF Sound, LevelKept, Grows
  <2>4. Clearing(f) => f.vote \in over' /\ level' \in crossed' \cup {0}
    BY DEF Sound, LevelKept, Grows
  <2> QED
    BY <2>1, <2>2, <2>3, <2>4 DEF LevelKept, Setting, Clearing
<1>4. Told(f)'
  BY DEF Sound, Told, Grows, Disturbed
<1> QED
  BY <1>1, <1>2, <1>3, <1>4 DEF Sound

(* A client that asks, while a handler of vote_called calls a vote. *)
LEMMA AskingSound ==
  ASSUME NEW f, Grows, Sound(f), f.at = "called",
         level # 0 => level' # 0,
         player' = player \/ NestedCaller',
         NestedCaller => NestedCaller' \/ level' # 0
  PROVE  Sound(f)'
<1>1. Shape(f)'
  BY ShapeStays DEF Sound
<1>2. CallerKept(f)'
  BY DEF Sound, CallerKept, Grows
<1>3. LevelKept(f)'
  <2>1. ~Setting(f) /\ ~Clearing(f)
    BY DEF Setting, Clearing
  <2> QED
    BY <2>1 DEF LevelKept, Setting, Clearing
<1>4. Told(f)'
  BY DEF Told
<1> QED
  BY <1>1, <1>2, <1>3, <1>4 DEF Sound

(* A step of the call on top of a thread keeps what is said of the others. *)
LEMMA RestSound ==
  ASSUME TypeOK, Frames, Lonely, Grows,
         NEW t \in Threads, NEW n \in Nat, n + 1 = Len(stack[t]), AboutVote(stack[t][n + 1]),
         level' \in {level, stack[t][n + 1].vote} \/ (level' = 0 /\ t = Main /\ n = 0),
         cs' \in {0, cs, stack[t][n + 1].vote},
         t = Main => player' = player \/ NestedCaller',
         NestedCaller => NestedCaller' \/ level' # 0
  PROVE  \A f \in Rest(t, n) : Sound(f)'
<1> SUFFICES ASSUME NEW f \in Rest(t, n)
             PROVE  Sound(f)'
  OBVIOUS
<1>1. /\ stack \in [Threads -> Seq(Call)]
      /\ \A u \in Threads : DOMAIN stack[u] = 1 .. Len(stack[u])
  BY StackParts DEF TypeOK
<1>2. f \in Call
  BY DEF Rest
<1>3. f \in Calls
  <2>1. CASE \E u \in Threads \ {t} : \E d \in DOMAIN stack[u] : f = stack[u][d]
    BY <2>1 DEF Calls
  <2>2. CASE \E d \in 1 .. n : f = stack[t][d]
    <3>1. 1 .. n \subseteq DOMAIN stack[t]
      BY <1>1
    <3> QED
      BY <2>2, <3>1 DEF Calls
  <2> QED
    BY <2>1, <2>2 DEF Rest
<1>4. Sound(f) /\ Shape(f)
  BY <1>3 DEF Frames, Sound
<1>5. n + 1 \in DOMAIN stack[t] /\ stack[t][n + 1] \in Calls
  <2>1. n + 1 \in DOMAIN stack[t]
    BY <1>1
  <2> QED
    BY <2>1 DEF Calls
<1>6. stack[t][n + 1].vote # 0
  BY <1>5 DEF Frames, Sound, Shape
<1>7. CASE ~AboutVote(f)
  BY <1>2, <1>4, <1>7, BallotSound
<1>8. CASE AboutVote(f) /\ f.at # "called"
  <2>1. f.vote \in crossed /\ stack[t][n + 1].vote \in crossed
    BY <1>1, <1>8, TopCrosses
  <2>2. f.vote \in crossed' /\ stack[t][n + 1].vote \in crossed'
    BY <2>1 DEF Grows
  <2>3. ASSUME f.at \in {"print", "ended"}
        PROVE  level' \in {level} \cup crossed'
    <3>1. f.call = "end"
      BY <1>4, <2>3 DEF Shape
    <3>2. ASSUME t = Main, n = 0
          PROVE  FALSE
      <4>1. PICK u \in Threads \ {t} : \E d \in DOMAIN stack[u] : f = stack[u][d]
        BY <3>2 DEF Rest
      <4>2. PICK d \in DOMAIN stack[u] : f = stack[u][d]
        BY <4>1
      <4>3. Placed(u, d)
        BY DEF Frames
      <4> QED
        BY <3>1, <3>2, <4>2, <4>3 DEF Placed
    <3> QED
      BY <2>2, <3>2
  <2> QED
    BY <1>4, <1>8, <2>2, <2>3, CrossedSound
<1>9. CASE AboutVote(f) /\ f.at = "called"
  <2>1. CASE t = Main /\ n > 0
    <3>1. level # 0 => level' # 0
      BY <1>6, <2>1
    <3> QED
      BY <1>4, <1>9, <2>1, <3>1, AskingSound
  <2>2. CASE ~(t = Main /\ n > 0)
    <3>1. f.vote \in crossed
      BY <1>1, <1>9, <2>2, TopCrosses
    <3>2. Shape(f)'
      BY <1>4, ShapeStays
    <3>3. CallerKept(f)'
      BY <1>9, <3>1 DEF CallerKept, Grows
    <3>4. LevelKept(f)' /\ Told(f)'
      BY <1>9 DEF LevelKept, Told, Setting, Clearing
    <3> QED
      BY <3>2, <3>3, <3>4 DEF Sound
  <2> QED
    BY <2>1, <2>2
<1> QED
  BY <1>7, <1>8, <1>9

(* A step that leaves votes alone keeps what is said of all calls. *)
LEMMA QuietCalls ==
  ASSUME Frames, Grows, UNCHANGED <<player, level, yes, cs>>,
         NestedCaller => NestedCaller'
  PROVE  \A f \in Calls : Sound(f)'
<1> SUFFICES ASSUME NEW f \in Calls
             PROVE  Sound(f)'
  OBVIOUS
<1>1. Sound(f)
  BY DEF Frames
<1> QED
  BY <1>1, QuietSound

(* What is said of the calls after a step, from the calls that stay and the   *)
(* one on top.                                                                *)
LEMMA FramesKept ==
  ASSUME TypeOK, Frames, NEW t \in Threads, NEW n \in Nat, Keeps(t, n),
         \A f \in Rest(t, n) : Sound(f)',
         NEW h,
         Len(stack'[t]) = n + 1 =>
           /\ stack'[t][n + 1] = h
           /\ Sound(h)'
           /\ h.call \notin {"plugin", "force"} => t = Main /\ n = 0
  PROVE  Frames'
<1>1. stack \in [Threads -> Seq(Call)]
  BY DEF TypeOK
<1>2. /\ Len(stack'[t]) \in {n, n + 1}
      /\ n \in 0 .. Len(stack[t])
      /\ \A u \in Threads : DOMAIN stack'[u] = 1 .. Len(stack'[u])
      /\ \A u \in Threads : DOMAIN stack[u] = 1 .. Len(stack[u])
      /\ \A u \in Threads \ {t} : stack'[u] = stack[u]
      /\ \A d \in 1 .. n : stack'[t][d] = stack[t][d]
  BY <1>1, StackParts DEF Keeps
<1>3. \A f \in Calls' : f \in Rest(t, n) \/ (Len(stack'[t]) = n + 1 /\ f = stack'[t][n + 1])
  BY <1>1, CallsMove
<1>4. \A f \in Calls' : Sound(f)'
  <2> SUFFICES ASSUME NEW f \in Calls'
               PROVE  Sound(f)'
    OBVIOUS
  <2>1. CASE f \in Rest(t, n)
    BY <2>1
  <2>2. CASE f \notin Rest(t, n)
    <3>1. f = h /\ Sound(h)'
      BY <1>3, <2>2
    <3> QED
      BY <3>1
  <2> QED
    BY <2>1, <2>2
<1>5. ASSUME NEW u \in Threads, NEW d \in DOMAIN stack'[u]
      PROVE  Placed(u, d)'
  <2>1. CASE u # t
    <3>1. d \in DOMAIN stack[u] /\ stack'[u][d] = stack[u][d]
      BY <1>2, <1>5, <2>1
    <3> QED
      BY <3>1 DEF Frames, Placed
  <2>2. CASE u = t /\ d \in 1 .. n
    <3>1. d \in DOMAIN stack[u] /\ stack'[u][d] = stack[u][d]
      BY <1>2, <2>2
    <3> QED
      BY <3>1 DEF Frames, Placed
  <2>3. CASE u = t /\ d \notin 1 .. n
    <3>1. d = n + 1 /\ Len(stack'[t]) = n + 1
      BY <1>2, <1>5, <2>3
    <3>2. h.call \notin {"plugin", "force"} => t = Main /\ n = 0
      BY <3>1
    <3>3. n = 0 => d = 1
      BY <3>1
    <3> QED
      BY <2>3, <3>1, <3>2, <3>3 DEF Placed
  <2> QED
    BY <2>1, <2>2, <2>3
<1> QED
  BY <1>4, <1>5 DEF Frames

(* Only the main thread's steps make or end a nested caller. *)
LEMMA NestedStays ==
  ASSUME NEW t \in Threads \ {Main}, NEW n, Keeps(t, n)
  PROVE  NestedCaller' <=> NestedCaller
<1>1. stack'[Main] = stack[Main]
  BY VotesAssumption DEF Keeps
<1> QED
  BY <1>1 DEF NestedCaller, Top

(* A step that leaves the vote and its string alone, and takes away no call   *)
(* about them but one a handler has stopped.                                  *)
LEMMA StringStays ==
  ASSUME UNCHANGED <<level, cs, started, over>>, Grows, TypeOK, StringKept, TurnsKept,
         \A f \in Calls : Starting(f) \/ Clearing(f) =>
           f \in Calls' \/ (f.at # "started" /\ f.vote \in Disturbed')
  PROVE  StringKept' /\ TurnsKept'
<1>1. cs \in Nat /\ level \in Nat
  BY DEF TypeOK
<1>2. StringKept'
  <2>1. cs' <= called' /\ level' <= called'
    BY <1>1 DEF StringKept, Grows
  <2>2. cs' # 0 => cs' \in started'
    BY DEF StringKept
  <2>3. ASSUME cs \notin {0, level}
        PROVE  cs \in Disturbed' \/ \E f \in Calls' : Clearing(f) /\ f.vote = cs
    BY <2>3 DEF StringKept, Grows, Disturbed
  <2>4. ASSUME level \notin {0, cs}
        PROVE  level \in Disturbed' \/ \E f \in Calls' : Starting(f) /\ f.vote = level
    BY <2>4 DEF StringKept, Grows, Disturbed
  <2> QED
    BY <2>1, <2>2, <2>3, <2>4 DEF StringKept, Clearing, Starting
<1>3. TurnsKept'
  <2> SUFFICES ASSUME NEW w \in started \ over
               PROVE  \/ w \in crossed'
                      \/ /\ w = level
                         /\ \/ cs = w
                            \/ \E f \in Calls' :
                                 Starting(f) /\ f.at = "started" /\ f.vote = w
    BY DEF TurnsKept, Starting
  <2> QED
    BY DEF TurnsKept, Grows
<1> QED
  BY <1>2, <1>3

(* A step that leaves the count alone, and takes away no call about it but    *)
(* one a handler has stopped.                                                 *)
LEMMA CountStays ==
  ASSUME UNCHANGED <<level, yes, csYes>>, Grows, CountKept,
         \A f \in Calls : Setting(f) =>
           \/ \E h \in Calls' : Setting(h) /\ h.vote = f.vote /\ h.count = f.count
           \/ f.vote \in Disturbed'
  PROVE  CountKept'
<1>1. ASSUME level # 0
      PROVE  \/ csYes = yes
             \/ level \in Disturbed'
             \/ \E f \in Calls' : Setting(f) /\ f.vote = level /\ f.count = yes
  <2>1. CASE csYes = yes \/ level \in Disturbed
    BY <2>1 DEF Grows, Disturbed
  <2>2. CASE \E f \in Calls : Setting(f) /\ f.vote = level /\ f.count = yes
    BY <2>2
  <2> QED
    BY <1>1, <2>1, <2>2 DEF CountKept
<1> QED
  BY <1>1 DEF CountKept, Setting

(* Only votes there are can be crossed. *)
LEMMA CrossesType ==
  ASSUME TypeOK, Frames, NEW t \in Threads, NEW call, NEW v \in 0 .. MaxVotes, Crosses(t, call, v)
  PROVE  crossed' \subseteq 0 .. MaxVotes
<1>1. \A f \in Calls : f.vote \in 0 .. MaxVotes
  BY VotesAssumption DEF Frames, Sound, Shape, TypeOK
<1>2. \A f \in Underway(t) : f \in Calls
  <2> SUFFICES ASSUME NEW f \in Underway(t)
               PROVE  f \in Calls
    OBVIOUS
  <2>1. \/ f \in UNION {{stack[u][d] : d \in DOMAIN stack[u]} : u \in Threads \ {t}}
        \/ \E d \in DOMAIN stack[t] : f = stack[t][d]
    BY DEF Underway
  <2>2. \/ \E u \in Threads \ {t} : \E d \in DOMAIN stack[u] : f = stack[u][d]
        \/ \E d \in DOMAIN stack[t] : f = stack[t][d]
    BY <2>1
  <2> QED
    BY <2>2 DEF Calls
<1>3. crossed \subseteq 0 .. MaxVotes
  BY DEF TypeOK
<1>4. {f.vote : f \in Underway(t)} \subseteq 0 .. MaxVotes
  BY <1>1, <1>2
<1> QED
  BY <1>3, <1>4 DEF Crosses

(* A call is pushed, and nothing that is known of the votes changes. *)
LEMMA QuietPush ==
  ASSUME VInv, NEW t \in Threads, NEW h \in Call,
         stack' = [stack EXCEPT ![t] = Append(stack[t], h)], Crosses(t, h.call, h.vote),
         UNCHANGED <<level, yes, cs, csYes, player, started, over, stopped>>,
         ballots' = ballots, called' \in called .. MaxVotes,
         NestedCaller => t # Main,
         h.call \notin {"plugin", "force"} => t = Main /\ stack[t] = <<>>,
         Sound(h)'
  PROVE  VInv'
<1>1. TypeOK /\ Frames /\ Lonely /\ StringKept /\ TurnsKept /\ CountKept
  BY DEF VInv
<1>2. stack \in [Threads -> Seq(Call)] /\ called \in Nat /\ called' \in Nat /\ called <= called'
  BY <1>1 DEF TypeOK
<1>3. PICK n \in Nat : n = Len(stack[t])
  BY <1>2, StackParts
<1>4. Keeps(t, n) /\ Len(stack'[t]) = n + 1 /\ stack'[t][n + 1] = h
  BY <1>2, <1>3, PushKeeps
<1>5. Grows
  <2>1. crossed \subseteq crossed'
    BY <1>2, PushCrosses
  <2> QED
    BY <1>2, <2>1 DEF Grows
<1>6. NestedCaller => NestedCaller'
  <2> SUFFICES ASSUME NestedCaller
               PROVE  NestedCaller'
    OBVIOUS
  <2>1. t \in Threads \ {Main}
    OBVIOUS
  <2> QED
    BY <1>4, <2>1, NestedStays
<1>7. Rest(t, n) \subseteq Calls /\ Rest(t, n) \subseteq Calls' /\ Calls \subseteq Rest(t, n)
  BY <1>2, <1>3, <1>4, CallsMove
<1>8. TypeOK'
  <2>1. h.vote \in 0 .. MaxVotes
    <3>1. h.vote \in 1 .. called'
      BY DEF Sound, Shape
    <3> QED
      BY <1>2, <3>1, VotesAssumption
  <2>2. crossed' \subseteq 0 .. MaxVotes
    BY <1>1, <2>1, CrossesType
  <2>3. stack' \in [Threads -> Seq(Call)]
    BY <1>4 DEF Keeps
  <2>4. called' \in 0 .. MaxVotes
    BY <1>2
  <2> QED
    BY <1>1, <2>2, <2>3, <2>4 DEF TypeOK
<1>9. Frames'
  <2>1. \A f \in Rest(t, n) : Sound(f)'
    BY <1>1, <1>5, <1>6, <1>7, QuietCalls
  <2>2. h.call \notin {"plugin", "force"} => t = Main /\ n = 0
    BY <1>3
  <2> QED
    BY <1>1, <1>4, <2>1, <2>2, FramesKept
<1>10. Lonely'
  BY <1>1, <1>2, <1>3, <1>4, LonelyPush
<1>11. StringKept' /\ TurnsKept'
  BY <1>1, <1>5, <1>7, StringStays
<1>12. CountKept'
  BY <1>1, <1>5, <1>7, CountStays
<1> QED
  BY <1>8, <1>9, <1>10, <1>11, <1>12 DEF VInv

(* The engine begins a call about a vote, which crosses all there are. *)
LEMMA EnginePush ==
  ASSUME TypeOK, Frames, Lonely, Grows, NEW h \in Call, EngineRuns,
         stack' = [stack EXCEPT ![Main] = Append(stack[Main], h)],
         AboutVote(h), Crosses(Main, h.call, h.vote),
         level' \in {level, h.vote}, cs' = cs, Sound(h)'
  PROVE  /\ Frames' /\ Lonely'
         /\ stack' \in [Threads -> Seq(Call)]
         /\ h \in Calls' /\ Calls \subseteq Calls'
         /\ \A f \in Calls : AboutVote(f) => f.vote \in crossed'
<1>1. stack \in [Threads -> Seq(Call)] /\ Main \in Threads
  BY VotesAssumption DEF TypeOK
<1>2. stack[Main] = <<>> /\ Len(stack[Main]) = 0
  BY DEF EngineRuns
<1>3. Keeps(Main, 0) /\ Len(stack'[Main]) = 1 /\ stack'[Main][1] = h
  <2>1. /\ Keeps(Main, Len(stack[Main]))
        /\ Len(stack'[Main]) = Len(stack[Main]) + 1
        /\ stack'[Main][Len(stack[Main]) + 1] = h
    BY <1>1, PushKeeps
  <2>2. Len(stack[Main]) + 1 = 1
    BY <1>2
  <2> QED
    BY <1>2, <2>1, <2>2
<1>4. /\ Rest(Main, 0) \subseteq Calls /\ Rest(Main, 0) \subseteq Calls'
      /\ Calls \subseteq Rest(Main, 0)
  <2>1. /\ Rest(Main, 0) \subseteq Calls /\ Rest(Main, 0) \subseteq Calls'
        /\ \A f \in Calls : f \in Rest(Main, 0) \/ \E d \in 0 + 1 .. Len(stack[Main]) :
             f = stack[Main][d]
    BY <1>1, <1>3, CallsMove
  <2> QED
    BY <1>2, <2>1
<1>5. h \in Calls'
  <2>1. stack' \in [Threads -> Seq(Call)] /\ 1 \in DOMAIN stack'[Main]
    BY <1>1, <1>3 DEF Keeps
  <2> QED
    BY <1>1, <1>3, <2>1 DEF Calls
<1>6. ASSUME NEW f \in Calls
      PROVE  /\ f.call \in {"plugin", "force"}
             /\ AboutVote(f) => f.vote \in crossed' /\ h.vote \in crossed'
  <2>1. PICK u \in Threads : \E d \in DOMAIN stack[u] : f = stack[u][d]
    BY <1>1, CallParts
  <2>2. PICK d \in DOMAIN stack[u] : f = stack[u][d]
    BY <2>1
  <2>3. u # Main
    BY <1>2, <2>2
  <2>4. Placed(u, d)
    BY DEF Frames
  <2>5. f.call \in {"plugin", "force"}
    BY <2>2, <2>3, <2>4 DEF Placed
  <2>6. d \in Nat
    BY <1>1, StackParts
  <2>7. h.call \notin {"ballot", "force"}
    BY DEF AboutVote
  <2> QED
    BY <1>1, <2>2, <2>3, <2>5, <2>6, <2>7, PushCrosses
<1>7. ASSUME NEW f \in Rest(Main, 0)
      PROVE  Sound(f)'
  <2>1. f \in Calls /\ f \in Call /\ Sound(f) /\ Shape(f)
    BY <1>4 DEF Frames, Sound, Rest
  <2>2. CASE ~AboutVote(f)
    BY <2>1, <2>2, BallotSound
  <2>3. CASE AboutVote(f)
    <3>1. f.at \notin {"called", "print", "ended"}
      BY <1>6, <2>1 DEF Shape
    <3>2. f.vote \in crossed' /\ h.vote \in crossed'
      BY <1>6, <2>1, <2>3
    <3> QED
      BY <2>1, <3>1, <3>2, CrossedSound
  <2> QED
    BY <2>2, <2>3
<1>8. Frames'
  BY <1>1, <1>3, <1>7, FramesKept
<1>9. Lonely'
  BY <1>1, <1>2, <1>3, LonelyPush
<1>10. stack' \in [Threads -> Seq(Call)]
  BY <1>3 DEF Keeps
<1> QED
  BY <1>4, <1>5, <1>6, <1>8, <1>9, <1>10

\* The call on top of the thread, and where it is.
OnTop(t, n, g) ==
  /\ n + 1 = Len(stack[t])
  /\ g = Top(t) /\ g = stack[t][n + 1] /\ g \in Calls
  /\ Sound(g)
  /\ g.call \notin {"plugin", "force"} => t = Main /\ n = 0

(* The call on top of a thread that is inside of one. *)
LEMMA TopSound ==
  ASSUME TypeOK, Frames, NEW t \in Threads, stack[t] # <<>>
  PROVE  \E n \in Nat : \E g \in Call : OnTop(t, n, g)
<1>1. stack \in [Threads -> Seq(Call)]
  BY DEF TypeOK
<1>2. /\ Len(stack[t]) \in Nat /\ Len(stack[t]) > 0
      /\ Top(t) \in Call /\ Top(t) \in Calls
      /\ Top(t) = stack[t][Len(stack[t])]
      /\ DOMAIN stack[t] = 1 .. Len(stack[t])
  BY <1>1, TopParts, StackParts
<1>3. PICK n \in Nat : n + 1 = Len(stack[t])
  <2>1. /\ Len(stack[t]) - 1 \in Nat
        /\ (Len(stack[t]) - 1) + 1 = Len(stack[t])
    BY <1>2
  <2> QED
    BY <2>1
<1>4. PICK g \in Call : g = Top(t)
  BY <1>2
<1>5. g = stack[t][n + 1] /\ g \in Calls
  BY <1>2, <1>3, <1>4
<1>6. Sound(g)
  BY <1>5 DEF Frames
<1>7. g.call \notin {"plugin", "force"} => t = Main /\ n = 0
  <2>1. n + 1 \in DOMAIN stack[t]
    BY <1>2, <1>3
  <2>2. Placed(t, n + 1)
    BY <2>1 DEF Frames
  <2> QED
    BY <1>5, <2>2 DEF Placed
<1> QED
  BY <1>3, <1>4, <1>5, <1>6, <1>7 DEF OnTop

(* A step of the call on top, which is about a vote: it goes on, or ends. *)
LEMMA VoteStep ==
  ASSUME TypeOK, Frames, Lonely, Grows, NEW t \in Threads, NEW n \in Nat, n + 1 = Len(stack[t]),
         NEW g \in Call, g = stack[t][n + 1], AboutVote(g),
         g.call \notin {"plugin", "force"} => t = Main /\ n = 0,
         Keeps(t, n), NEW h \in Call,
         Len(stack'[t]) = n + 1 =>
           stack'[t][n + 1] = h /\ h.call = g.call /\ h.vote = g.vote /\ Sound(h)',
         level' \in {level, g.vote} \/ (level' = 0 /\ t = Main /\ n = 0),
         cs' \in {0, cs, g.vote},
         t = Main => player' = player \/ NestedCaller',
         g.at \in {"checked", "level"} /\ t = Main => NestedCaller' \/ level' # 0
  PROVE  /\ Frames' /\ Lonely'
         /\ stack' \in [Threads -> Seq(Call)]
         /\ Len(stack'[t]) = n + 1 => h \in Calls'
         /\ \A f \in Calls : f = g \/ f \in Calls'
<1>1. stack \in [Threads -> Seq(Call)]
  BY DEF TypeOK
<1>2. stack[t] # <<>>
  <2>1. Len(stack[t]) # 0
    OBVIOUS
  <2>2. Len(<<>>) = 0
    OBVIOUS
  <2> QED
    BY <2>1, <2>2
<1>3. NestedCaller => NestedCaller' \/ level' # 0
  <2> SUFFICES ASSUME NestedCaller
               PROVE  NestedCaller' \/ level' # 0
    OBVIOUS
  <2>1. CASE t = Main
    <3>1. Top(t) = g
      BY <1>1, <1>2, TopParts
    <3> QED
      BY <2>1, <3>1 DEF NestedCaller
  <2>2. CASE t # Main
    <3>1. t \in Threads \ {Main}
      BY <2>2
    <3> QED
      BY <3>1, NestedStays
  <2> QED
    BY <2>1, <2>2
<1>4. \A f \in Rest(t, n) : Sound(f)'
  BY <1>3, RestSound
<1>5. Frames'
  BY <1>4, FramesKept
<1>6. Lonely'
  <2>1. crossed \subseteq crossed'
    BY DEF Grows
  <2> QED
    BY <1>1, <1>2, <2>1, LonelyTop
<1>7. /\ \A f \in Calls : f \in Rest(t, n) \/ \E d \in n + 1 .. Len(stack[t]) : f = stack[t][d]
      /\ Rest(t, n) \subseteq Calls'
  BY <1>1, CallsMove
<1>8. \A f \in Calls : f = g \/ f \in Rest(t, n)
  <2>1. \A d \in n + 1 .. Len(stack[t]) : d = n + 1
    OBVIOUS
  <2> QED
    BY <1>7, <2>1
<1>9. stack' \in [Threads -> Seq(Call)]
  BY DEF Keeps
<1>10. Len(stack'[t]) = n + 1 => h \in Calls'
  <2>1. DOMAIN stack'[t] = 1 .. Len(stack'[t])
    BY <1>9
  <2>2. Len(stack'[t]) = n + 1 => n + 1 \in DOMAIN stack'[t]
    BY <2>1
  <2> QED
    BY <2>2 DEF Calls
<1> QED
  BY <1>5, <1>6, <1>7, <1>8, <1>9, <1>10

\* What a step of the call g on top, which becomes h, may do elsewhere.
Steps(t, n, g) ==
  /\ level' \in {level, g.vote} \/ (level' = 0 /\ t = Main /\ n = 0)
  /\ cs' \in {0, cs, g.vote}
  /\ t = Main => player' = player \/ NestedCaller'
  /\ g.at \in {"checked", "level"} /\ t = Main => NestedCaller' \/ level' # 0

(* The same, for a call that goes on. *)
LEMMA GoesOn ==
  ASSUME VInv, Grows, NEW t \in Threads, NEW n \in Nat, NEW g \in Call, OnTop(t, n, g),
         AboutVote(g),
         NEW h \in Call, SetTop(t, h), h.call = g.call, h.vote = g.vote, Sound(h)',
         Steps(t, n, g)
  PROVE  /\ Frames' /\ Lonely'
         /\ stack' \in [Threads -> Seq(Call)]
         /\ h \in Calls'
         /\ \A f \in Calls : f = g \/ f \in Calls'
<1>0. /\ TypeOK /\ Frames /\ Lonely
      /\ n + 1 = Len(stack[t]) /\ g = stack[t][n + 1]
      /\ g.call \notin {"plugin", "force"} => t = Main /\ n = 0
  BY DEF VInv, OnTop
<1>1. stack \in [Threads -> Seq(Call)]
  BY <1>0 DEF TypeOK
<1>2. stack[t] # <<>>
  <2>1. Len(stack[t]) # 0
    BY <1>0
  <2>2. Len(<<>>) = 0
    OBVIOUS
  <2> QED
    BY <2>1, <2>2
<1>3. Keeps(t, n) /\ Len(stack'[t]) = n + 1 /\ stack'[t][n + 1] = h
  <2>1. /\ Keeps(t, Len(stack[t]) - 1)
        /\ Len(stack'[t]) = Len(stack[t])
        /\ stack'[t][Len(stack[t])] = h
    BY <1>1, <1>2, SetTopKeeps
  <2>2. Len(stack[t]) - 1 = n
    BY <1>0
  <2> QED
    BY <2>1, <2>2
<1> QED
  BY <1>0, <1>3, VoteStep DEF Steps

(* ... and for one that ends. *)
LEMMA Ends ==
  ASSUME VInv, Grows, NEW t \in Threads, NEW n \in Nat, NEW g \in Call, OnTop(t, n, g),
         AboutVote(g),
         Pop(t), Steps(t, n, g)
  PROVE  /\ Frames' /\ Lonely'
         /\ stack' \in [Threads -> Seq(Call)]
         /\ \A f \in Calls : f = g \/ f \in Calls'
<1>0. /\ TypeOK /\ Frames /\ Lonely
      /\ n + 1 = Len(stack[t]) /\ g = stack[t][n + 1]
      /\ g.call \notin {"plugin", "force"} => t = Main /\ n = 0
  BY DEF VInv, OnTop
<1>1. stack \in [Threads -> Seq(Call)]
  BY <1>0 DEF TypeOK
<1>2. stack[t] # <<>>
  <2>1. Len(stack[t]) # 0
    BY <1>0
  <2>2. Len(<<>>) = 0
    OBVIOUS
  <2> QED
    BY <2>1, <2>2
<1>3. Keeps(t, n) /\ Len(stack'[t]) = n
  <2>1. /\ Keeps(t, Len(stack[t]) - 1)
        /\ Len(stack'[t]) = Len(stack[t]) - 1
    BY <1>1, <1>2, PopKeeps
  <2>2. Len(stack[t]) - 1 = n
    BY <1>0
  <2> QED
    BY <2>1, <2>2
<1>4. Len(stack'[t]) # n + 1
  BY <1>3
<1> QED
  BY <1>0, <1>3, <1>4, VoteStep DEF Steps

-----------------------------------------------------------------------------
(***************************************************************************)
(* The actions.                                                            *)
(***************************************************************************)
(* The counts there can be. *)
LEMMA CountsParts ==
  /\ Cardinality(Clients) \in Nat
  /\ 0 \in Counts
  /\ Clients # {} => 1 \in Counts
  /\ \A b \in SUBSET Clients : Cardinality(b) \in Counts
<1>1. IsFiniteSet(Clients) /\ Cardinality(Clients) \in Nat
  BY VotesAssumption, FS_CardinalityType
<1>2. ASSUME NEW b \in SUBSET Clients
      PROVE  Cardinality(b) \in Counts
  <2>1. IsFiniteSet(b) /\ Cardinality(b) <= Cardinality(Clients)
    BY <1>1, FS_Subset
  <2>2. Cardinality(b) \in Nat
    BY <2>1, FS_CardinalityType
  <2> QED
    BY <1>1, <2>1, <2>2 DEF Counts
<1>3. Clients # {} => Cardinality(Clients) # 0
  BY <1>1, FS_EmptySet
<1> QED
  BY <1>1, <1>2, <1>3 DEF Counts

(* A step in which no call is begun or ended, and the votes stay. *)
LEMMA StackStays ==
  ASSUME VInv,
         UNCHANGED <<stack, level, yes, cs, csYes, player, started, over, crossed, stopped>>,
         ballots' \subseteq Clients, called' \in called .. MaxVotes
  PROVE  VInv'
<1>1. TypeOK /\ Frames /\ Lonely /\ StringKept /\ TurnsKept /\ CountKept
  BY DEF VInv
<1>2. called \in Nat /\ called' \in Nat /\ called <= called' /\ called' \in 0 .. MaxVotes
  BY <1>1 DEF TypeOK
<1>3. Grows
  BY <1>2 DEF Grows
<1>4. Calls' = Calls
  BY DEF Calls
<1>5. TypeOK'
  BY <1>1, <1>2 DEF TypeOK
<1>6. Frames'
  <2>1. NestedCaller => NestedCaller'
    BY DEF NestedCaller, Top
  <2>2. \A f \in Calls : Sound(f)'
    BY <1>1, <1>3, <2>1, QuietCalls
  <2>3. \A t \in Threads : \A d \in DOMAIN stack[t] : Placed(t, d)'
    BY <1>1 DEF Frames, Placed
  <2> QED
    BY <1>4, <2>2, <2>3 DEF Frames
<1>7. Lonely'
  BY <1>1 DEF Lonely
<1>8. StringKept' /\ TurnsKept'
  BY <1>1, <1>3, <1>4, StringStays
<1>9. CountKept'
  BY <1>1, <1>3, <1>4, CountStays
<1> QED
  BY <1>5, <1>6, <1>7, <1>8, <1>9 DEF VInv

(* Plugin.callvote. *)
LEMMA CallvoteKeeps ==
  ASSUME VInv, NEW t \in Threads, Callvote(t)
  PROVE  VInv'
<1>1. TypeOK /\ StringKept
  BY DEF VInv
<1>2. /\ called \in Nat /\ called < MaxVotes /\ MaxVotes \in Nat
      /\ called' = called + 1 /\ cs = 0
  BY <1>1, VotesAssumption DEF TypeOK, Callvote, is_vote_active
<1>3. PICK v \in Nat : v = called + 1
  BY <1>2
<1>4. PICK h : h = [call |-> "plugin", at |-> "checked", vote |-> v, who |-> None,
                    told |-> 0, by |-> None, count |-> 0]
  OBVIOUS
<1>5. h \in Call
  <2>1. v \in Strings /\ 0 \in Strings
    BY <1>2, <1>3 DEF Strings, Edited
  <2> QED
    BY <1>4, <2>1, CountsParts DEF Call
<1>6. stack' = [stack EXCEPT ![t] = Append(stack[t], h)] /\ Crosses(t, h.call, h.vote)
  BY <1>2, <1>3, <1>4 DEF Callvote, Push
<1>7. Sound(h)'
  <2>1. Shape(h)'
    BY <1>2, <1>3, <1>4 DEF Shape
  <2>2. CallerKept(h)' /\ Told(h)'
    BY <1>4 DEF CallerKept, Told
  <2>3. LevelKept(h)'
    BY <1>2, <1>4 DEF LevelKept, Setting, Clearing, Callvote, configstrings
  <2> QED
    BY <2>1, <2>2, <2>3 DEF Sound
<1>8. NestedCaller => t # Main
  BY DEF Callvote, PluginRuns, NestedCaller
<1>9. called' \in called .. MaxVotes
  BY <1>2
<1>10. UNCHANGED <<level, yes, cs, csYes, player, started, over, stopped, ballots>>
  BY DEF Callvote, game, configstrings
<1>11. h.call \in {"plugin", "force"}
  BY <1>4
<1> QED
  BY <1>5, <1>6, <1>7, <1>8, <1>9, <1>10, <1>11, QuietPush

(* force_vote looks. *)
LEMMA ForceVoteKeeps ==
  ASSUME VInv, NEW t \in Threads, ForceVote(t)
  PROVE  VInv'
<1>1. TypeOK /\ StringKept
  BY DEF VInv
<1>2. /\ called \in 0 .. MaxVotes /\ MaxVotes \in Nat /\ called' = called
      /\ level \in 1 .. called
  BY <1>1, VotesAssumption DEF TypeOK, StringKept, ForceVote
<1>3. PICK v \in Nat : v = level
  BY <1>2
<1>4. PICK h : h = [call |-> "force", at |-> "force", vote |-> v, who |-> None,
                    told |-> 0, by |-> None, count |-> 0]
  OBVIOUS
<1>5. h \in Call
  <2>1. v \in Strings /\ 0 \in Strings
    BY <1>2, <1>3 DEF Strings, Edited
  <2> QED
    BY <1>4, <2>1, CountsParts DEF Call
<1>6. stack' = [stack EXCEPT ![t] = Append(stack[t], h)] /\ Crosses(t, h.call, h.vote)
  BY <1>2, <1>3, <1>4 DEF ForceVote, Push
<1>7. Sound(h)'
  <2>1. Shape(h)'
    BY <1>2, <1>3, <1>4 DEF Shape
  <2>2. CallerKept(h)' /\ Told(h)'
    BY <1>4 DEF CallerKept, Told
  <2>3. LevelKept(h)'
    BY <1>4 DEF LevelKept, Setting, Clearing
  <2> QED
    BY <2>1, <2>2, <2>3 DEF Sound
<1>8. NestedCaller => t # Main
  BY DEF ForceVote, PluginRuns, NestedCaller
<1>9. called' \in called .. MaxVotes
  BY <1>2
<1>10. UNCHANGED <<level, yes, cs, csYes, player, started, over, stopped, ballots>>
  BY DEF ForceVote, game, configstrings
<1>11. h.call \in {"plugin", "force"}
  BY <1>4
<1> QED
  BY <1>5, <1>6, <1>7, <1>8, <1>9, <1>10, <1>11, QuietPush

(* The vote branch of handle_client_command. *)
LEMMA ClientVotesKeeps ==
  ASSUME VInv, NEW p \in Clients, ClientVotes(p)
  PROVE  VInv'
<1>1. TypeOK /\ StringKept
  BY DEF VInv
<1>2. /\ called \in 0 .. MaxVotes /\ MaxVotes \in Nat /\ called' = called
      /\ level \in 1 .. called /\ ballots \subseteq Clients
  BY <1>1, VotesAssumption DEF TypeOK, StringKept, ClientVotes
<1>3. called' \in called .. MaxVotes
  BY <1>2
<1>4. UNCHANGED <<level, yes, cs, csYes, player, started, over, stopped>>
  BY DEF ClientVotes, configstrings
<1>5. CASE ~is_vote_active
  <2>1. UNCHANGED <<stack, crossed>> /\ ballots' \subseteq Clients
    BY <1>2, <1>5 DEF ClientVotes
  <2> QED
    BY <1>3, <1>4, <2>1, StackStays
<1>6. CASE is_vote_active
  <2>1. PICK v \in Nat : v = level
    BY <1>2
  <2>2. PICK h : h = [call |-> "ballot", at |-> "ballot", vote |-> v, who |-> p,
                      told |-> 0, by |-> None, count |-> 0]
    OBVIOUS
  <2>3. h \in Call
    <3>1. v \in Strings /\ 0 \in Strings
      BY <1>2, <2>1 DEF Strings, Edited
    <3> QED
      BY <2>2, <3>1, CountsParts DEF Call
  <2>4. /\ stack' = [stack EXCEPT ![Main] = Append(stack[Main], h)]
        /\ Crosses(Main, h.call, h.vote)
        /\ ballots' = ballots
    BY <1>2, <1>6, <2>1, <2>2 DEF ClientVotes, Push
  <2>5. Sound(h)'
    <3>1. Shape(h)'
      BY <1>2, <2>1, <2>2 DEF Shape
    <3>2. CallerKept(h)' /\ Told(h)'
      BY <2>2 DEF CallerKept, Told
    <3>3. LevelKept(h)'
      BY <2>2 DEF LevelKept, Setting, Clearing
    <3> QED
      BY <3>1, <3>2, <3>3 DEF Sound
  <2>6. stack[Main] = <<>> /\ ~NestedCaller /\ Main \in Threads
    BY VotesAssumption DEF ClientVotes, EngineRuns, NestedCaller
  <2> QED
    BY <1>3, <1>4, <2>3, <2>4, <2>5, <2>6, QuietPush
<1> QED
  BY <1>5, <1>6

(* The game ends its vote. *)
LEMMA GameEndsVoteKeeps ==
  ASSUME VInv, GameEndsVote
  PROVE  VInv'
<1>1. TypeOK /\ StringKept
  BY DEF VInv
<1>2. /\ called \in 0 .. MaxVotes /\ MaxVotes \in Nat /\ called' = called
      /\ level \in 1 .. called /\ level' = level
  BY <1>1, VotesAssumption DEF TypeOK, StringKept, GameEndsVote, game
<1>3. PICK v \in Nat : v = level
  BY <1>2
<1>4. PICK h : h = [call |-> "end", at |-> "print", vote |-> v, who |-> None,
                    told |-> 0, by |-> None, count |-> 0]
  OBVIOUS
<1>5. h \in Call
  <2>1. v \in Strings /\ 0 \in Strings
    BY <1>2, <1>3 DEF Strings, Edited
  <2> QED
    BY <1>4, <2>1, CountsParts DEF Call
<1>6. stack' = [stack EXCEPT ![Main] = Append(stack[Main], h)] /\ Crosses(Main, h.call, h.vote)
  BY <1>2, <1>3, <1>4 DEF GameEndsVote, Push
<1>7. Sound(h)'
  <2>1. Shape(h)'
    BY <1>2, <1>3, <1>4 DEF Shape
  <2>2. CallerKept(h)' /\ Told(h)'
    BY <1>4 DEF CallerKept, Told
  <2>3. LevelKept(h)'
    BY <1>2, <1>3, <1>4 DEF LevelKept, Setting, Clearing
  <2> QED
    BY <2>1, <2>2, <2>3 DEF Sound
<1>8. stack[Main] = <<>> /\ ~NestedCaller /\ Main \in Threads
  BY VotesAssumption DEF GameEndsVote, EngineRuns, NestedCaller
<1>9. called' \in called .. MaxVotes
  BY <1>2
<1>10. UNCHANGED <<level, yes, cs, csYes, player, started, over, stopped, ballots>>
  BY DEF GameEndsVote, game, configstrings
<1> QED
  BY <1>5, <1>6, <1>7, <1>8, <1>9, <1>10, QuietPush

(* With the main thread outside of all calls none is one of the game's. *)
LEMMA EngineAlone ==
  ASSUME TypeOK, Frames, EngineRuns, NEW f \in Calls
  PROVE  f.call \in {"plugin", "force"}
<1>1. PICK u \in Threads : \E d \in DOMAIN stack[u] : f = stack[u][d]
  BY CallParts DEF TypeOK
<1>2. PICK d \in DOMAIN stack[u] : f = stack[u][d]
  BY <1>1
<1>3. u # Main
  BY <1>2 DEF EngineRuns
<1>4. Placed(u, d)
  BY DEF Frames
<1> QED
  BY <1>2, <1>3, <1>4 DEF Placed

(* The game counts the ballots. *)
LEMMA GameCountsKeeps ==
  ASSUME VInv, GameCounts
  PROVE  VInv'
<1>1. TypeOK /\ Frames /\ Lonely /\ StringKept /\ TurnsKept /\ CountKept
  BY DEF VInv
<1>2. /\ called \in 0 .. MaxVotes /\ MaxVotes \in Nat /\ called' = called
      /\ level \in 1 .. called /\ level' = level
      /\ ballots \subseteq Clients /\ yes' = Cardinality(ballots)
  BY <1>1, VotesAssumption DEF TypeOK, StringKept, GameCounts
<1>3. PICK v \in Nat : v = level
  BY <1>2
<1>4. PICK c \in Counts : c = Cardinality(ballots)
  BY <1>2, CountsParts
<1>5. PICK h : h = [call |-> "count", at |-> "yes", vote |-> v, who |-> None,
                    told |-> 0, by |-> None, count |-> c]
  OBVIOUS
<1>6. h \in Call
  <2>1. v \in Strings /\ 0 \in Strings
    BY <1>2, <1>3 DEF Strings, Edited
  <2> QED
    BY <1>5, <2>1 DEF Call
<1>7. stack' = [stack EXCEPT ![Main] = Append(stack[Main], h)] /\ Crosses(Main, h.call, h.vote)
  BY <1>2, <1>3, <1>4, <1>5 DEF GameCounts, Push
<1>8. Grows
  <2>1. crossed \subseteq crossed'
    BY <1>7 DEF Crosses
  <2> QED
    BY <1>2, <2>1 DEF Grows, GameCounts
<1>9. Sound(h)'
  <2>1. Shape(h)'
    BY <1>2, <1>3, <1>5 DEF Shape
  <2>2. CallerKept(h)' /\ Told(h)'
    BY <1>5 DEF CallerKept, Told
  <2>3. LevelKept(h)'
    BY <1>2, <1>3, <1>4, <1>5 DEF LevelKept, Setting, Clearing
  <2> QED
    BY <2>1, <2>2, <2>3 DEF Sound
<1>10. /\ Frames' /\ Lonely'
       /\ stack' \in [Threads -> Seq(Call)]
       /\ h \in Calls' /\ Calls \subseteq Calls'
  <2>1. AboutVote(h) /\ EngineRuns /\ level' \in {level, h.vote} /\ cs' = cs
    BY <1>2, <1>5 DEF AboutVote, GameCounts, configstrings
  <2> QED
    BY <1>1, <1>6, <1>7, <1>8, <1>9, <2>1, EnginePush
<1>11. crossed' \subseteq 0 .. MaxVotes
  <2>1. h.vote \in 0 .. MaxVotes /\ Main \in Threads
    BY <1>2, <1>3, <1>5, VotesAssumption
  <2> QED
    BY <1>1, <1>7, <2>1, CrossesType
<1>12. TypeOK'
  BY <1>1, <1>2, <1>4, <1>10, <1>11 DEF TypeOK, GameCounts, configstrings
<1>13. StringKept' /\ TurnsKept'
  BY <1>1, <1>2, <1>8, <1>10, StringStays DEF GameCounts, configstrings
<1>14. CountKept'
  <2>1. Setting(h) /\ h.vote = level' /\ h.count = yes'
    BY <1>2, <1>3, <1>4, <1>5 DEF Setting
  <2> QED
    BY <1>10, <2>1 DEF CountKept, Setting
<1> QED
  BY <1>10, <1>12, <1>13, <1>14 DEF VInv

(* The callvote branch of handle_client_command. *)
LEMMA ClientCallsVoteKeeps ==
  ASSUME VInv, NEW p \in Clients, ClientCallsVote(p)
  PROVE  VInv'
<1>1. TypeOK /\ Frames /\ Lonely /\ StringKept /\ TurnsKept /\ CountKept
  BY DEF VInv
<1>2. /\ called \in Nat /\ called < MaxVotes /\ MaxVotes \in Nat
      /\ called' = called + 1 /\ called' \in called .. MaxVotes
      /\ level \in Nat /\ cs \in Nat /\ level <= called /\ cs <= called
      /\ EngineRuns /\ Main \in Threads
      /\ UNCHANGED <<cs, csYes, started, over, stopped>>
  BY <1>1, VotesAssumption DEF TypeOK, StringKept, ClientCallsVote, configstrings
<1>3. PICK v \in Nat : v = called + 1
  BY <1>2
<1>4. 1 \in Counts
  BY CountsParts
<1>5. v \in Strings /\ 0 \in Strings /\ v \in 0 .. MaxVotes
  BY <1>2, <1>3 DEF Strings, Edited
<1>6. CASE is_vote_active /\ level # 0
  BY <1>1, <1>2, <1>6, StackStays DEF ClientCallsVote, game, TypeOK
<1>7. CASE is_vote_active /\ level = 0
  <2>1. PICK h : h = [call |-> "client", at |-> "string", vote |-> v, who |-> p,
                      told |-> 0, by |-> None, count |-> 1]
    OBVIOUS
  <2>2. h \in Call
    BY <1>4, <1>5, <2>1 DEF Call
  <2>3. /\ stack' = [stack EXCEPT ![Main] = Append(stack[Main], h)]
        /\ Crosses(Main, h.call, h.vote)
        /\ level' = v /\ yes' = 1 /\ ballots' = {p} /\ player' = player
    BY <1>2, <1>3, <1>7, <2>1 DEF ClientCallsVote, Push, GameStartsVote
  <2>4. Grows
    <3>1. crossed \subseteq crossed'
      BY <2>3 DEF Crosses
    <3> QED
      BY <1>2, <3>1 DEF Grows
  <2>5. cs \notin {0, v} /\ cs \in Disturbed
    <3>1. cs # 0
      BY <1>7 DEF is_vote_active
    <3>2. ~ \E f \in Calls : Clearing(f) /\ f.vote = cs
      BY <1>1, <1>2, EngineAlone DEF Clearing
    <3> QED
      BY <1>1, <1>2, <1>3, <1>7, <3>1, <3>2 DEF StringKept
  <2>6. Sound(h)'
    <3>1. Shape(h)'
      BY <1>2, <1>3, <2>1 DEF Shape
    <3>2. StringIsStale(v)'
      BY <1>2, <2>4, <2>5 DEF StringIsStale, Disturbed, Grows
    <3>3. CallerKept(h)' /\ Told(h)'
      BY <2>1, <3>2 DEF CallerKept, Told
    <3>4. LevelKept(h)'
      BY <2>1, <2>3 DEF LevelKept, Setting, Clearing
    <3> QED
      BY <3>1, <3>3, <3>4 DEF Sound
  <2>7. /\ Frames' /\ Lonely'
        /\ stack' \in [Threads -> Seq(Call)]
        /\ h \in Calls' /\ Calls \subseteq Calls'
    <3>1. AboutVote(h) /\ level' \in {level, h.vote} /\ cs' = cs
      BY <1>2, <2>1, <2>3 DEF AboutVote
    <3> QED
      BY <1>1, <1>2, <2>2, <2>3, <2>4, <2>6, <3>1, EnginePush
  <2>8. crossed' \subseteq 0 .. MaxVotes
    BY <1>1, <1>2, <1>5, <2>1, <2>3, CrossesType
  <2>9. TypeOK'
    BY <1>1, <1>2, <1>4, <1>5, <2>3, <2>7, <2>8 DEF TypeOK
  <2>10. Starting(h) /\ Setting(h) /\ h.vote = level' /\ h.count = yes'
    BY <2>1, <2>3 DEF Starting, Setting
  <2>11. StringKept'
    <3>1. cs' <= called' /\ level' <= called'
      BY <1>2, <1>3, <2>3
    <3>2. cs' # 0 => cs' \in started'
      BY <1>1, <1>2 DEF StringKept
    <3>3. cs' \in Disturbed'
      BY <1>2, <2>4, <2>5 DEF Disturbed, Grows
    <3> QED
      BY <2>7, <2>10, <3>1, <3>2, <3>3 DEF StringKept, Starting
  <2>12. TurnsKept'
    <3>1. \A w \in started \ over : w \in crossed
      BY <1>1, <1>7 DEF TurnsKept, TypeOK, VoteIds
    <3> QED
      BY <1>2, <2>4, <3>1 DEF TurnsKept, Grows
  <2>13. CountKept'
    BY <2>7, <2>10 DEF CountKept, Setting
  <2> QED
    BY <2>7, <2>9, <2>11, <2>12, <2>13 DEF VInv
<1>8. CASE ~is_vote_active
  <2>1. PICK h : h = [call |-> "client", at |-> "called", vote |-> v, who |-> p,
                      told |-> 0, by |-> None, count |-> 1]
    OBVIOUS
  <2>2. h \in Call
    BY <1>4, <1>5, <2>1 DEF Call
  <2>3. /\ stack' = [stack EXCEPT ![Main] = Append(stack[Main], h)]
        /\ Crosses(Main, h.call, h.vote)
        /\ UNCHANGED <<level, yes, ballots>> /\ player' = p
    BY <1>2, <1>3, <1>8, <2>1 DEF ClientCallsVote, Push, game
  <2>4. Grows
    <3>1. crossed \subseteq crossed'
      BY <2>3 DEF Crosses
    <3> QED
      BY <1>2, <3>1 DEF Grows
  <2>5. Sound(h)'
    <3>1. Shape(h)'
      BY <1>2, <1>3, <2>1 DEF Shape
    <3>2. CallerKept(h)' /\ Told(h)'
      BY <2>1, <2>3 DEF CallerKept, Told
    <3>3. LevelKept(h)'
      BY <2>1 DEF LevelKept, Setting, Clearing
    <3> QED
      BY <3>1, <3>2, <3>3 DEF Sound
  <2>6. /\ Frames' /\ Lonely'
        /\ stack' \in [Threads -> Seq(Call)]
        /\ Calls \subseteq Calls'
    <3>1. AboutVote(h) /\ level' \in {level, h.vote} /\ cs' = cs
      BY <1>2, <2>1, <2>3 DEF AboutVote
    <3> QED
      BY <1>1, <1>2, <2>2, <2>3, <2>4, <2>5, <3>1, EnginePush
  <2>7. crossed' \subseteq 0 .. MaxVotes
    BY <1>1, <1>2, <1>5, <2>1, <2>3, CrossesType
  <2>8. TypeOK'
    BY <1>1, <1>2, <2>3, <2>6, <2>7 DEF TypeOK
  <2>9. StringKept' /\ TurnsKept'
    BY <1>1, <1>2, <2>3, <2>4, <2>6, StringStays
  <2>10. CountKept'
    BY <1>1, <1>2, <2>3, <2>4, <2>6, CountStays
  <2> QED
    BY <2>6, <2>8, <2>9, <2>10 DEF VInv
<1> QED
  BY <1>6, <1>7, <1>8

(* A call that has nothing to do with votes ends. *)
LEMMA QuietPop ==
  ASSUME VInv, NEW t \in Threads, stack[t] # <<>>, Pop(t), ~AboutVote(Top(t)),
         UNCHANGED <<level, yes, cs, csYes, player, called, started, over, crossed, stopped>>,
         ballots' \subseteq Clients
  PROVE  VInv'
<1>1. TypeOK /\ Frames /\ Lonely /\ StringKept /\ TurnsKept /\ CountKept
  BY DEF VInv
<1>2. stack \in [Threads -> Seq(Call)]
  BY <1>1 DEF TypeOK
<1>3. PICK n \in Nat : \E g \in Call : OnTop(t, n, g)
  BY <1>1, TopSound
<1>4. PICK g \in Call : n + 1 = Len(stack[t]) /\ g = Top(t) /\ g = stack[t][n + 1] /\ Sound(g)
  BY <1>3 DEF OnTop
<1>5. Keeps(t, n) /\ Len(stack'[t]) = n
  <2>1. Keeps(t, Len(stack[t]) - 1) /\ Len(stack'[t]) = Len(stack[t]) - 1
    BY <1>2, PopKeeps
  <2>2. Len(stack[t]) - 1 = n
    BY <1>4
  <2> QED
    BY <2>1, <2>2
<1>6. g.at \in {"ballot", "force"}
  BY <1>4 DEF Sound, Shape, AboutVote
<1>7. Grows
  BY <1>1 DEF Grows, TypeOK
<1>8. NestedCaller => NestedCaller'
  <2>1. CASE t = Main
    BY <1>4, <1>6, <2>1 DEF NestedCaller
  <2>2. CASE t # Main
    <3>1. t \in Threads \ {Main}
      BY <2>2
    <3> QED
      BY <1>5, <3>1, NestedStays
  <2> QED
    BY <2>1, <2>2
<1>9. Rest(t, n) \subseteq Calls /\ \A f \in Calls : f = g \/ f \in Calls'
  <2>1. /\ Rest(t, n) \subseteq Calls /\ Rest(t, n) \subseteq Calls'
        /\ \A f \in Calls : f \in Rest(t, n) \/ \E d \in n + 1 .. Len(stack[t]) : f = stack[t][d]
    BY <1>2, <1>5, CallsMove
  <2>2. \A d \in n + 1 .. Len(stack[t]) : d = n + 1
    BY <1>4
  <2> QED
    BY <1>4, <2>1, <2>2
<1>10. Frames'
  <2>1. \A f \in Rest(t, n) : Sound(f)'
    BY <1>1, <1>7, <1>8, <1>9, QuietCalls
  <2>2. Len(stack'[t]) # n + 1
    BY <1>5
  <2> QED
    BY <1>1, <1>5, <2>1, <2>2, FramesKept
<1>11. Lonely'
  <2>1. Len(stack'[t]) # n + 1 /\ crossed \subseteq crossed'
    BY <1>5
  <2> QED
    BY <1>1, <1>2, <1>4, <1>5, <2>1, LonelyTop
<1>12. TypeOK'
  BY <1>1, <1>5 DEF TypeOK, Keeps
<1>13. StringKept' /\ TurnsKept'
  <2>1. ~Starting(g) /\ ~Clearing(g)
    BY <1>6 DEF Starting, Clearing
  <2> QED
    BY <1>1, <1>7, <1>9, <2>1, StringStays
<1>14. CountKept'
  <2>1. ~Setting(g)
    BY <1>6 DEF Setting
  <2> QED
    BY <1>1, <1>7, <1>9, <2>1, CountStays
<1> QED
  BY <1>10, <1>11, <1>12, <1>13, <1>14 DEF VInv

(* The handlers of vote return. *)
LEMMA VoteReturnsKeeps ==
  ASSUME VInv, NEW denied \in BOOLEAN, VoteReturns(denied)
  PROVE  VInv'
<1>1. TypeOK /\ Frames /\ Main \in Threads
  BY VotesAssumption DEF VInv
<1>2. stack[Main] # <<>> /\ Top(Main).at = "ballot" /\ Pop(Main)
  BY DEF VoteReturns, InCall
<1>3. PICK n \in Nat : \E g \in Call : g = Top(Main) /\ Sound(g)
  BY <1>1, <1>2, TopSound DEF OnTop
<1>4. Shape(Top(Main)) /\ Top(Main) \in Call
  BY <1>3 DEF Sound
<1>5. ~AboutVote(Top(Main))
  BY <1>2, <1>4 DEF Shape, AboutVote
<1>6. ballots' \subseteq Clients
  <2>1. Top(Main).who \in Clients
    BY <1>2, <1>4 DEF Shape
  <2> QED
    BY <1>1, <2>1 DEF VoteReturns, TypeOK
<1> QED
  BY <1>1, <1>2, <1>5, <1>6, QuietPop DEF VoteReturns, configstrings, histories

(* force_vote sets the vote states. *)
LEMMA SetVoteStatesKeeps ==
  ASSUME VInv, NEW t \in Threads, NEW pass \in BOOLEAN, SetVoteStates(t, pass)
  PROVE  VInv'
<1>1. TypeOK /\ Frames
  BY DEF VInv
<1>2. stack[t] # <<>> /\ Top(t).at = "force" /\ Pop(t)
  BY DEF SetVoteStates, InCall
<1>3. PICK n \in Nat : \E g \in Call : g = Top(t) /\ Sound(g)
  BY <1>1, <1>2, TopSound DEF OnTop
<1>4. ~AboutVote(Top(t))
  BY <1>2, <1>3 DEF Sound, Shape, AboutVote
<1>5. ballots' \subseteq Clients
  BY DEF SetVoteStates
<1> QED
  BY <1>2, <1>4, <1>5, QuietPop DEF SetVoteStates, configstrings, histories

(* What the call on top, about a vote, has to do with any other. *)
LEMMA Alongside ==
  ASSUME TypeOK, Lonely, NEW t \in Threads, NEW n \in Nat, NEW g \in Call, OnTop(t, n, g),
         AboutVote(g), NEW f \in Calls, AboutVote(f), f # g
  PROVE  \/ f.at = "called"
         \/ f.vote \in crossed /\ g.vote \in crossed
<1>1. stack \in [Threads -> Seq(Call)]
  BY DEF TypeOK
<1>2. /\ \A u \in Threads : DOMAIN stack[u] = 1 .. Len(stack[u])
      /\ n + 1 = Len(stack[t]) /\ g = stack[t][n + 1]
  BY <1>1, StackParts DEF OnTop
<1>3. PICK u \in Threads : \E d \in DOMAIN stack[u] : f = stack[u][d]
  BY <1>1, CallParts
<1>4. PICK d \in DOMAIN stack[u] : f = stack[u][d]
  BY <1>3
<1>5. n + 1 \in DOMAIN stack[t]
  BY <1>2
<1>6. u # t \/ d < n + 1
  BY <1>2, <1>4
<1> QED
  BY <1>2, <1>4, <1>5, <1>6 DEF Lonely

(* A call on top that is about to call a vote. *)
LEMMA CallsNested ==
  ASSUME stack \in [Threads -> Seq(Call)], Main \in Threads, NEW h \in Call,
         stack[Main] # <<>>, SetTop(Main, h), h.at \in {"checked", "level"}
  PROVE  NestedCaller'
<1>1. /\ Len(stack'[Main]) = Len(stack[Main])
      /\ stack'[Main][Len(stack[Main])] = h
  BY SetTopKeeps
<1>2. Len(stack[Main]) # 0
  BY TopParts
<1>3. stack'[Main] # <<>>
  <2>1. Len(<<>>) = 0
    OBVIOUS
  <2> QED
    BY <1>1, <1>2, <2>1
<1> QED
  BY <1>1, <1>3 DEF NestedCaller, Top

(* The handlers of vote_called return. *)
LEMMA VoteCalledReturnsKeeps ==
  ASSUME VInv, VoteCalledReturns
  PROVE  VInv'
<1>1. /\ TypeOK /\ Frames /\ Lonely /\ StringKept /\ TurnsKept /\ CountKept
      /\ Main \in Threads /\ stack[Main] # <<>> /\ Top(Main).at = "called"
      /\ UNCHANGED <<cs, csYes, player, called, started, over, crossed, stopped>>
  BY VotesAssumption DEF VInv, VoteCalledReturns, InCall, configstrings, histories
<1>2. PICK n \in Nat : \E g \in Call : OnTop(Main, n, g)
  BY <1>1, TopSound
<1>3. PICK g \in Call : OnTop(Main, n, g)
  BY <1>2
<1>4. g = Top(Main) /\ g.at = "called" /\ Sound(g) /\ g \in Calls
  BY <1>1, <1>3 DEF OnTop
<1>5. /\ called \in Nat /\ called <= MaxVotes /\ MaxVotes \in Nat
      /\ g.vote \in 1 .. called /\ g.call = "client" /\ g.count = 1 /\ g.who \in Clients
  BY <1>1, <1>4, VotesAssumption DEF TypeOK, Sound, Shape
<1>6. Grows
  BY <1>1, <1>5 DEF Grows
<1>7. AboutVote(g) /\ ~Starting(g) /\ ~Setting(g) /\ ~Clearing(g)
  BY <1>4, <1>5 DEF AboutVote, Starting, Setting, Clearing
<1>8. CASE Pop(Main) /\ UNCHANGED game
  <2>1. Steps(Main, n, g)
    BY <1>1, <1>4, <1>8 DEF Steps, game
  <2>2. /\ Frames' /\ Lonely'
        /\ stack' \in [Threads -> Seq(Call)]
        /\ \A f \in Calls : f = g \/ f \in Calls'
    BY <1>1, <1>3, <1>6, <1>7, <1>8, <2>1, Ends
  <2>3. TypeOK'
    BY <1>1, <1>8, <2>2 DEF TypeOK, game
  <2>4. StringKept' /\ TurnsKept'
    BY <1>1, <1>6, <1>7, <1>8, <2>2, StringStays DEF game
  <2>5. CountKept'
    BY <1>1, <1>6, <1>7, <1>8, <2>2, CountStays DEF game
  <2> QED
    BY <2>2, <2>3, <2>4, <2>5 DEF VInv
<1>9. CASE /\ level = 0
           /\ GameStartsVote(Top(Main).vote, Top(Main).who)
           /\ SetTop(Main, [Top(Main) EXCEPT !.at = "string"])
  <2>1. PICK h \in Call : h = [g EXCEPT !.at = "string"]
    BY DEF Call
  <2>2. /\ h.call = g.call /\ h.vote = g.vote /\ h.at = "string" /\ h.who = g.who
        /\ h.count = 1
    BY <1>5, <2>1 DEF Call
  <2>3. level = 0 /\ level' = g.vote /\ yes' = 1 /\ ballots' = {g.who} /\ SetTop(Main, h)
    BY <1>4, <1>9, <2>1 DEF GameStartsVote
  <2>4. Sound(h)'
    <3>1. Shape(h)'
      BY <1>1, <1>5, <2>2 DEF Shape
    <3>2. player = g.who \/ g.vote \in crossed
      BY <1>4, <2>3 DEF Sound, CallerKept, NestedCaller
    <3>3. CallerKept(h)' /\ Told(h)'
      BY <1>1, <2>2, <3>2 DEF CallerKept, Told
    <3>4. LevelKept(h)'
      BY <2>2, <2>3 DEF LevelKept, Setting, Clearing
    <3> QED
      BY <3>1, <3>3, <3>4 DEF Sound
  <2>5. Steps(Main, n, g)
    BY <1>1, <1>4, <2>3 DEF Steps
  <2>6. /\ Frames' /\ Lonely'
        /\ stack' \in [Threads -> Seq(Call)]
        /\ h \in Calls' /\ \A f \in Calls : f = g \/ f \in Calls'
    BY <1>1, <1>3, <1>6, <1>7, <2>2, <2>3, <2>4, <2>5, GoesOn
  <2>7. TypeOK'
    <3>1. 1 \in Counts
      BY <1>5, CountsParts
    <3> QED
      BY <1>1, <1>5, <2>3, <2>6, <3>1 DEF TypeOK
  <2>8. Starting(h) /\ Setting(h) /\ h.vote = level' /\ h.count = yes'
    BY <1>5, <2>2, <2>3 DEF Starting, Setting
  <2>9. StringKept'
    <3>1. cs' <= called' /\ level' <= called' /\ (cs' # 0 => cs' \in started')
      BY <1>1, <1>5, <2>3 DEF StringKept
    <3>2. ASSUME cs' \notin {0, level'}
          PROVE  cs' \in Disturbed' \/ \E f \in Calls' : Clearing(f) /\ f.vote = cs'
      <4>1. cs \in Disturbed \/ \E f \in Calls : Clearing(f) /\ f.vote = cs
        BY <1>1, <2>3, <3>2 DEF StringKept
      <4> QED
        BY <1>1, <1>7, <2>6, <4>1 DEF Disturbed
    <3> QED
      BY <2>6, <2>8, <3>1, <3>2 DEF StringKept, Clearing, Starting
  <2>10. TurnsKept'
    <3>1. \A w \in started \ over : w \in crossed
      BY <1>1, <2>3 DEF TurnsKept, TypeOK, VoteIds
    <3> QED
      BY <1>1, <3>1 DEF TurnsKept
  <2>11. CountKept'
    BY <2>6, <2>8 DEF CountKept, Setting
  <2> QED
    BY <2>6, <2>7, <2>9, <2>10, <2>11 DEF VInv
<1> QED
  BY <1>8, <1>9 DEF VoteCalledReturns

(* Plugin.callvote forgets the last caller. *)
LEMMA ClearsCallerKeeps ==
  ASSUME VInv, NEW t \in Threads, ClearsCaller(t)
  PROVE  VInv'
<1>1. /\ TypeOK /\ Frames /\ Lonely /\ StringKept /\ TurnsKept /\ CountKept
      /\ stack[t] # <<>> /\ Top(t).at = "checked" /\ player' = None
      /\ SetTop(t, [Top(t) EXCEPT !.at = "level"])
      /\ UNCHANGED <<level, yes, ballots, cs, csYes, called, started, over, crossed, stopped>>
  BY DEF VInv, ClearsCaller, InCall, game, configstrings, histories
<1>2. PICK n \in Nat : \E g \in Call : OnTop(t, n, g)
  BY <1>1, TopSound
<1>3. PICK g \in Call : OnTop(t, n, g)
  BY <1>2
<1>4. g = Top(t) /\ g.at = "checked" /\ Sound(g)
  BY <1>1, <1>3 DEF OnTop
<1>5. g.call = "plugin" /\ g.who = None /\ g.count = 0 /\ g.vote \in 1 .. called
  BY <1>4 DEF Sound, Shape
<1>6. Grows
  BY <1>1 DEF Grows, TypeOK
<1>7. AboutVote(g) /\ ~Starting(g) /\ ~Setting(g) /\ ~Clearing(g)
  BY <1>4, <1>5 DEF AboutVote, Starting, Setting, Clearing
<1>8. PICK h \in Call : h = [g EXCEPT !.at = "level"]
  BY DEF Call
<1>9. /\ h.call = g.call /\ h.vote = g.vote /\ h.at = "level" /\ h.who = g.who
      /\ h.count = g.count /\ SetTop(t, h)
  BY <1>1, <1>4, <1>8 DEF Call
<1>10. Sound(h)'
  <2>1. Shape(h)'
    BY <1>1, <1>5, <1>9 DEF Shape
  <2>2. CallerKept(h)' /\ Told(h)'
    BY <1>1, <1>5, <1>9 DEF CallerKept, Told
  <2>3. LevelKept(h)'
    BY <1>1, <1>4, <1>9 DEF Sound, LevelKept, Setting, Clearing
  <2> QED
    BY <2>1, <2>2, <2>3 DEF Sound
<1>11. Steps(t, n, g)
  <2>1. t = Main => NestedCaller'
    BY <1>1, <1>9, CallsNested DEF TypeOK
  <2> QED
    BY <1>1, <2>1 DEF Steps
<1>12. /\ Frames' /\ Lonely'
       /\ stack' \in [Threads -> Seq(Call)]
       /\ \A f \in Calls : f = g \/ f \in Calls'
  BY <1>3, <1>6, <1>7, <1>9, <1>10, <1>11, GoesOn
<1>13. TypeOK'
  BY <1>1, <1>12 DEF TypeOK
<1>14. StringKept' /\ TurnsKept'
  BY <1>1, <1>6, <1>7, <1>12, StringStays
<1>15. CountKept'
  BY <1>1, <1>6, <1>7, <1>12, CountStays
<1> QED
  BY <1>12, <1>13, <1>14, <1>15 DEF VInv

(* The game takes a plugin's vote. *)
LEMMA LevelTakesVoteKeeps ==
  ASSUME VInv, NEW t \in Threads, LevelTakesVote(t)
  PROVE  VInv'
<1>1. /\ TypeOK /\ Frames /\ Lonely /\ StringKept /\ TurnsKept /\ CountKept
      /\ stack[t] # <<>> /\ Top(t).at = "level"
      /\ level' = Top(t).vote /\ yes' = 0 /\ ballots' = {}
      /\ SetTop(t, [Top(t) EXCEPT !.at = "string"])
      /\ UNCHANGED <<cs, csYes, player, called, started, over, crossed, stopped>>
  BY DEF VInv, LevelTakesVote, InCall, configstrings, histories
<1>2. PICK n \in Nat : \E g \in Call : OnTop(t, n, g)
  BY <1>1, TopSound
<1>3. PICK g \in Call : OnTop(t, n, g)
  BY <1>2
<1>4. g = Top(t) /\ g.at = "level" /\ Sound(g)
  BY <1>1, <1>3 DEF OnTop
<1>5. /\ g.call = "plugin" /\ g.who = None /\ g.count = 0 /\ g.vote \in 1 .. called
      /\ called \in Nat /\ called <= MaxVotes /\ MaxVotes \in Nat
  BY <1>1, <1>4, VotesAssumption DEF Sound, Shape, TypeOK
<1>6. Grows
  BY <1>1, <1>5 DEF Grows
<1>7. AboutVote(g) /\ ~Starting(g) /\ ~Setting(g) /\ ~Clearing(g)
  BY <1>4, <1>5 DEF AboutVote, Starting, Setting, Clearing
<1>8. PICK h \in Call : h = [g EXCEPT !.at = "string"]
  BY DEF Call
<1>9. /\ h.call = g.call /\ h.vote = g.vote /\ h.at = "string" /\ h.who = g.who
      /\ h.count = g.count /\ SetTop(t, h)
  BY <1>1, <1>4, <1>8 DEF Call
<1>10. level' = g.vote /\ (cs = 0 \/ cs \in crossed)
  BY <1>1, <1>4 DEF Sound, LevelKept
<1>11. Sound(h)'
  <2>1. Shape(h)'
    BY <1>1, <1>5, <1>9 DEF Shape
  <2>2. CallerKept(h)' /\ Told(h)'
    BY <1>1, <1>4, <1>9 DEF Sound, CallerKept, Told
  <2>3. LevelKept(h)'
    BY <1>1, <1>5, <1>9, <1>10 DEF LevelKept, Setting, Clearing
  <2> QED
    BY <2>1, <2>2, <2>3 DEF Sound
<1>12. Steps(t, n, g)
  BY <1>1, <1>5, <1>10 DEF Steps
<1>13. /\ Frames' /\ Lonely'
       /\ stack' \in [Threads -> Seq(Call)]
       /\ h \in Calls' /\ \A f \in Calls : f = g \/ f \in Calls'
  BY <1>3, <1>6, <1>7, <1>9, <1>11, <1>12, GoesOn
<1>14. TypeOK'
  BY <1>1, <1>5, <1>10, <1>13, CountsParts DEF TypeOK
<1>15. Starting(h) /\ Setting(h) /\ h.vote = level' /\ h.count = yes'
  BY <1>1, <1>5, <1>9, <1>10 DEF Starting, Setting
<1>16. StringKept'
  <2>1. cs' <= called' /\ level' <= called' /\ (cs' # 0 => cs' \in started')
    BY <1>1, <1>5, <1>10 DEF StringKept
  <2>2. cs' \notin {0, level'} => cs' \in Disturbed'
    BY <1>1, <1>10 DEF Disturbed
  <2> QED
    BY <1>13, <1>15, <2>1, <2>2 DEF StringKept, Starting
<1>17. TurnsKept'
  <2> SUFFICES ASSUME NEW w \in started \ over
               PROVE  w \in crossed
    BY <1>1 DEF TurnsKept
  <2>1. w # 0
    BY <1>1 DEF TypeOK, VoteIds
  <2>2. ASSUME NEW f \in Calls, Starting(f), f.at = "started", f.vote = w
        PROVE  w \in crossed
    <3>1. AboutVote(f) /\ f # g /\ f.at # "called"
      <4>1. Shape(f)
        BY <1>1 DEF Frames, Sound
      <4> QED
        BY <1>4, <2>2, <4>1 DEF Shape, AboutVote, Starting
    <3> QED
      BY <1>1, <1>3, <1>7, <2>2, <3>1, Alongside
  <2> QED
    BY <1>1, <1>10, <2>1, <2>2 DEF TurnsKept
<1>18. CountKept'
  BY <1>13, <1>15 DEF CountKept, Setting
<1> QED
  BY <1>13, <1>14, <1>16, <1>17, <1>18 DEF VInv

(* A handler stops the string. *)
LEMMA StringStoppedKeeps ==
  ASSUME VInv, NEW t \in Threads, StringStopped(t)
  PROVE  VInv'
<1>1. /\ TypeOK /\ Frames /\ Lonely /\ StringKept /\ TurnsKept /\ CountKept
      /\ stack[t] # <<>> /\ Top(t).at \in {"string", "clear"}
      /\ stopped' = stopped \cup {Top(t).vote} /\ AfterString(t)
      /\ UNCHANGED <<level, yes, ballots, cs, csYes, player, called, started, over, crossed>>
  BY DEF VInv, StringStopped, InCall, game, configstrings
<1>2. PICK n \in Nat : \E g \in Call : OnTop(t, n, g)
  BY <1>1, TopSound
<1>3. PICK g \in Call : OnTop(t, n, g)
  BY <1>2
<1>4. g = Top(t) /\ g.at \in {"string", "clear"} /\ Sound(g) /\ g.vote \in stopped'
  BY <1>1, <1>3 DEF OnTop
<1>5. /\ g.vote \in 1 .. called
      /\ called \in Nat /\ called <= MaxVotes /\ MaxVotes \in Nat
      /\ g.call \in {"client", "plugin", "end"}
      /\ g.call # "end" => g.at = "string"
  BY <1>1, <1>4, VotesAssumption DEF Sound, Shape, TypeOK
<1>6. Grows
  BY <1>1, <1>5 DEF Grows
<1>7. AboutVote(g) /\ g.at # "started" /\ g.vote \in Disturbed'
  BY <1>4, <1>5 DEF AboutVote, Disturbed
<1>8. Steps(t, n, g)
  BY <1>1, <1>4 DEF Steps
<1>9. /\ Frames' /\ Lonely'
      /\ stack' \in [Threads -> Seq(Call)]
      /\ \A f \in Calls : f = g \/ f \in Calls'
  <2>1. CASE g.call = "end"
    <3>1. Pop(t)
      BY <1>1, <1>4, <2>1 DEF AfterString
    <3> QED
      BY <1>3, <1>6, <1>7, <1>8, <3>1, Ends
  <2>2. CASE g.call # "end"
    <3>1. PICK h \in Call : h = [g EXCEPT !.at = "yes"]
      BY DEF Call
    <3>2. /\ h.call = g.call /\ h.vote = g.vote /\ h.at = "yes" /\ h.who = g.who
          /\ h.count = g.count /\ SetTop(t, h)
      BY <1>1, <1>4, <2>2, <3>1 DEF Call, AfterString
    <3>3. Sound(h)'
      <4>1. Shape(h)'
        BY <1>1, <1>4, <1>5, <2>2, <3>2 DEF Sound, Shape
      <4>2. CallerKept(h)' /\ Told(h)'
        BY <3>2 DEF CallerKept, Told
      <4>3. LevelKept(h)'
        BY <1>1, <1>4, <1>5, <2>2, <3>2 DEF Sound, LevelKept, Setting, Clearing
      <4> QED
        BY <4>1, <4>2, <4>3 DEF Sound
    <3> QED
      BY <1>3, <1>6, <1>7, <1>8, <3>2, <3>3, GoesOn
  <2> QED
    BY <2>1, <2>2
<1>10. TypeOK'
  <2>1. stopped' \subseteq VoteIds
    <3>1. g.vote \in VoteIds
      BY <1>5 DEF VoteIds
    <3>2. stopped \subseteq VoteIds /\ stopped' = stopped \cup {g.vote}
      BY <1>1, <1>4 DEF TypeOK
    <3> QED
      BY <3>1, <3>2
  <2> QED
    BY <1>1, <1>9, <2>1 DEF TypeOK
<1>11. StringKept' /\ TurnsKept'
  BY <1>1, <1>6, <1>7, <1>9, StringStays
<1>12. CountKept'
  BY <1>1, <1>6, <1>7, <1>9, CountStays
<1> QED
  BY <1>9, <1>10, <1>11, <1>12 DEF VInv

(* vote_started is dispatched. *)
LEMMA StringAnnouncedKeeps ==
  ASSUME VInv, NEW t \in Threads, NEW edited \in BOOLEAN, StringAnnounced(t, edited)
  PROVE  VInv'
<1>1. /\ TypeOK /\ Frames /\ Lonely /\ StringKept /\ TurnsKept /\ CountKept
      /\ stack[t] # <<>> /\ Top(t).at \in {"string", "clear"}
      /\ started' = started \cup {Top(t).vote}
      /\ SetTop(t, [Top(t) EXCEPT !.at = "started",
                                  !.told = IF edited THEN Edited ELSE Top(t).vote,
                                  !.by = player])
      /\ UNCHANGED <<level, yes, ballots, cs, csYes, player, called, over, crossed, stopped>>
  BY DEF VInv, StringAnnounced, VoteStartedTells, InCall, game, configstrings
<1>2. PICK n \in Nat : \E g \in Call : OnTop(t, n, g)
  BY <1>1, TopSound
<1>3. PICK g \in Call : OnTop(t, n, g)
  BY <1>2
<1>4. g = Top(t) /\ g.at \in {"string", "clear"} /\ Sound(g)
  BY <1>1, <1>3 DEF OnTop
<1>5. /\ g.vote \in 1 .. called
      /\ called \in Nat /\ called <= MaxVotes /\ MaxVotes \in Nat
      /\ g.call \in {"client", "plugin", "end"}
      /\ g.call # "end" => g.at = "string"
      /\ g.call = "end" => g.at = "clear"
  BY <1>1, <1>4, VotesAssumption DEF Sound, Shape, TypeOK
<1>6. Grows
  BY <1>1, <1>5 DEF Grows
<1>7. AboutVote(g)
  BY <1>5 DEF AboutVote
<1>8. PICK told \in Strings : told = IF edited THEN Edited ELSE Top(t).vote
  <2>1. g.vote \in Strings /\ Edited \in Strings
    BY <1>5 DEF Strings, Edited
  <2> QED
    BY <1>4, <2>1
<1>9. PICK h \in Call : h = [g EXCEPT !.at = "started", !.told = told, !.by = player]
  <2>1. player \in Clients \cup {None}
    BY <1>1 DEF TypeOK
  <2> QED
    BY <2>1 DEF Call
<1>10. /\ h.call = g.call /\ h.vote = g.vote /\ h.at = "started" /\ h.who = g.who
       /\ h.count = g.count /\ h.by = player /\ SetTop(t, h)
  BY <1>1, <1>4, <1>8, <1>9 DEF Call
<1>11. Sound(h)'
  <2>1. Shape(h)'
    BY <1>1, <1>4, <1>5, <1>10 DEF Sound, Shape
  <2>2. StringIsStale(g.vote)' <=> StringIsStale(g.vote)
    BY <1>1 DEF StringIsStale
  <2>3. CallerKept(h)'
    BY <1>1, <1>4, <1>5, <1>10, <2>2 DEF Sound, CallerKept
  <2>4. LevelKept(h)'
    BY <1>1, <1>4, <1>5, <1>10 DEF Sound, LevelKept, Setting, Clearing
  <2>5. Told(h)'
    BY <1>1, <1>4, <1>10 DEF Told
  <2> QED
    BY <2>1, <2>3, <2>4, <2>5 DEF Sound
<1>12. Steps(t, n, g)
  BY <1>1, <1>4 DEF Steps
<1>13. /\ Frames' /\ Lonely'
       /\ stack' \in [Threads -> Seq(Call)]
       /\ h \in Calls' /\ \A f \in Calls : f = g \/ f \in Calls'
  BY <1>3, <1>6, <1>7, <1>10, <1>11, <1>12, GoesOn
<1>14. TypeOK'
  <2>1. started' \subseteq VoteIds
    BY <1>1, <1>4, <1>5 DEF TypeOK, VoteIds
  <2> QED
    BY <1>1, <1>13, <2>1 DEF TypeOK
<1>15. /\ Starting(g) => Starting(h)
       /\ Clearing(g) => Clearing(h)
       /\ Setting(g) => Setting(h)
  BY <1>10 DEF Starting, Clearing, Setting
<1>16. StringKept'
  <2>1. cs' <= called' /\ level' <= called' /\ (cs' # 0 => cs' \in started')
    BY <1>1 DEF StringKept
  <2>2. ASSUME cs \notin {0, level}
        PROVE  cs \in Disturbed \/ \E f \in Calls' : Clearing(f) /\ f.vote = cs
    <3>1. cs \in Disturbed \/ \E f \in Calls : Clearing(f) /\ f.vote = cs
      BY <1>1, <2>2 DEF StringKept
    <3> QED
      BY <1>10, <1>13, <1>15, <3>1
  <2>3. ASSUME level \notin {0, cs}
        PROVE  level \in Disturbed \/ \E f \in Calls' : Starting(f) /\ f.vote = level
    <3>1. level \in Disturbed \/ \E f \in Calls : Starting(f) /\ f.vote = level
      BY <1>1, <2>3 DEF StringKept
    <3> QED
      BY <1>10, <1>13, <1>15, <3>1
  <2> QED
    BY <1>1, <2>1, <2>2, <2>3 DEF StringKept, Disturbed, Clearing, Starting
<1>17. TurnsKept'
  <2> SUFFICES ASSUME NEW w \in started' \ over
               PROVE  \/ w \in crossed
                      \/ /\ w = level
                         /\ \/ cs = w
                            \/ \E f \in Calls' :
                                 Starting(f) /\ f.at = "started" /\ f.vote = w
    BY <1>1 DEF TurnsKept, Starting
  <2>1. CASE w \in started
    <3>1. \/ w \in crossed
          \/ /\ w = level
             /\ \/ cs = w
                \/ \E f \in Calls : Starting(f) /\ f.at = "started" /\ f.vote = w
      BY <1>1, <2>1 DEF TurnsKept
    <3> QED
      BY <1>4, <1>13, <3>1
  <2>2. CASE w \notin started
    <3>1. w = g.vote
      BY <1>1, <1>4, <2>2
    <3>2. g.call # "end"
      BY <1>4, <1>5, <3>1 DEF Sound, LevelKept, Clearing
    <3>3. Setting(g) /\ Starting(h)
      BY <1>5, <1>10, <3>2 DEF Setting, Starting
    <3>4. level = w \/ w \in crossed
      BY <1>4, <3>1, <3>3 DEF Sound, LevelKept
    <3> QED
      BY <1>10, <1>13, <3>1, <3>3, <3>4
  <2> QED
    BY <2>1, <2>2
<1>18. CountKept'
  BY <1>1, <1>6, <1>10, <1>13, <1>15, CountStays
<1> QED
  BY <1>13, <1>14, <1>16, <1>17, <1>18 DEF VInv

(* A string is cleared. *)
LEMMA StringEmpties ==
  ASSUME VInv, NEW t \in Threads, stack[t] # <<>>, Clearing(Top(t)), cs' = 0, AfterString(t),
         UNCHANGED <<level, yes, ballots, csYes, player, called, started, over, crossed, stopped>>
  PROVE  VInv'
<1>1. TypeOK /\ Frames /\ Lonely /\ StringKept /\ TurnsKept /\ CountKept
  BY DEF VInv
<1>2. PICK n \in Nat : \E g \in Call : OnTop(t, n, g)
  BY <1>1, TopSound
<1>3. PICK g \in Call : OnTop(t, n, g)
  BY <1>2
<1>4. /\ g = Top(t) /\ g.call = "end" /\ Clearing(g) /\ g.at \in {"clear", "started"}
      /\ level \in crossed \cup {0}
  BY <1>3 DEF OnTop, Sound, LevelKept, Clearing
<1>5. Pop(t)
  BY <1>4 DEF AfterString
<1>6. Grows
  BY <1>1 DEF Grows, TypeOK
<1>7. AboutVote(g)
  BY <1>4 DEF AboutVote
<1>8. Steps(t, n, g)
  BY <1>4 DEF Steps
<1>9. /\ Frames' /\ Lonely'
      /\ stack' \in [Threads -> Seq(Call)]
  BY <1>3, <1>5, <1>6, <1>7, <1>8, Ends
<1>10. TypeOK'
  <2>1. 0 \in 0 .. MaxVotes
    BY VotesAssumption
  <2> QED
    BY <1>1, <1>9, <2>1 DEF TypeOK
<1>11. StringKept'
  <2>1. cs' <= called' /\ level' <= called'
    BY <1>1 DEF StringKept, TypeOK
  <2>2. level' \notin {0, cs'} => level' \in Disturbed'
    BY <1>4 DEF Disturbed
  <2> QED
    BY <2>1, <2>2 DEF StringKept
<1>12. TurnsKept'
  <2> SUFFICES ASSUME NEW w \in started \ over
               PROVE  w \in crossed
    BY DEF TurnsKept
  <2>1. w # 0
    BY <1>1 DEF TypeOK, VoteIds
  <2>2. w \in crossed \/ w = level
    BY <1>1 DEF TurnsKept
  <2> QED
    BY <1>4, <2>1, <2>2
<1>13. CountKept'
  BY <1>4 DEF CountKept, Disturbed
<1> QED
  BY <1>9, <1>10, <1>11, <1>12, <1>13 DEF VInv

(* The engine clears the string. *)
LEMMA StringClearedKeeps ==
  ASSUME VInv, StringCleared
  PROVE  VInv'
<1>1. /\ TypeOK /\ Frames /\ Main \in Threads
      /\ stack[Main] # <<>> /\ Top(Main).at = "clear" /\ cs' = 0 /\ AfterString(Main)
      /\ UNCHANGED <<level, yes, ballots, csYes, player, called, started, over, crossed, stopped>>
  BY VotesAssumption DEF VInv, StringCleared, InCall, game, histories
<1>2. Clearing(Top(Main))
  <2>1. PICK n \in Nat : \E g \in Call : OnTop(Main, n, g)
    BY <1>1, TopSound
  <2>2. Shape(Top(Main))
    BY <2>1 DEF OnTop, Sound
  <2> QED
    BY <1>1, <2>2 DEF Shape, Clearing
<1> QED
  BY <1>1, <1>2, StringEmpties

(* The engine gets the string. *)
LEMMA VoteStartedReturnsKeeps ==
  ASSUME VInv, NEW t \in Threads, VoteStartedReturns(t)
  PROVE  VInv'
<1>1. /\ TypeOK /\ Frames /\ Lonely /\ StringKept /\ TurnsKept /\ CountKept
      /\ stack[t] # <<>> /\ Top(t).at = "started" /\ AfterString(t)
      /\ cs' = IF Top(t).call = "end" THEN 0 ELSE Top(t).vote
      /\ UNCHANGED <<level, yes, ballots, csYes, player, called, started, over, crossed, stopped>>
  BY DEF VInv, VoteStartedReturns, InCall, game, histories
<1>2. PICK n \in Nat : \E g \in Call : OnTop(t, n, g)
  BY <1>1, TopSound
<1>3. PICK g \in Call : OnTop(t, n, g)
  BY <1>2
<1>4. g = Top(t) /\ g.at = "started" /\ Sound(g) /\ g.vote \in started
  BY <1>1, <1>3 DEF OnTop, Sound, Told
<1>5. CASE g.call = "end"
  <2>1. Clearing(Top(t)) /\ cs' = 0
    BY <1>1, <1>4, <1>5 DEF Clearing
  <2> QED
    BY <1>1, <2>1, StringEmpties
<1>6. CASE g.call # "end"
  <2>1. /\ g.vote \in 1 .. called
        /\ called \in Nat /\ called <= MaxVotes /\ MaxVotes \in Nat
        /\ g.call \in {"client", "plugin"}
    BY <1>1, <1>4, <1>6, VotesAssumption DEF Sound, Shape, TypeOK
  <2>2. Grows
    BY <1>1, <2>1 DEF Grows
  <2>3. AboutVote(g) /\ Setting(g) /\ ~Clearing(g)
    BY <1>4, <1>6, <2>1 DEF AboutVote, Setting, Clearing
  <2>4. \/ level = g.vote /\ g.count = yes
        \/ g.vote \in crossed /\ level \in crossed \cup {0}
    BY <1>4, <2>3 DEF Sound, LevelKept
  <2>5. cs' = g.vote
    BY <1>1, <1>4, <1>6
  <2>6. PICK h \in Call : h = [g EXCEPT !.at = "yes"]
    BY DEF Call
  <2>7. /\ h.call = g.call /\ h.vote = g.vote /\ h.at = "yes" /\ h.who = g.who
        /\ h.count = g.count /\ SetTop(t, h)
    BY <1>1, <1>4, <1>6, <2>6 DEF Call, AfterString
  <2>8. Sound(h)'
    <3>1. Shape(h)'
      BY <1>1, <1>4, <2>1, <2>7 DEF Sound, Shape
    <3>2. CallerKept(h)' /\ Told(h)'
      BY <2>7 DEF CallerKept, Told
    <3>3. LevelKept(h)'
      BY <1>1, <2>1, <2>4, <2>7 DEF LevelKept, Setting, Clearing
    <3> QED
      BY <3>1, <3>2, <3>3 DEF Sound
  <2>9. Steps(t, n, g)
    BY <1>1, <1>4, <2>5 DEF Steps
  <2>10. /\ Frames' /\ Lonely'
         /\ stack' \in [Threads -> Seq(Call)]
         /\ h \in Calls' /\ \A f \in Calls : f = g \/ f \in Calls'
    BY <1>3, <2>2, <2>3, <2>7, <2>8, <2>9, GoesOn
  <2>11. TypeOK'
    <3>1. cs' \in 0 .. MaxVotes
      BY <2>1, <2>5
    <3> QED
      BY <1>1, <2>10, <3>1 DEF TypeOK
  <2>12. StringKept'
    <3>1. cs' <= called' /\ level' <= called' /\ cs' \in started'
      BY <1>1, <1>4, <2>1, <2>5 DEF StringKept
    <3>2. level = cs' \/ (cs' \in crossed' /\ level' \in crossed' \cup {0})
      BY <1>1, <2>4, <2>5
    <3> QED
      BY <1>1, <3>1, <3>2 DEF StringKept, Disturbed
  <2>13. TurnsKept'
    <3> SUFFICES ASSUME NEW w \in started \ over, w \notin crossed
                 PROVE  w = level /\ cs' = w
      BY <1>1 DEF TurnsKept
    <3>1. w # 0
      BY <1>1 DEF TypeOK, VoteIds
    <3>2. w = level
      BY <1>1 DEF TurnsKept
    <3> QED
      BY <2>4, <2>5, <3>1, <3>2
  <2>14. CountKept'
    <3>1. Setting(h)
      BY <2>1, <2>7 DEF Setting
    <3> QED
      BY <1>1, <2>2, <2>7, <2>10, <3>1, CountStays
  <2> QED
    BY <2>10, <2>11, <2>12, <2>13, <2>14 DEF VInv
<1> QED
  BY <1>5, <1>6

(* The count is set. *)
LEMMA CountSetKeeps ==
  ASSUME VInv, NEW t \in Threads, CountSet(t)
  PROVE  VInv'
<1>1. /\ TypeOK /\ Frames /\ Lonely /\ StringKept /\ TurnsKept /\ CountKept
      /\ stack[t] # <<>> /\ Top(t).at = "yes" /\ csYes' = Top(t).count /\ Pop(t)
      /\ UNCHANGED <<level, yes, ballots, cs, player, called, started, over, crossed, stopped>>
  BY DEF VInv, CountSet, InCall, game, histories
<1>2. PICK n \in Nat : \E g \in Call : OnTop(t, n, g)
  BY <1>1, TopSound
<1>3. PICK g \in Call : OnTop(t, n, g)
  BY <1>2
<1>4. g = Top(t) /\ g.at = "yes" /\ Sound(g) /\ csYes' = g.count
  BY <1>1, <1>3 DEF OnTop
<1>5. g.call \in {"client", "plugin", "count"}
  BY <1>4 DEF Sound, Shape
<1>6. Grows
  BY <1>1 DEF Grows, TypeOK
<1>7. AboutVote(g) /\ Setting(g) /\ ~Starting(g) /\ ~Clearing(g)
  BY <1>4, <1>5 DEF AboutVote, Setting, Starting, Clearing
<1>8. Steps(t, n, g)
  BY <1>1, <1>4 DEF Steps
<1>9. /\ Frames' /\ Lonely'
      /\ stack' \in [Threads -> Seq(Call)]
      /\ \A f \in Calls : f = g \/ f \in Calls'
  BY <1>1, <1>3, <1>6, <1>7, <1>8, Ends
<1>10. TypeOK'
  <2>1. csYes' \in Counts
    BY <1>4 DEF Call
  <2> QED
    BY <1>1, <1>9, <2>1 DEF TypeOK
<1>11. StringKept' /\ TurnsKept'
  BY <1>1, <1>6, <1>7, <1>9, StringStays
<1>12. CountKept'
  <2>1. g.count = yes \/ level \in crossed \cup {0}
    BY <1>4, <1>7 DEF Sound, LevelKept
  <2> QED
    BY <1>1, <1>4, <2>1 DEF CountKept, Disturbed
<1> QED
  BY <1>9, <1>10, <1>11, <1>12 DEF VInv

(* A handler stops the count. *)
LEMMA CountStoppedKeeps ==
  ASSUME VInv, NEW t \in Threads, CountStopped(t)
  PROVE  VInv'
<1>1. /\ TypeOK /\ Frames /\ Lonely /\ StringKept /\ TurnsKept /\ CountKept
      /\ stack[t] # <<>> /\ Top(t).at = "yes" /\ Pop(t)
      /\ stopped' = stopped \cup {Top(t).vote}
      /\ UNCHANGED <<level, yes, ballots, cs, csYes, player, called, started, over, crossed>>
  BY DEF VInv, CountStopped, InCall, game, configstrings
<1>2. PICK n \in Nat : \E g \in Call : OnTop(t, n, g)
  BY <1>1, TopSound
<1>3. PICK g \in Call : OnTop(t, n, g)
  BY <1>2
<1>4. g = Top(t) /\ g.at = "yes" /\ Sound(g) /\ stopped' = stopped \cup {g.vote}
  BY <1>1, <1>3 DEF OnTop
<1>5. /\ g.call \in {"client", "plugin", "count"} /\ g.vote \in 1 .. called
      /\ called \in Nat /\ called <= MaxVotes /\ MaxVotes \in Nat
  BY <1>1, <1>4, VotesAssumption DEF Sound, Shape, TypeOK
<1>6. Grows
  BY <1>1, <1>5 DEF Grows
<1>7. AboutVote(g) /\ ~Starting(g) /\ ~Clearing(g) /\ g.vote \in Disturbed'
  BY <1>4, <1>5 DEF AboutVote, Starting, Clearing, Disturbed
<1>8. Steps(t, n, g)
  BY <1>1, <1>4 DEF Steps
<1>9. /\ Frames' /\ Lonely'
      /\ stack' \in [Threads -> Seq(Call)]
      /\ \A f \in Calls : f = g \/ f \in Calls'
  BY <1>1, <1>3, <1>6, <1>7, <1>8, Ends
<1>10. TypeOK'
  <2>1. g.vote \in VoteIds
    BY <1>5 DEF VoteIds
  <2>2. stopped' \subseteq VoteIds
    BY <1>1, <1>4, <2>1 DEF TypeOK
  <2> QED
    BY <1>1, <1>9, <2>2 DEF TypeOK
<1>11. StringKept' /\ TurnsKept'
  BY <1>1, <1>6, <1>7, <1>9, StringStays
<1>12. CountKept'
  BY <1>1, <1>6, <1>7, <1>9, CountStays
<1> QED
  BY <1>9, <1>10, <1>11, <1>12 DEF VInv

(* The game gives its vote up, and is about to clear the string. *)
LEMMA VoteGoes ==
  ASSUME VInv, stack[Main] # <<>>, Top(Main).at \in {"print", "ended"},
         SetTop(Main, [Top(Main) EXCEPT !.at = "clear"]),
         level' = 0, over' = over \cup {Top(Main).vote, level},
         UNCHANGED <<yes, ballots, cs, csYes, player, called, started, crossed, stopped>>
  PROVE  VInv'
<1>1. /\ TypeOK /\ Frames /\ Lonely /\ StringKept /\ TurnsKept /\ CountKept
      /\ Main \in Threads
  BY VotesAssumption DEF VInv
<1>2. PICK n \in Nat : \E g \in Call : OnTop(Main, n, g)
  BY <1>1, TopSound
<1>3. PICK g \in Call : OnTop(Main, n, g)
  BY <1>2
<1>4. /\ g = Top(Main) /\ g.at \in {"print", "ended"} /\ Sound(g)
      /\ over' = over \cup {g.vote, level}
  BY <1>3 DEF OnTop
<1>5. /\ g.vote \in 1 .. called /\ g.call = "end"
      /\ called \in Nat /\ called <= MaxVotes /\ MaxVotes \in Nat
  BY <1>1, <1>4, VotesAssumption DEF Sound, Shape, TypeOK
<1>6. n = 0
  BY <1>3, <1>5 DEF OnTop
<1>7. Grows
  BY <1>4, <1>5 DEF Grows
<1>8. AboutVote(g) /\ ~Clearing(g)
  BY <1>4, <1>5 DEF AboutVote, Clearing
<1>9. level = g.vote \/ level \in crossed
  BY <1>4 DEF Sound, LevelKept
<1>10. PICK h \in Call : h = [g EXCEPT !.at = "clear"]
  BY DEF Call
<1>11. /\ h.call = g.call /\ h.vote = g.vote /\ h.at = "clear" /\ h.who = g.who
       /\ SetTop(Main, h)
  BY <1>4, <1>10 DEF Call
<1>12. Sound(h)'
  <2>1. Shape(h)'
    BY <1>4, <1>5, <1>11 DEF Sound, Shape
  <2>2. CallerKept(h)' /\ Told(h)'
    BY <1>11 DEF CallerKept, Told
  <2>3. LevelKept(h)'
    BY <1>4, <1>5, <1>11 DEF LevelKept, Setting, Clearing
  <2> QED
    BY <2>1, <2>2, <2>3 DEF Sound
<1>13. Steps(Main, n, g)
  BY <1>4, <1>6 DEF Steps
<1>14. /\ Frames' /\ Lonely'
       /\ stack' \in [Threads -> Seq(Call)]
       /\ h \in Calls' /\ \A f \in Calls : f = g \/ f \in Calls'
  BY <1>1, <1>3, <1>7, <1>8, <1>11, <1>12, <1>13, GoesOn
<1>15. TypeOK'
  <2>1. 0 \in 0 .. MaxVotes /\ g.vote \in 0 .. MaxVotes
    BY <1>5
  <2>2. over' \subseteq 0 .. MaxVotes
    BY <1>1, <1>4, <2>1 DEF TypeOK
  <2> QED
    BY <1>1, <1>14, <2>1, <2>2 DEF TypeOK
<1>16. StringKept'
  <2>1. cs' <= called' /\ level' <= called' /\ (cs' # 0 => cs' \in started')
    BY <1>1, <1>5 DEF StringKept
  <2>2. ASSUME cs # 0
        PROVE  cs \in Disturbed \/ \E f \in Calls' : Clearing(f) /\ f.vote = cs
    <3>1. CASE cs = level
      <4>1. Clearing(h)
        BY <1>5, <1>11 DEF Clearing
      <4> QED
        BY <1>9, <1>11, <1>14, <3>1, <4>1 DEF Disturbed
    <3>2. CASE cs # level
      BY <1>1, <1>8, <1>14, <2>2, <3>2 DEF StringKept
    <3> QED
      BY <3>1, <3>2
  <2> QED
    BY <2>1, <2>2 DEF StringKept, Disturbed, Clearing
<1>17. TurnsKept'
  <2> SUFFICES ASSUME NEW w \in started \ over'
               PROVE  w \in crossed
    BY DEF TurnsKept
  <2>1. w \in started \ over /\ w # level
    BY <1>4
  <2> QED
    BY <1>1, <2>1 DEF TurnsKept
<1>18. CountKept'
  BY DEF CountKept
<1> QED
  BY <1>14, <1>15, <1>16, <1>17, <1>18 DEF VInv

(* The announcement of the result is sent. *)
LEMMA TextSentKeeps ==
  ASSUME VInv, NEW announced \in BOOLEAN, TextSent(announced)
  PROVE  VInv'
<1>1. /\ TypeOK /\ Frames /\ Lonely /\ StringKept /\ TurnsKept /\ CountKept
      /\ Main \in Threads /\ stack[Main] # <<>> /\ Top(Main).at = "print"
      /\ UNCHANGED <<yes, ballots, cs, csYes, player, called, started, crossed, stopped>>
  BY VotesAssumption DEF VInv, TextSent, InCall, configstrings
<1>2. CASE ~(announced /\ is_vote_active)
  BY <1>1, <1>2, VoteGoes DEF TextSent
<1>3. CASE announced /\ is_vote_active
  <2>1. PICK n \in Nat : \E g \in Call : OnTop(Main, n, g)
    BY <1>1, TopSound
  <2>2. PICK g \in Call : OnTop(Main, n, g)
    BY <2>1
  <2>3. /\ g = Top(Main) /\ g.at = "print" /\ Sound(g)
        /\ cs # 0 /\ UNCHANGED <<level, over>>
    BY <1>1, <1>3, <2>2 DEF OnTop, TextSent, is_vote_active
  <2>4. /\ g.vote \in 1 .. called /\ g.call = "end"
        /\ called \in Nat /\ called <= MaxVotes /\ MaxVotes \in Nat
    BY <1>1, <2>3, VotesAssumption DEF Sound, Shape, TypeOK
  <2>5. Grows
    BY <1>1, <2>3, <2>4 DEF Grows
  <2>6. AboutVote(g) /\ ~Starting(g) /\ ~Setting(g) /\ ~Clearing(g)
    BY <2>3, <2>4 DEF AboutVote, Starting, Setting, Clearing
  <2>7. PICK told \in Strings : told = cs
    BY <1>1, <2>4 DEF TypeOK, Strings, Edited
  <2>8. PICK c \in Counts : c = csYes
    BY <1>1 DEF TypeOK
  <2>9. PICK h \in Call : h = [g EXCEPT !.at = "ended", !.told = told, !.count = c]
    BY DEF Call
  <2>10. /\ h.call = g.call /\ h.vote = g.vote /\ h.at = "ended" /\ h.who = g.who
         /\ h.told = cs /\ h.count = csYes /\ SetTop(Main, h)
    BY <1>3, <2>3, <2>7, <2>8, <2>9 DEF Call, TextSent
  <2>11. ASSUME NEW f \in Calls, Setting(f) \/ Clearing(f)
         PROVE  f.vote \in crossed
    <3>1. Shape(f) /\ f # g
      BY <1>1, <2>6, <2>11 DEF Frames, Sound
    <3>2. AboutVote(f) /\ f.at # "called"
      BY <2>11, <3>1 DEF AboutVote, Shape, Setting, Clearing
    <3> QED
      BY <1>1, <2>2, <2>6, <3>1, <3>2, Alongside
  <2>12. Sound(h)'
    <3>1. Shape(h)'
      BY <1>1, <2>3, <2>4, <2>10 DEF Sound, Shape
    <3>2. CallerKept(h)'
      BY <2>10 DEF CallerKept
    <3>3. LevelKept(h)'
      BY <1>1, <2>3, <2>4, <2>10 DEF Sound, LevelKept, Setting, Clearing
    <3>4. cs \in started
      BY <1>1, <2>3 DEF StringKept
    <3>5. (cs = g.vote /\ csYes = yes) \/ {cs, g.vote} \cap Disturbed # {}
      <4>1. level = g.vote \/ g.vote \in Disturbed
        BY <2>3 DEF Sound, LevelKept, Disturbed
      <4>2. cs # level => cs \in Disturbed
        BY <1>1, <2>3, <2>11 DEF StringKept, Disturbed
      <4>3. cs = level => csYes = yes \/ level \in Disturbed
        BY <1>1, <2>3, <2>11 DEF CountKept, Disturbed
      <4> QED
        BY <4>1, <4>2, <4>3
    <3>6. Told(h)'
      BY <1>1, <2>10, <3>4, <3>5 DEF Told, Disturbed
    <3> QED
      BY <3>1, <3>2, <3>3, <3>6 DEF Sound
  <2>13. Steps(Main, n, g)
    BY <1>1, <2>3 DEF Steps
  <2>14. /\ Frames' /\ Lonely'
         /\ stack' \in [Threads -> Seq(Call)]
         /\ \A f \in Calls : f = g \/ f \in Calls'
    BY <1>1, <2>2, <2>5, <2>6, <2>10, <2>12, <2>13, GoesOn
  <2>15. TypeOK'
    BY <1>1, <2>3, <2>14 DEF TypeOK
  <2>16. StringKept' /\ TurnsKept'
    BY <1>1, <2>3, <2>5, <2>6, <2>14, StringStays
  <2>17. CountKept'
    BY <1>1, <2>3, <2>5, <2>6, <2>14, CountStays
  <2> QED
    BY <2>14, <2>15, <2>16, <2>17 DEF VInv
<1> QED
  BY <1>2, <1>3

(* The handlers of vote_ended return. *)
LEMMA VoteEndedReturnsKeeps ==
  ASSUME VInv, VoteEndedReturns
  PROVE  VInv'
  BY VoteGoes DEF VoteEndedReturns, InCall, configstrings

-----------------------------------------------------------------------------
(***************************************************************************)
(* The invariant, and what follows from it.                                *)
(***************************************************************************)
(* It holds at first. *)
LEMMA InitVotes == Init => VInv
<1> SUFFICES ASSUME Init
             PROVE  VInv
  OBVIOUS
<1>1. stack = [t \in Threads |-> <<>>] /\ DOMAIN <<>> = {}
  BY DEF Init
<1>2. Calls = {}
  BY <1>1 DEF Calls
<1>3. TypeOK
  <2>1. stack \in [Threads -> Seq(Call)]
    BY <1>1
  <2> QED
    BY <2>1, CountsParts, VotesAssumption DEF Init, TypeOK
<1>4. Frames /\ Lonely
  BY <1>1, <1>2 DEF Frames, Lonely
<1>5. StringKept /\ TurnsKept /\ CountKept
  BY DEF Init, StringKept, TurnsKept, CountKept
<1> QED
  BY <1>3, <1>4, <1>5 DEF VInv

(* Every step keeps it. *)
LEMMA NextVotes == VInv /\ [Next]_vars => VInv'
<1> SUFFICES ASSUME VInv, [Next]_vars
             PROVE  VInv'
  OBVIOUS
<1>1. CASE \E p \in Clients : ClientStep(p)
  BY <1>1, ClientCallsVoteKeeps, ClientVotesKeeps DEF ClientStep
<1>2. CASE \E t \in Threads : ThreadStep(t)
  <2>1. PICK t \in Threads : ThreadStep(t)
    BY <1>2
  <2> QED
    BY <2>1, CallvoteKeeps, ClearsCallerKeeps, LevelTakesVoteKeeps, StringStoppedKeeps,
       VoteStartedReturnsKeeps, StringAnnouncedKeeps, CountSetKeeps, CountStoppedKeeps,
       ForceVoteKeeps, SetVoteStatesKeeps DEF ThreadStep
<1>3. CASE GameStep
  BY <1>3, VoteCalledReturnsKeeps, StringClearedKeeps, VoteReturnsKeeps, GameCountsKeeps,
     GameEndsVoteKeeps, TextSentKeeps, VoteEndedReturnsKeeps DEF GameStep
<1>4. CASE UNCHANGED vars
  <2>1. called' \in called .. MaxVotes /\ ballots' \subseteq Clients
    BY <1>4, VotesAssumption DEF VInv, TypeOK, vars, game
  <2> QED
    BY <1>4, <2>1, StackStays DEF vars, game, configstrings, histories
<1> QED
  BY <1>1, <1>2, <1>3, <1>4 DEF Next

(* So it holds always. *)
LEMMA VotesKept == Spec => []VInv
  BY InitVotes, NextVotes, PTL DEF Spec

(* The variables always have their types: the depth of nested calls and the   *)
(* number of votes are bounded only by the constants.                         *)
THEOREM VotesTypeOK == Spec => []TypeOK
<1>1. VInv => TypeOK
  BY DEF VInv
<1> QED
  BY <1>1, VotesKept, PTL

(* vote_started names the client that called the vote, and nobody for a       *)
(* plugin's vote, on any number of threads and with any nesting of handlers   *)
(* that call votes; but for votes that overlapped or found an old string.     *)
THEOREM TheRightCaller == Spec => []RightCaller
<1>1. VInv => RightCaller
  BY DEF VInv, Frames, Sound, CallerKept, RightCaller
<1> QED
  BY <1>1, VotesKept, PTL

(* Votes that did not overlap are announced one after the end of the other.   *)
THEOREM OneVoteAtATime == Spec => []VotesTakeTurns
<1>1. VInv => VotesTakeTurns
  BY DEF VInv, TurnsKept, VotesTakeTurns
<1> QED
  BY <1>1, VotesKept, PTL

(* Between calls the string is that of the game's vote, unless a handler or   *)
(* an overlap disturbed one of the two.                                       *)
THEOREM TheStringTells == Spec => []StringTellsTheVote
<1>1. VInv => StringTellsTheVote
  <2> SUFFICES ASSUME VInv, \A t \in Threads : stack[t] = <<>>, cs # level
               PROVE  {cs, level} \cap (crossed \cup stopped) # {}
    BY DEF StringTellsTheVote
  <2>1. Calls = {}
    <3>1. DOMAIN <<>> = {}
      OBVIOUS
    <3> QED
      BY <3>1 DEF Calls
  <2>2. StringKept
    BY DEF VInv
  <2> QED
    BY <2>1, <2>2 DEF StringKept, Disturbed
<1> QED
  BY <1>1, VotesKept, PTL

(* vote_ended follows a vote_started, and tells of the vote that ends and the *)
(* votes it got, unless it was disturbed.                                     *)
THEOREM EndedWasStarted == Spec => []EndsWhatStarted
<1>1. VInv => EndsWhatStarted
  BY DEF VInv, Frames, Sound, Told, EndsWhatStarted, Disturbed
<1> QED
  BY <1>1, VotesKept, PTL

=============================================================================

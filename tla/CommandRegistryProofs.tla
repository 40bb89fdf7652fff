------------------------ MODULE CommandRegistryProofs ------------------------
(***************************************************************************)
(* What is proved of the command registry, for any number of threads,      *)
(* commands, instances and inputs and any nesting of inputs.               *)
(*                                                                         *)
(* Retained is a recursive function: what it keeps is shown for a          *)
(* counterexample of least length there can be, which LeastNumber finds.   *)
(*                                                                         *)
(* The invariant CInv says of the states between two quiet ones            *)
(*   InputsSound  that the registry is the one every input that is under   *)
(*                way found, and where in it each input is;                *)
(*   Tracked      which list, unload or put-off call will see to a         *)
(*                registered command when its instance goes;               *)
(*   QueueSound   that of the calls put off for a command those that will  *)
(*                be of effect come last, and that there is one exactly    *)
(*                when the last call asked for what is not so yet.         *)
(* A call is first cast into Does, which is one of three: of no effect,    *)
(* put off, or done.  The lemmas on calls are about Does, so that they     *)
(* hold of add_command and remove_command, of plugins, unloads and tasks   *)
(* alike.                                                                  *)
(***************************************************************************)
EXTENDS CommandRegistry, FiniteSetTheorems, SequenceTheorems, TLAPS

(* Every set of numbers has a least one: the intervals below the numbers are  *)
(* finite sets, of which one has no other inside.                             *)
LEMMA LeastNumber ==
  ASSUME NEW T, T \subseteq Nat, T # {}
  PROVE  \E n \in T : \A m \in T : n <= m
<1> DEFINE below == {1 .. n : n \in T}
<1>1. below \subseteq FiniteSubsetsOf(Nat) /\ below # {}
  <2>1. \A n \in T : 1 .. n \in SUBSET Nat /\ IsFiniteSet(1 .. n)
    BY FS_Interval
  <2> QED
    BY <2>1 DEF FiniteSubsetsOf
<1>2. PICK x \in below : \A y \in below : <<y, x>> \notin StrictSubsetOrdering(Nat)
  <2>1. IsWellFoundedOn(StrictSubsetOrdering(Nat), FiniteSubsetsOf(Nat))
    BY FS_StrictSubsetOrderingWellFounded
  <2> QED
    BY <1>1, <2>1, WFMin
<1>3. PICK n \in T : x = 1 .. n
  OBVIOUS
<1>4. ASSUME NEW m \in T, m < n
      PROVE  FALSE
  <2>1. 1 .. m \in below /\ 1 .. m \subseteq 1 .. n /\ 1 .. m # 1 .. n
    <3>1. n \in 1 .. n /\ n \notin 1 .. m
      BY <1>4
    <3> QED
      BY <1>4, <3>1
  <2>2. <<1 .. m, x>> \in StrictSubsetOrdering(Nat)
    BY <1>1, <1>3, <2>1 DEF StrictSubsetOrdering
  <2> QED
    BY <1>2, <2>1, <2>2
<1> QED
  BY <1>4

(* A sequence with one more element. *)
LEMMA AppendParts ==
  ASSUME NEW S, NEW q \in Seq(S), NEW x \in S
  PROVE  /\ Append(q, x) \in Seq(S)
         /\ Range(Append(q, x)) = Range(q) \cup {x}
         /\ IsInjective(q) /\ x \notin Range(q) => IsInjective(Append(q, x))
<1> DEFINE r == Append(q, x)
<1>1. /\ r \in Seq(S) /\ Len(q) \in Nat /\ Len(r) = Len(q) + 1
      /\ DOMAIN q = 1 .. Len(q) /\ DOMAIN r = 1 .. Len(q) + 1
      /\ \A i \in 1 .. Len(q) : r[i] = q[i]
      /\ r[Len(q) + 1] = x
  OBVIOUS
<1> HIDE DEF r
<1>2. Range(r) = Range(q) \cup {x}
  BY <1>1 DEF Range
<1>3. IsInjective(q) /\ x \notin Range(q) => IsInjective(r)
  BY <1>1 DEF IsInjective, Range
<1> QED
  BY <1>1, <1>2, <1>3 DEF r

(* What retain leaves of a sequence. *)
LEMMA RetainedParts ==
  ASSUME NEW S, NEW s \in Seq(S), NEW c
  PROVE  /\ Retained(s, c) \in Seq(S)
         /\ Range(Retained(s, c)) = Range(s) \ {c}
         /\ IsInjective(s) => IsInjective(Retained(s, c))
<1> DEFINE Value(g, k) == IF k = 0 THEN <<>>
                          ELSE IF s[k] = c THEN g[k - 1] ELSE Append(g[k - 1], s[k])
           Fits(g, m) == g = [k \in 0 .. m |-> Value(g, k)]
<1>1. PICK n \in Nat : n = Len(s) /\ DOMAIN s = 1 .. n /\ \A k \in 1 .. n : s[k] \in S
  OBVIOUS
<1>2. \A m \in 0 .. n : \E g : Fits(g, m)
  <2> DEFINE T == {m \in 0 .. n : ~ \E g : Fits(g, m)}
  <2> SUFFICES ASSUME T # {}
               PROVE  FALSE
    <3> HIDE DEF Fits
    <3> QED
      OBVIOUS
  <2>1. PICK m \in T : \A k \in T : m <= k
    <3>1. T \subseteq Nat
      OBVIOUS
    <3> HIDE DEF T
    <3> QED
      BY <3>1, LeastNumber
  <2>2. m \in 0 .. n /\ \A k \in 0 .. n : k < m => \E g : Fits(g, k)
    <3> HIDE DEF Fits
    <3> QED
      BY <2>1
  <2>3. CASE m = 0
    <3>1. Fits([k \in 0 .. 0 |-> <<>>], 0)
      OBVIOUS
    <3> QED
      BY <2>3, <3>1
  <2>4. CASE m # 0
    <3>1. m \in Nat /\ m - 1 \in 0 .. n /\ m - 1 < m
      BY <2>2, <2>4
    <3>2. PICK g : Fits(g, m - 1)
      <4> HIDE DEF Fits
      <4> QED
        BY <2>2, <3>1
    <3>3. PICK h : h = [k \in 0 .. m |-> IF k < m THEN g[k] ELSE Value(g, m)]
      OBVIOUS
    <3>4. /\ \A k \in 0 .. m : k < m => h[k] = g[k] /\ g[k] = Value(g, k)
          /\ h[m] = Value(g, m)
          /\ DOMAIN h = 0 .. m
      <4>1. m \in 0 .. m /\ \A k \in 0 .. m : k < m => k \in 0 .. m - 1
        BY <3>1
      <4> HIDE DEF Value
      <4>2. \A k \in 0 .. m - 1 : g[k] = Value(g, k)
        BY <3>2
      <4> QED
        BY <3>3, <4>1, <4>2
    <3>5. ASSUME NEW k \in 0 .. m
          PROVE  Value(h, k) = Value(g, k)
      <4>1. k # 0 => k - 1 \in 0 .. m /\ k - 1 < m
        BY <3>1
      <4>2. k # 0 => h[k - 1] = g[k - 1]
        BY <3>4, <4>1
      <4> QED
        BY <4>2
    <3>6. \A k \in 0 .. m : h[k] = Value(h, k)
      <4> HIDE DEF Value
      <4>1. \A k \in 0 .. m : k < m \/ k = m
        BY <3>1
      <4> QED
        BY <3>4, <3>5, <4>1
    <3>7. Fits(h, m)
      <4> HIDE DEF Value
      <4>1. h = [k \in 0 .. m |-> h[k]]
        BY <3>3
      <4> QED
        BY <3>6, <4>1
    <3> QED
      BY <3>7
  <2> HIDE DEF Fits
  <2> QED
    BY <2>3, <2>4
<1>3. PICK kept : Fits(kept, n) /\ Retained(s, c) = kept[n]
  <2>1. PICK kept : kept = CHOOSE g : Fits(g, n)
    OBVIOUS
  <2>2. Fits(kept, n)
    <3> HIDE DEF Fits
    <3> QED
      BY <1>2, <2>1
  <2>3. Retained(s, c) = kept[n]
    BY <1>1, <2>1 DEF Retained
  <2> QED
    BY <2>2, <2>3
<1>4. /\ kept[0] = <<>>
      /\ \A k \in 1 .. n : kept[k] = IF s[k] = c THEN kept[k - 1] ELSE Append(kept[k - 1], s[k])
  <2>1. \A k \in 0 .. n : kept[k] = Value(kept, k)
    <3> HIDE DEF Value
    <3> QED
      BY <1>3
  <2>2. 0 \in 0 .. n /\ \A k \in 1 .. n : k \in 0 .. n /\ k # 0
    OBVIOUS
  <2> QED
    BY <2>1, <2>2
<1> HIDE DEF Fits
<1> DEFINE Good(k) ==
             /\ kept[k] \in Seq(S)
             /\ Range(kept[k]) = {s[i] : i \in 1 .. k} \ {c}
             /\ IsInjective(s) => IsInjective(kept[k])
<1>5. \A k \in 0 .. n : Good(k)
  <2> DEFINE T == {k \in 0 .. n : ~Good(k)}
  <2> SUFFICES ASSUME T # {}
               PROVE  FALSE
    <3> HIDE DEF Good
    <3> QED
      OBVIOUS
  <2>1. PICK k \in T : \A j \in T : k <= j
    <3>1. T \subseteq Nat
      OBVIOUS
    <3> HIDE DEF T
    <3> QED
      BY <3>1, LeastNumber
  <2>2. k \in 0 .. n /\ ~Good(k) /\ \A j \in 0 .. n : j < k => Good(j)
    <3> HIDE DEF Good
    <3> QED
      BY <2>1
  <2>3. CASE k = 0
    <3>1. kept[k] = <<>> /\ {s[i] : i \in 1 .. k} = {}
      BY <1>4, <2>2, <2>3
    <3>2. <<>> \in Seq(S) /\ DOMAIN <<>> = {}
      OBVIOUS
    <3>3. Range(<<>>) = {} /\ IsInjective(<<>>)
      BY <3>2 DEF Range, IsInjective
    <3> QED
      BY <2>2, <3>1, <3>2, <3>3
  <2>4. CASE k # 0
    <3>1. /\ k \in 1 .. n /\ k - 1 \in 0 .. n /\ k - 1 < k
          /\ 1 .. k = 1 .. (k - 1) \cup {k} /\ k \notin 1 .. (k - 1)
          /\ 1 .. (k - 1) \subseteq 1 .. n
      BY <2>2, <2>4
    <3>2. Good(k - 1)
      <4> HIDE DEF Good
      <4> QED
        BY <2>2, <3>1
    <3>3. {s[i] : i \in 1 .. k} = {s[i] : i \in 1 .. (k - 1)} \cup {s[k]}
      BY <3>1
    <3>4. CASE s[k] = c
      <4>1. kept[k] = kept[k - 1]
        BY <1>4, <3>1, <3>4
      <4> QED
        BY <2>2, <3>2, <3>3, <3>4, <4>1
    <3>5. CASE s[k] # c
      <4>1. kept[k] = Append(kept[k - 1], s[k]) /\ s[k] \in S
        BY <1>1, <1>4, <3>1, <3>5
      <4>2. IsInjective(s) => s[k] \notin {s[i] : i \in 1 .. (k - 1)}
        BY <1>1, <3>1 DEF IsInjective
      <4>3. /\ Append(kept[k - 1], s[k]) \in Seq(S)
            /\ Range(Append(kept[k - 1], s[k])) = Range(kept[k - 1]) \cup {s[k]}
            /\ IsInjective(kept[k - 1]) /\ s[k] \notin Range(kept[k - 1])
                 => IsInjective(Append(kept[k - 1], s[k]))
        BY <3>2, <4>1, AppendParts
      <4> QED
        BY <2>2, <3>2, <3>3, <3>5, <4>1, <4>2, <4>3
    <3> QED
      BY <3>4, <3>5
  <2> QED
    BY <2>3, <2>4
<1>6. Good(n)
  <2> HIDE DEF Good
  <2> QED
    BY <1>5
<1>7. Range(s) = {s[i] : i \in 1 .. n}
  BY <1>1 DEF Range
<1> QED
  BY <1>3, <1>6, <1>7

-----------------------------------------------------------------------------
(***************************************************************************)
(* Calls that are put off, in the order in which they will run.            *)
(***************************************************************************)
Queue == frame_tasks \o next_frame_tasks

Has(q, op, c) == \E k \in DOMAIN q : q[k].op = op /\ q[k].cmd = c

\* No call for the command comes behind one that does op, but others that do.
InOrder(q, op, c) ==
  \A j, k \in DOMAIN q : j < k /\ q[j].cmd = c /\ q[k].cmd = c /\ q[j].op = op => q[k].op = op

Ops == {"add_command", "remove_command"}

(* A call more at the end. *)
LEMMA HasAppend ==
  ASSUME NEW q \in Seq(Task), NEW task \in Task
  PROVE  /\ Append(q, task) \in Seq(Task)
         /\ \A op, c : Has(Append(q, task), op, c) <=>
              Has(q, op, c) \/ (task.op = op /\ task.cmd = c)
         /\ \A op, c : InOrder(q, op, c) /\ (task.cmd = c => task.op = op \/ ~Has(q, op, c))
              => InOrder(Append(q, task), op, c)
<1> DEFINE r == Append(q, task)
<1>1. /\ r \in Seq(Task) /\ Len(q) \in Nat /\ Len(r) = Len(q) + 1
      /\ DOMAIN q = 1 .. Len(q) /\ DOMAIN r = 1 .. Len(q) + 1
      /\ \A i \in 1 .. Len(q) : r[i] = q[i]
      /\ r[Len(q) + 1] = task
  OBVIOUS
<1> HIDE DEF r
<1>2. ASSUME NEW op, NEW c
      PROVE  Has(r, op, c) <=> Has(q, op, c) \/ (task.op = op /\ task.cmd = c)
  BY <1>1 DEF Has
<1>3. ASSUME NEW op, NEW c, InOrder(q, op, c), task.cmd = c => task.op = op \/ ~Has(q, op, c)
      PROVE  InOrder(r, op, c)
  <2> SUFFICES ASSUME NEW j \in DOMAIN r, NEW k \in DOMAIN r, j < k,
                      r[j].cmd = c, r[k].cmd = c, r[j].op = op
               PROVE  r[k].op = op
    BY DEF InOrder
  <2>1. j \in DOMAIN q /\ r[j] = q[j]
    BY <1>1
  <2>2. CASE k \in DOMAIN q
    BY <1>1, <1>3, <2>1, <2>2 DEF InOrder
  <2>3. CASE k \notin DOMAIN q
    <3>1. r[k] = task
      BY <1>1, <2>3
    <3>2. Has(q, op, c)
      BY <2>1 DEF Has
    <3> QED
      BY <1>3, <3>1, <3>2
  <2> QED
    BY <2>2, <2>3
<1> QED
  BY <1>1, <1>2, <1>3 DEF r

(* The first call gone. *)
LEMMA HasTail ==
  ASSUME NEW q \in Seq(Task), q # <<>>
  PROVE  /\ Tail(q) \in Seq(Task) /\ Head(q) \in Task
         /\ \A op, c : Has(q, op, c) <=>
              Has(Tail(q), op, c) \/ (Head(q).op = op /\ Head(q).cmd = c)
         /\ \A op, c : InOrder(q, op, c) => InOrder(Tail(q), op, c)
         /\ \A op, c : InOrder(q, op, c) /\ Head(q).op = op /\ Head(q).cmd = c =>
              \A k \in DOMAIN Tail(q) : Tail(q)[k].cmd = c => Tail(q)[k].op = op
<1> DEFINE r == Tail(q)
           h == Head(q)
<1>1. /\ r \in Seq(Task) /\ Len(q) \in Nat /\ Len(q) > 0 /\ Len(r) = Len(q) - 1
      /\ DOMAIN q = 1 .. Len(q) /\ DOMAIN r = 1 .. Len(q) - 1
      /\ \A i \in 1 .. Len(q) - 1 : r[i] = q[i + 1]
      /\ h = q[1] /\ h \in Task
  OBVIOUS
<1> HIDE DEF r, h
<1>2. ASSUME NEW op, NEW c
      PROVE  Has(q, op, c) <=> Has(r, op, c) \/ (h.op = op /\ h.cmd = c)
  <2>1. ASSUME NEW k \in DOMAIN q, q[k].op = op, q[k].cmd = c
        PROVE  Has(r, op, c) \/ (h.op = op /\ h.cmd = c)
    <3>1. k = 1 \/ (k - 1 \in 1 .. Len(q) - 1 /\ (k - 1) + 1 = k)
      BY <1>1, <2>1
    <3>2. k = 1 \/ (k - 1 \in DOMAIN r /\ r[k - 1] = q[k])
      BY <1>1, <3>1
    <3> QED
      BY <1>1, <2>1, <3>2 DEF Has
  <2>2. ASSUME NEW k \in DOMAIN r, r[k].op = op, r[k].cmd = c
        PROVE  Has(q, op, c)
    <3>1. k + 1 \in DOMAIN q /\ r[k] = q[k + 1]
      BY <1>1, <2>2
    <3> QED
      BY <2>2, <3>1 DEF Has
  <2>3. h.op = op /\ h.cmd = c => Has(q, op, c)
    <3>1. 1 \in DOMAIN q
      BY <1>1
    <3> QED
      BY <1>1, <3>1 DEF Has
  <2> QED
    BY <2>1, <2>2, <2>3 DEF Has
<1>3. ASSUME NEW op, NEW c, InOrder(q, op, c)
      PROVE  /\ InOrder(r, op, c)
             /\ h.op = op /\ h.cmd = c => \A k \in DOMAIN r : r[k].cmd = c => r[k].op = op
  <2>1. \A k \in DOMAIN r : k \in Nat /\ k + 1 \in DOMAIN q /\ r[k] = q[k + 1] /\ 1 < k + 1
    BY <1>1
  <2>2. 1 \in DOMAIN q
    BY <1>1
  <2>3. InOrder(r, op, c)
    <3> SUFFICES ASSUME NEW j \in DOMAIN r, NEW k \in DOMAIN r, j < k,
                        r[j].cmd = c, r[k].cmd = c, r[j].op = op
                 PROVE  r[k].op = op
      BY DEF InOrder
    <3>1. j + 1 < k + 1
      BY <2>1
    <3> QED
      BY <1>3, <2>1, <3>1 DEF InOrder
  <2>4. ASSUME h.op = op, h.cmd = c, NEW k \in DOMAIN r, r[k].cmd = c
        PROVE  r[k].op = op
    BY <1>1, <1>3, <2>1, <2>2, <2>4 DEF InOrder
  <2> QED
    BY <2>3, <2>4
<1> QED
  BY <1>1, <1>2, <1>3 DEF r, h

(* Where all calls for a command do the same there is no order among them. *)
LEMMA AllAlike ==
  ASSUME NEW q \in Seq(Task), NEW c,
         NEW op \in Ops, \A k \in DOMAIN q : q[k].cmd = c => q[k].op = op
  PROVE  \A e \in Ops : InOrder(q, e, c) /\ (e # op => ~Has(q, e, c))
  BY DEF InOrder, Has

(* What becomes of the queue when a call is put off, and when the first task  *)
(* is taken.                                                                  *)
LEMMA QueueMoves ==
  ASSUME NEW p \in Seq(Task), NEW q \in Seq(Task)
  PROVE  /\ p \o q \in Seq(Task)
         /\ \A task \in Task : p \o Append(q, task) = Append(p \o q, task)
         /\ p # <<>> => /\ Tail(p) \o q = Tail(p \o q) /\ Head(p \o q) = Head(p)
                        /\ p \o q # <<>>
         /\ \A op, c : Has(p \o q, op, c) <=> Has(p, op, c) \/ Has(q, op, c)
<1>1. /\ p \o q \in Seq(Task)
      /\ Len(p) \in Nat /\ Len(q) \in Nat /\ Len(p \o q) = Len(p) + Len(q)
      /\ DOMAIN p = 1 .. Len(p) /\ DOMAIN q = 1 .. Len(q)
      /\ DOMAIN (p \o q) = 1 .. Len(p) + Len(q)
      /\ \A i \in 1 .. Len(p) : (p \o q)[i] = p[i]
      /\ \A i \in 1 .. Len(q) : (p \o q)[i + Len(p)] = q[i]
  OBVIOUS
<1>2. \A task \in Task : p \o Append(q, task) = Append(p \o q, task)
  OBVIOUS
<1>3. p # <<>> => /\ Tail(p) \o q = Tail(p \o q) /\ Head(p \o q) = Head(p)
                  /\ p \o q # <<>>
  OBVIOUS
<1>4. ASSUME NEW op, NEW c
      PROVE  Has(p \o q, op, c) <=> Has(p, op, c) \/ Has(q, op, c)
  <2>1. ASSUME NEW k \in DOMAIN (p \o q), (p \o q)[k].op = op, (p \o q)[k].cmd = c
        PROVE  Has(p, op, c) \/ Has(q, op, c)
    <3>1. CASE k \in 1 .. Len(p)
      BY <1>1, <2>1, <3>1 DEF Has
    <3>2. CASE k \notin 1 .. Len(p)
      <4>1. k - Len(p) \in 1 .. Len(q) /\ (k - Len(p)) + Len(p) = k
        BY <1>1, <2>1, <3>2
      <4>2. (p \o q)[k] = q[k - Len(p)]
        BY <1>1, <4>1
      <4> QED
        BY <1>1, <2>1, <4>1, <4>2 DEF Has
    <3> QED
      BY <3>1, <3>2
  <2>2. ASSUME NEW k \in DOMAIN p, p[k].op = op, p[k].cmd = c
        PROVE  Has(p \o q, op, c)
    <3>1. k \in DOMAIN (p \o q) /\ (p \o q)[k] = p[k]
      BY <1>1, <2>2
    <3> QED
      BY <2>2, <3>1 DEF Has
  <2>3. ASSUME NEW k \in DOMAIN q, q[k].op = op, q[k].cmd = c
        PROVE  Has(p \o q, op, c)
    <3>1. k + Len(p) \in DOMAIN (p \o q) /\ (p \o q)[k + Len(p)] = q[k]
      BY <1>1, <2>3
    <3> QED
      BY <2>3, <3>1 DEF Has
  <2> QED
    BY <2>1, <2>2, <2>3 DEF Has
<1> QED
  BY <1>1, <1>2, <1>3, <1>4

-----------------------------------------------------------------------------
(***************************************************************************)
(* What a call does to the registry and the queue.                         *)
(***************************************************************************)
\* What can be done for the command as the registry is.
Effective(c) == IF Registered(c) THEN "remove_command" ELSE "add_command"

\* A call that is of no effect, is put off, or changes what is registered.
Does(op, c) ==
  \/ op # Effective(c) /\ UNCHANGED <<commands, next_frame_tasks>>
  \/ /\ op = Effective(c) /\ Locked
     /\ UNCHANGED commands
     /\ \E task \in Task : /\ task.op = op /\ task.cmd = c
                           /\ next_frame_tasks' = Append(next_frame_tasks, task)
  \/ /\ op = Effective(c) /\ ~Locked
     /\ UNCHANGED next_frame_tasks
     /\ \A d \in Commands : Registered(d)' <=> IF d = c THEN op = "add_command" ELSE Registered(d)

(* Both parts of the queue are one, the main thread's scheduler first.        *)
LEMMA PendingQueue ==
  ASSUME frame_tasks \in Seq(Task), next_frame_tasks \in Seq(Task)
  PROVE  /\ Queue \in Seq(Task)
         /\ \A op, c : Pending(op, c) <=> Has(Queue, op, c)
<1>1. \A op, c : Pending(op, c) <=> Has(frame_tasks, op, c) \/ Has(next_frame_tasks, op, c)
  BY DEF Pending, Has
<1> QED
  BY <1>1, QueueMoves DEF Queue

(* A call made again at a later time joins the queue.                         *)
LEMMA DeferDoes ==
  ASSUME next_frame_tasks \in Seq(Task), NEW op \in Ops, NEW c \in Commands,
         NEW i \in Priorities, Defer(op, c, i)
  PROVE  \E task \in Task : /\ task.op = op /\ task.cmd = c
                            /\ next_frame_tasks' = Append(next_frame_tasks, task)
<1>1. [op |-> op, cmd |-> c, priority |-> i] \in Task
  BY DEF Ops, Task
<1> QED
  BY <1>1 DEF Defer

(* add_command registers the command, or puts that off, unless it is there;   *)
(* and the commands stay unique.                                              *)
LEMMA AddDoes ==
  ASSUME TypeOK, CommandsUnique, NEW c \in Commands, NEW i \in Priorities, add_command(c, i)
  PROVE  /\ commands' \in [Priorities -> Seq(Commands)]
         /\ next_frame_tasks' \in Seq(Task)
         /\ CommandsUnique'
         /\ Does("add_command", c)
         /\ Locked => UNCHANGED commands
<1> USE DEF TypeOK
<1>1. CASE Registered(c) /\ UNCHANGED <<commands, next_frame_tasks>>
  BY <1>1 DEF Does, Effective, CommandsUnique
<1>2. CASE ~Registered(c) /\ Locked /\ Defer("add_command", c, i) /\ UNCHANGED commands
  <2>1. PICK task \in Task : /\ task.op = "add_command" /\ task.cmd = c
                             /\ next_frame_tasks' = Append(next_frame_tasks, task)
    BY <1>2, DeferDoes DEF Ops
  <2>2. next_frame_tasks' \in Seq(Task)
    BY <2>1
  <2>3. Does("add_command", c)
    BY <1>2, <2>1 DEF Does, Effective
  <2> QED
    BY <1>2, <2>2, <2>3 DEF CommandsUnique
<1>3. CASE /\ ~Registered(c) /\ ~Locked
           /\ commands' = [commands EXCEPT ![i] = Append(@, c)]
           /\ UNCHANGED next_frame_tasks
  <2>1. /\ DOMAIN commands' = Priorities
        /\ \A j \in Priorities : commands[j] \in Seq(Commands)
        /\ commands'[i] = Append(commands[i], c)
        /\ \A j \in Priorities \ {i} : commands'[j] = commands[j]
    BY <1>3
  <2>2. /\ commands'[i] \in Seq(Commands)
        /\ Range(commands'[i]) = Range(commands[i]) \cup {c}
        /\ IsInjective(commands[i]) /\ c \notin Range(commands[i]) => IsInjective(commands'[i])
    BY <2>1, AppendParts
  <2>3. \A j \in Priorities : c \notin Range(commands[j])
    BY <1>3 DEF Registered
  <2>4. CommandsUnique'
    <3>1. \A j \in Priorities : IsInjective(commands'[j])
      BY <2>1, <2>2, <2>3 DEF CommandsUnique
    <3>2. \A j, k \in Priorities : j # k => Range(commands'[j]) \cap Range(commands'[k]) = {}
      <4>1. \A j \in Priorities : c \notin Range(commands[j])
        BY <2>3
      <4>2. \A j \in Priorities \ {i} : Range(commands'[j]) = Range(commands[j])
        BY <2>1
      <4>3. \A j, k \in Priorities : j # k => Range(commands[j]) \cap Range(commands[k]) = {}
        BY DEF CommandsUnique
      <4> HIDE DEF TypeOK
      <4> QED
        BY <2>2, <4>1, <4>2, <4>3
    <3> QED
      BY <3>1, <3>2 DEF CommandsUnique
  <2>5. \A d \in Commands : Registered(d)' <=> (d = c \/ Registered(d))
    BY <2>1, <2>2 DEF Registered
  <2>6. Does("add_command", c)
    BY <1>3, <2>5 DEF Does, Effective
  <2>7. commands' \in [Priorities -> Seq(Commands)]
    BY <1>3, <2>1, <2>2
  <2> QED
    BY <1>3, <2>4, <2>6, <2>7
<1> QED
  BY <1>1, <1>2, <1>3 DEF add_command, AddRaises

(* remove_command takes the command out, or puts that off, if it is there.    *)
LEMMA RemoveDoes ==
  ASSUME TypeOK, CommandsUnique, NEW c \in Commands, remove_command(c)
  PROVE  /\ commands' \in [Priorities -> Seq(Commands)]
         /\ next_frame_tasks' \in Seq(Task)
         /\ CommandsUnique'
         /\ Does("remove_command", c)
         /\ Locked => UNCHANGED commands
<1> USE DEF TypeOK
<1>1. CASE ~Registered(c) /\ UNCHANGED <<commands, next_frame_tasks>>
  BY <1>1 DEF Does, Effective, CommandsUnique
<1>2. CASE Registered(c) /\ Locked /\ Defer("remove_command", c, 1) /\ UNCHANGED commands
  <2>1. PICK task \in Task : /\ task.op = "remove_command" /\ task.cmd = c
                             /\ next_frame_tasks' = Append(next_frame_tasks, task)
    <3>1. 1 \in Priorities
      BY RegistryAssumption DEF Priorities
    <3> QED
      BY <1>2, <3>1, DeferDoes DEF Ops
  <2>2. next_frame_tasks' \in Seq(Task)
    BY <2>1
  <2>3. Does("remove_command", c)
    BY <1>2, <2>1 DEF Does, Effective
  <2> QED
    BY <1>2, <2>2, <2>3 DEF CommandsUnique
<1>3. CASE /\ Registered(c) /\ ~Locked
           /\ commands' = Without(c)
           /\ UNCHANGED next_frame_tasks
  <2>1. \A j \in Priorities :
          /\ commands'[j] = Retained(commands[j], c)
          /\ commands'[j] \in Seq(Commands)
          /\ Range(commands'[j]) = Range(commands[j]) \ {c}
          /\ IsInjective(commands[j]) => IsInjective(commands'[j])
    BY <1>3, RetainedParts DEF Without
  <2>2. CommandsUnique'
    BY <2>1 DEF CommandsUnique
  <2>3. \A d \in Commands : Registered(d)' <=> (d # c /\ Registered(d))
    BY <2>1 DEF Registered
  <2>4. Does("remove_command", c)
    BY <1>3, <2>3 DEF Does, Effective
  <2>5. commands' \in [Priorities -> Seq(Commands)]
    BY <1>3, <2>1 DEF Without
  <2> QED
    BY <1>3, <2>2, <2>4, <2>5
<1> QED
  BY <1>1, <1>2, <1>3 DEF remove_command

-----------------------------------------------------------------------------
(***************************************************************************)
(* The last call counts.                                                   *)
(***************************************************************************)
\* Calls that will be of effect run behind those that will not be; and there is such a
\* call exactly when the last one asked for what the registry does not show yet.
QueueSound(c) ==
  \/ c \in overtaken
  \/ /\ InOrder(Queue, Effective(c), c)
     /\ last[c] = Effective(c) <=> Has(Queue, Effective(c), c)

(* A step that leaves registry, calls and histories alone.                    *)
LEMMA QueueStays ==
  ASSUME UNCHANGED <<commands, last, overtaken>>, Queue' = Queue,
         NEW c \in Commands, QueueSound(c)
  PROVE  QueueSound(c)'
<1>1. Effective(c)' = Effective(c)
  BY DEF Effective, Registered
<1> QED
  BY <1>1 DEF QueueSound

(* A call made by plugin code.                                                *)
LEMMA CallSettles ==
  ASSUME TypeOK, next_frame_tasks' \in Seq(Task), UNCHANGED frame_tasks,
         NEW op \in Ops, NEW c \in Commands, Does(op, c),
         IF op = Effective(c) THEN Succeeded(op, c) ELSE UNCHANGED <<last, overtaken>>,
         \A d \in Commands : QueueSound(d)
  PROVE  \A d \in Commands : QueueSound(d)'
<1>1. /\ Queue \in Seq(Task) /\ Queue' \in Seq(Task)
      /\ \A e, d : Pending(e, d) <=> Has(Queue, e, d)
  <2>1. Queue' \in Seq(Task)
    BY QueueMoves DEF TypeOK, Queue
  <2> QED
    BY <2>1, PendingQueue DEF TypeOK
<1>2. PutOff(c) <=> \E e \in Ops : Has(Queue, e, c)
  BY <1>1 DEF PutOff, Ops
<1>3. CASE op # Effective(c)
  <2>1. Queue' = Queue /\ UNCHANGED <<commands, last, overtaken>>
    BY <1>3 DEF Does, Queue
  <2> QED
    BY <2>1, QueueStays
<1>4. ASSUME op = Effective(c)
      PROVE  /\ last'[c] = op /\ \A d \in Commands \ {c} : last'[d] = last[d]
             /\ c \notin overtaken' => (c \notin overtaken \/ ~PutOff(c)) /\ (PutOff(c) => Locked)
             /\ \A d \in Commands \ {c} : d \in overtaken' <=> d \in overtaken
  BY <1>4 DEF Succeeded, TypeOK
<1>5. CASE op = Effective(c) /\ Locked
  <2>1. PICK task \in Task : /\ UNCHANGED commands
                             /\ task.op = op /\ task.cmd = c
                             /\ next_frame_tasks' = Append(next_frame_tasks, task)
    BY <1>5 DEF Does
  <2>2. Queue' = Append(Queue, task)
    BY <2>1, QueueMoves DEF Queue, TypeOK
  <2>3. \A d \in Commands : Effective(d)' = Effective(d)
    BY <2>1 DEF Effective, Registered
  <2>4. ASSUME NEW d \in Commands \ {c}
        PROVE  QueueSound(d)'
    <3>1. \A e : Has(Queue', e, d) <=> Has(Queue, e, d)
      BY <1>1, <2>1, <2>2, HasAppend
    <3>2. InOrder(Queue, Effective(d), d) => InOrder(Queue', Effective(d), d)
      BY <1>1, <2>1, <2>2, HasAppend
    <3>3. last'[d] = last[d] /\ (d \in overtaken' <=> d \in overtaken)
      BY <1>4, <1>5
    <3> QED
      BY <2>3, <3>1, <3>2, <3>3 DEF QueueSound
  <2>5. QueueSound(c)'
    <3> SUFFICES ASSUME c \notin overtaken'
                 PROVE  InOrder(Queue', op, c) /\ Has(Queue', op, c)
      BY <1>4, <1>5, <2>3 DEF QueueSound
    <3>1. Has(Queue', op, c)
      BY <1>1, <2>1, <2>2, HasAppend
    <3>2. InOrder(Queue, op, c)
      <4>1. CASE c \notin overtaken
        BY <1>5, <4>1 DEF QueueSound
      <4>2. CASE ~PutOff(c)
        <5>1. ~Has(Queue, op, c)
          BY <1>2, <4>2
        <5> QED
          BY <5>1 DEF InOrder, Has
      <4> QED
        BY <1>4, <1>5, <4>1, <4>2
    <3>3. InOrder(Queue', op, c)
      BY <1>1, <2>1, <2>2, <3>2, HasAppend
    <3> QED
      BY <3>1, <3>3
  <2> QED
    BY <2>4, <2>5
<1>6. CASE op = Effective(c) /\ ~Locked
  <2>1. /\ Queue' = Queue
        /\ \A d \in Commands : Registered(d)' <=> IF d = c THEN op = "add_command" ELSE Registered(d)
    BY <1>6 DEF Does, Queue
  <2>2. ASSUME NEW d \in Commands \ {c}
        PROVE  QueueSound(d)'
    <3>1. Effective(d)' = Effective(d)
      BY <2>1 DEF Effective
    <3>2. last'[d] = last[d] /\ (d \in overtaken' <=> d \in overtaken)
      BY <1>4, <1>6
    <3> QED
      BY <2>1, <3>1, <3>2 DEF QueueSound
  <2>3. QueueSound(c)'
    <3> SUFFICES ASSUME c \notin overtaken'
                 PROVE  InOrder(Queue', Effective(c)', c) /\ ~Has(Queue', Effective(c)', c)
                        /\ last'[c] # Effective(c)'
      BY DEF QueueSound
    <3>1. Effective(c)' \in Ops /\ Effective(c)' # op
      BY <2>1 DEF Effective, Ops
    <3>2. ~Has(Queue', Effective(c)', c)
      BY <1>2, <1>4, <1>6, <2>1, <3>1
    <3>3. InOrder(Queue', Effective(c)', c)
      BY <3>2 DEF InOrder, Has
    <3> QED
      BY <1>4, <1>6, <3>1, <3>2, <3>3
  <2> QED
    BY <2>2, <2>3
<1> QED
  BY <1>3, <1>5, <1>6

(* A call that was put off is made.                                           *)
LEMMA TaskSettles ==
  ASSUME TypeOK, next_frame_tasks' \in Seq(Task),
         frame_tasks # <<>>, frame_tasks' = Tail(frame_tasks),
         NEW op \in Ops, NEW c \in Commands,
         Head(frame_tasks).op = op, Head(frame_tasks).cmd = c,
         Does(op, c), UNCHANGED <<last, overtaken>>,
         \A d \in Commands : QueueSound(d)
  PROVE  \A d \in Commands : QueueSound(d)'
<1>1. /\ Queue \in Seq(Task) /\ Queue # <<>>
      /\ Tail(Queue) = Tail(frame_tasks) \o next_frame_tasks
      /\ Head(Queue) = Head(frame_tasks)
  BY QueueMoves DEF Queue, TypeOK
<1>2. /\ Tail(Queue) \in Seq(Task)
      /\ \A e, d : Has(Queue, e, d) <=> Has(Tail(Queue), e, d) \/ (e = op /\ d = c)
      /\ \A e, d : InOrder(Queue, e, d) => InOrder(Tail(Queue), e, d)
      /\ InOrder(Queue, op, c) =>
           \A k \in DOMAIN Tail(Queue) : Tail(Queue)[k].cmd = c => Tail(Queue)[k].op = op
  BY <1>1, HasTail
<1>3. InOrder(Queue, op, c) =>
        \A e \in Ops : InOrder(Tail(Queue), e, c) /\ (e # op => ~Has(Tail(Queue), e, c))
  BY <1>2, AllAlike
<1>4. CASE op # Effective(c)
  <2>1. Queue' = Tail(Queue) /\ UNCHANGED commands
    BY <1>1, <1>4 DEF Does, Queue
  <2>2. \A d \in Commands : Effective(d)' = Effective(d)
    BY <2>1 DEF Effective, Registered
  <2>3. \A d \in Commands : Has(Queue, Effective(d), d) <=> Has(Tail(Queue), Effective(d), d)
    BY <1>2, <1>4
  <2> QED
    BY <1>2, <2>1, <2>2, <2>3 DEF QueueSound
<1>5. CASE op = Effective(c) /\ Locked
  <2>1. PICK task \in Task : /\ UNCHANGED commands
                             /\ task.op = op /\ task.cmd = c
                             /\ next_frame_tasks' = Append(next_frame_tasks, task)
    BY <1>5 DEF Does
  <2>2. Queue' = Append(Tail(Queue), task)
    <3>1. Tail(frame_tasks) \in Seq(Task) /\ next_frame_tasks \in Seq(Task)
      BY DEF TypeOK
    <3>2. Tail(frame_tasks) \o Append(next_frame_tasks, task)
            = Append(Tail(frame_tasks) \o next_frame_tasks, task)
      BY <2>1, <3>1, QueueMoves
    <3> QED
      BY <1>1, <2>1, <3>2 DEF Queue
  <2>3. \A d \in Commands : Effective(d)' = Effective(d)
    BY <2>1 DEF Effective, Registered
  <2>4. /\ \A e, d : Has(Queue', e, d) <=> Has(Queue, e, d)
        /\ \A e, d : /\ InOrder(Tail(Queue), e, d)
                     /\ d = c => e = op
                     => InOrder(Queue', e, d)
    BY <1>2, <2>1, <2>2, HasAppend
  <2>5. \A d \in Commands : InOrder(Queue, Effective(d), d) => InOrder(Queue', Effective(d), d)
    BY <1>2, <1>5, <2>4
  <2> QED
    BY <2>3, <2>4, <2>5 DEF QueueSound
<1>6. CASE op = Effective(c) /\ ~Locked
  <2>1. /\ Queue' = Tail(Queue)
        /\ \A d \in Commands : Registered(d)' <=> IF d = c THEN op = "add_command" ELSE Registered(d)
    BY <1>1, <1>6 DEF Does, Queue
  <2>2. ASSUME NEW d \in Commands \ {c}
        PROVE  QueueSound(d)'
    <3>1. Effective(d)' = Effective(d)
      BY <2>1 DEF Effective
    <3>2. Has(Queue, Effective(d), d) <=> Has(Tail(Queue), Effective(d), d)
      BY <1>2
    <3> QED
      BY <1>2, <2>1, <3>1, <3>2 DEF QueueSound
  <2>3. QueueSound(c)'
    <3> SUFFICES ASSUME c \notin overtaken
                 PROVE  InOrder(Queue', Effective(c)', c) /\ ~Has(Queue', Effective(c)', c)
                        /\ last'[c] # Effective(c)'
      BY DEF QueueSound
    <3>1. Effective(c)' \in Ops /\ Effective(c)' # op
      BY <2>1 DEF Effective, Ops
    <3>2. last'[c] = op /\ InOrder(Queue, op, c)
      <4>1. Has(Queue, op, c)
        BY <1>2
      <4> QED
        BY <1>6, <4>1 DEF QueueSound
    <3>3. InOrder(Tail(Queue), Effective(c)', c) /\ ~Has(Tail(Queue), Effective(c)', c)
      BY <1>3, <3>1, <3>2
    <3> QED
      BY <2>1, <3>1, <3>2, <3>3
  <2> QED
    BY <2>2, <2>3
<1> QED
  BY <1>4, <1>5, <1>6

-----------------------------------------------------------------------------
(***************************************************************************)
(* Inputs walk the registry they found.                                    *)
(***************************************************************************)
\* What an input has tried are the commands up to where it is, in their order.
WalksInOrder(f) ==
  LET found == Answers(f.had, f.input)
  IN /\ \A k \in DOMAIN f.tried :
          /\ f.tried[k].at \in found /\ f.tried[k].cmd = At(f.had, f.tried[k].at)
          /\ ~Before(f.at, f.tried[k].at)
     /\ \A j, k \in DOMAIN f.tried : j < k => Before(f.tried[j].at, f.tried[k].at)
     /\ \A x \in found : Before(f.at, x) \/ \E k \in DOMAIN f.tried : f.tried[k].at = x

\* The registry is as every input that is under way found it.
InputsSound ==
  \A t \in Threads : \A d \in DOMAIN inputs[t] :
    inputs[t][d].had = commands /\ WalksInOrder(inputs[t][d])

(* Positions, and the commands there.                                         *)
LEMMA PositionParts ==
  ASSUME NEW registry \in [Priorities -> Seq(Commands)], NEW x \in Positions(registry)
  PROVE  x \in Nat \X Nat /\ x[1] > 0 /\ At(registry, x) \in Commands
<1>1. PICK i \in Priorities : x \in {i} \X DOMAIN registry[i]
  BY DEF Positions
<1>2. registry[i] \in Seq(Commands)
  OBVIOUS
<1>3. x[1] = i /\ x[2] \in DOMAIN registry[i] /\ x = <<x[1], x[2]>>
  BY <1>1
<1>4. x[2] \in Nat /\ registry[i][x[2]] \in Commands
  BY <1>2, <1>3
<1>5. i \in Nat /\ i > 0
  BY RegistryAssumption DEF Priorities
<1> QED
  BY <1>3, <1>4, <1>5 DEF At

(* Positions are ordered.                                                     *)
LEMMA BeforeOrders ==
  /\ \A x, y, z \in Nat \X Nat : Before(x, y) /\ Before(y, z) => Before(x, z)
  /\ \A x, y \in Nat \X Nat : x = y \/ Before(x, y) \/ Before(y, x)
  /\ \A x \in Nat \X Nat : ~Before(x, x)
<1>1. \A x \in Nat \X Nat : x[1] \in Nat /\ x[2] \in Nat /\ x = <<x[1], x[2]>>
  OBVIOUS
<1>2. \A x, y, z \in Nat \X Nat : Before(x, y) /\ Before(y, z) => Before(x, z)
  BY <1>1 DEF Before
<1>3. \A x, y \in Nat \X Nat : x = y \/ Before(x, y) \/ Before(y, x)
  BY <1>1 DEF Before
<1>4. \A x \in Nat \X Nat : ~Before(x, x)
  BY <1>1 DEF Before
<1> QED
  BY <1>2, <1>3, <1>4

(* A stack of inputs, and what is done to its top.                            *)
LEMMA StackMoves ==
  ASSUME NEW S, NEW s \in Seq(S), NEW f \in S
  PROVE  /\ Append(s, f) \in Seq(S)
         /\ \A d \in DOMAIN Append(s, f) :
              (d \in DOMAIN s /\ Append(s, f)[d] = s[d]) \/ Append(s, f)[d] = f
         /\ s # <<>> =>
              /\ Len(s) \in DOMAIN s /\ s[Len(s)] \in S
              /\ [s EXCEPT ![Len(s)] = f] \in Seq(S)
              /\ \A d \in DOMAIN [s EXCEPT ![Len(s)] = f] :
                   \/ d \in DOMAIN s /\ [s EXCEPT ![Len(s)] = f][d] = s[d]
                   \/ [s EXCEPT ![Len(s)] = f][d] = f
              /\ SubSeq(s, 1, Len(s) - 1) \in Seq(S)
              /\ \A d \in DOMAIN SubSeq(s, 1, Len(s) - 1) :
                   d \in DOMAIN s /\ SubSeq(s, 1, Len(s) - 1)[d] = s[d]
<1>1. /\ Append(s, f) \in Seq(S)
      /\ \A d \in DOMAIN Append(s, f) :
           (d \in DOMAIN s /\ Append(s, f)[d] = s[d]) \/ Append(s, f)[d] = f
  OBVIOUS
<1>2. ASSUME s # <<>>
      PROVE  /\ Len(s) \in DOMAIN s /\ s[Len(s)] \in S
             /\ [s EXCEPT ![Len(s)] = f] \in Seq(S)
             /\ \A d \in DOMAIN [s EXCEPT ![Len(s)] = f] :
                  \/ d \in DOMAIN s /\ [s EXCEPT ![Len(s)] = f][d] = s[d]
                  \/ [s EXCEPT ![Len(s)] = f][d] = f
  <2>1. Len(s) \in DOMAIN s /\ s[Len(s)] \in S
    BY <1>2
  <2> QED
    BY <2>1, ExceptSeq
<1>3. ASSUME s # <<>>
      PROVE  /\ SubSeq(s, 1, Len(s) - 1) \in Seq(S)
             /\ \A d \in DOMAIN SubSeq(s, 1, Len(s) - 1) :
                  d \in DOMAIN s /\ SubSeq(s, 1, Len(s) - 1)[d] = s[d]
  BY <1>3
<1> QED
  BY <1>1, <1>2, <1>3

(* The registry does not change under an input.                               *)
LEMMA InputsStay ==
  ASSUME InputsSound, UNCHANGED inputs, Locked => UNCHANGED commands,
         TypeOK
  PROVE  InputsSound'
<1> SUFFICES ASSUME NEW t \in Threads, NEW d \in DOMAIN inputs[t]
             PROVE  inputs[t][d].had = commands'
  BY DEF InputsSound
<1>1. inputs[t] \in Seq(Frame)
  BY DEF TypeOK
<1>2. inputs[t] # <<>>
  BY <1>1
<1>3. UNCHANGED commands
  BY <1>2 DEF Locked
<1> QED
  BY <1>3 DEF InputsSound

(* A thread's stack changes, and nothing else does.                           *)
LEMMA StackStays ==
  ASSUME TypeOK, InputsSound, UNCHANGED commands, NEW t \in Threads,
         NEW s \in Seq(Frame), inputs' = [inputs EXCEPT ![t] = s],
         \A d \in DOMAIN s : \/ d \in DOMAIN inputs[t] /\ s[d] = inputs[t][d]
                             \/ s[d].had = commands /\ WalksInOrder(s[d])
  PROVE  inputs' \in [Threads -> Seq(Frame)] /\ InputsSound'
<1>1. /\ inputs' \in [Threads -> Seq(Frame)]
      /\ inputs'[t] = s /\ \A u \in Threads \ {t} : inputs'[u] = inputs[u]
  BY DEF TypeOK
<1> SUFFICES ASSUME NEW u \in Threads, NEW d \in DOMAIN inputs'[u]
             PROVE  inputs'[u][d].had = commands /\ WalksInOrder(inputs'[u][d])
  BY <1>1 DEF InputsSound
<1>2. CASE u = t
  BY <1>1, <1>2 DEF InputsSound
<1>3. CASE u # t
  BY <1>1, <1>3 DEF InputsSound
<1> QED
  BY <1>2, <1>3

(* The record of an input that asks about a command.                          *)
LEMMA FrameParts ==
  ASSUME NEW i \in Inputs, NEW x \in Nat \X Nat, NEW had \in [Priorities -> Seq(Commands)],
         NEW tried \in Seq([at: Nat \X Nat, cmd: Commands])
  PROVE  \A stage \in {"walking", "asking", "running"} :
           [input |-> i, at |-> x, stage |-> stage, had |-> had, tried |-> tried] \in Frame
  BY DEF Frame

(* The next command of an input is the next in order.                         *)
LEMMA NextInOrder ==
  ASSUME commands \in [Priorities -> Seq(Commands)],
         NEW f \in Frame, f.had = commands, WalksInOrder(f),
         NEW x \in Remaining(f), \A y \in Remaining(f) : y = x \/ Before(x, y),
         NEW h, h = [f EXCEPT !.at = x, !.stage = "asking",
                              !.tried = Append(@, [at |-> x, cmd |-> At(commands, x)])]
  PROVE  h \in Frame /\ h.had = commands /\ WalksInOrder(h)
<1> DEFINE found == Answers(commands, f.input)
           entry == [at |-> x, cmd |-> At(commands, x)]
           Entry == [at: Nat \X Nat, cmd: Commands]
<1>1. x \in found /\ Before(f.at, x)
  BY DEF Remaining
<1>2. \A y \in found : y \in Nat \X Nat /\ At(commands, y) \in Commands
  BY PositionParts DEF Answers
<1>3. f.at \in Nat \X Nat /\ f.tried \in Seq(Entry)
  BY DEF Frame
<1>4. entry \in Entry
  BY <1>1, <1>2
<1>5. h.had = commands /\ h.input = f.input /\ h.at = x /\ h.tried = Append(f.tried, entry)
  BY DEF Frame
<1>6. h \in Frame
  <2>1. Append(f.tried, entry) \in Seq(Entry) /\ x \in Nat \X Nat
    BY <1>1, <1>2, <1>3, <1>4
  <2>2. /\ h = [input |-> f.input, at |-> x, stage |-> "asking", had |-> f.had,
               tried |-> Append(f.tried, entry)]
        /\ f.input \in Inputs /\ f.had \in [Priorities -> Seq(Commands)]
    BY DEF Frame
  <2>3. \A tried \in Seq(Entry) :
          [input |-> f.input, at |-> x, stage |-> "asking", had |-> f.had, tried |-> tried] \in Frame
    BY <2>1, <2>2, FrameParts
  <2> HIDE DEF entry, Entry
  <2> QED
    BY <2>1, <2>2, <2>3
<1>7. PICK n \in Nat : /\ n = Len(f.tried) /\ DOMAIN f.tried = 1 .. n /\ DOMAIN h.tried = 1 .. (n + 1)
                       /\ \A k \in 1 .. n : h.tried[k] = f.tried[k] /\ f.tried[k].at \in Nat \X Nat
                       /\ h.tried[n + 1] = entry /\ entry.at = x /\ entry.cmd = At(commands, x)
  <2>1. PICK n \in Nat : n = Len(f.tried)
    <3> HIDE DEF Entry
    <3> QED
      BY <1>3
  <2>2. entry.at = x /\ entry.cmd = At(commands, x)
    OBVIOUS
  <2> HIDE DEF entry, Entry
  <2>3. /\ DOMAIN f.tried = 1 .. n /\ DOMAIN h.tried = 1 .. (n + 1)
        /\ \A k \in 1 .. n : h.tried[k] = f.tried[k] /\ f.tried[k] \in Entry
        /\ h.tried[n + 1] = entry
    BY <1>3, <1>4, <1>5, <2>1
  <2>4. \A e \in Entry : e.at \in Nat \X Nat
    BY DEF Entry
  <2> QED
    BY <2>1, <2>2, <2>3, <2>4
<1>8. /\ \A k \in 1 .. n : /\ f.tried[k].at \in found /\ f.tried[k].cmd = At(commands, f.tried[k].at)
                           /\ ~Before(f.at, f.tried[k].at)
      /\ \A j, k \in 1 .. n : j < k => Before(f.tried[j].at, f.tried[k].at)
      /\ \A y \in found : Before(f.at, y) \/ \E k \in 1 .. n : f.tried[k].at = y
  BY <1>7 DEF WalksInOrder
<1> HIDE DEF found, entry, Entry
<1>9. \A k \in 1 .. n : Before(f.tried[k].at, x)
  <2> SUFFICES ASSUME NEW k \in 1 .. n
               PROVE  Before(f.tried[k].at, x)
    OBVIOUS
  <2>1. f.tried[k].at \in Nat \X Nat /\ x \in Nat \X Nat /\ ~Before(f.at, f.tried[k].at)
    BY <1>1, <1>2, <1>7, <1>8
  <2>2. f.tried[k].at = f.at \/ Before(f.tried[k].at, f.at)
    BY <1>3, <2>1, BeforeOrders
  <2> QED
    BY <1>1, <1>3, <2>1, <2>2, BeforeOrders
<1>10. \A k \in 1 .. (n + 1) : k \in 1 .. n \/ k = n + 1
  BY <1>7
<1>11. \A k \in 1 .. (n + 1) : /\ h.tried[k].at \in found
                               /\ h.tried[k].cmd = At(commands, h.tried[k].at)
                               /\ ~Before(x, h.tried[k].at)
  <2>1. \A k \in 1 .. n : ~Before(x, f.tried[k].at)
    <3> SUFFICES ASSUME NEW k \in 1 .. n
                 PROVE  ~Before(x, f.tried[k].at)
      OBVIOUS
    <3>1. f.tried[k].at \in Nat \X Nat /\ x \in Nat \X Nat
      BY <1>1, <1>2, <1>7
    <3> QED
      BY <1>9, <3>1, BeforeOrders
  <2>2. ~Before(x, x)
    BY <1>1, <1>2, BeforeOrders
  <2> QED
    BY <1>1, <1>7, <1>8, <1>10, <2>1, <2>2
<1>12. \A j, k \in 1 .. (n + 1) : j < k => Before(h.tried[j].at, h.tried[k].at)
  <2> SUFFICES ASSUME NEW j \in 1 .. (n + 1), NEW k \in 1 .. (n + 1), j < k
               PROVE  Before(h.tried[j].at, h.tried[k].at)
    OBVIOUS
  <2>1. j \in 1 .. n
    BY <1>7
  <2>2. CASE k \in 1 .. n
    BY <1>7, <1>8, <2>1, <2>2
  <2>3. CASE k = n + 1
    BY <1>7, <1>9, <2>1, <2>3
  <2> QED
    BY <1>10, <2>2, <2>3
<1>13. \A y \in found : Before(x, y) \/ \E k \in 1 .. (n + 1) : h.tried[k].at = y
  <2> SUFFICES ASSUME NEW y \in found
               PROVE  Before(x, y) \/ \E k \in 1 .. (n + 1) : h.tried[k].at = y
    OBVIOUS
  <2>1. n + 1 \in 1 .. (n + 1) /\ \A k \in 1 .. n : k \in 1 .. (n + 1)
    BY <1>7
  <2>2. CASE Before(f.at, y)
    <3>1. y = x \/ Before(x, y)
      BY <2>2 DEF Remaining, found
    <3> QED
      BY <1>7, <2>1, <3>1
  <2>3. CASE \E k \in 1 .. n : f.tried[k].at = y
    BY <1>7, <2>1, <2>3
  <2> QED
    BY <1>8, <2>2, <2>3
<1>14. WalksInOrder(h)
  <2>1. Answers(h.had, h.input) = found
    BY <1>5 DEF found
  <2> QED
    BY <1>5, <1>7, <1>11, <1>12, <1>13, <2>1 DEF WalksInOrder
<1> QED
  BY <1>5, <1>6, <1>14

(* Every step of an input.                                                    *)
LEMMA InputMoves ==
  ASSUME TypeOK, InputsSound, NEW t \in Threads, InputStep(t)
  PROVE  inputs' \in [Threads -> Seq(Frame)] /\ InputsSound'
<1> DEFINE s == inputs[t]
           f == s[Len(s)]
<1>1. s \in Seq(Frame) /\ commands \in [Priorities -> Seq(Commands)]
  BY DEF TypeOK
<1>2. \A d \in DOMAIN s : s[d].had = commands /\ WalksInOrder(s[d])
  BY DEF InputsSound
<1>3. Top(t) = f
  BY DEF Top
<1>4. s # <<>> => Len(s) \in DOMAIN s /\ f \in Frame /\ f.had = commands /\ WalksInOrder(f)
  BY <1>1, <1>2
<1>5. UNCHANGED commands
  BY DEF InputStep, StartInput, TryNext, CommandAllowed, CommandContinues, InputStopped, InputEnds
<1>6. ASSUME NEW h \in Frame, h.had = commands, WalksInOrder(h), s # <<>>, inputs' = SetTop(t, h)
      PROVE  inputs' \in [Threads -> Seq(Frame)] /\ InputsSound'
  <2> DEFINE r == [s EXCEPT ![Len(s)] = h]
  <2>1. inputs' = [inputs EXCEPT ![t] = r]
    BY <1>6 DEF SetTop
  <2>2. /\ r \in Seq(Frame)
        /\ \A d \in DOMAIN r : (d \in DOMAIN s /\ r[d] = s[d]) \/ r[d] = h
    BY <1>1, <1>6, StackMoves
  <2> HIDE DEF r
  <2>3. \A d \in DOMAIN r : \/ d \in DOMAIN inputs[t] /\ r[d] = inputs[t][d]
                            \/ r[d].had = commands /\ WalksInOrder(r[d])
    BY <1>6, <2>2
  <2> QED
    BY <1>5, <2>1, <2>2, <2>3, StackStays
<1>7. ASSUME s # <<>>, inputs' = Pop(t)
      PROVE  inputs' \in [Threads -> Seq(Frame)] /\ InputsSound'
  <2> DEFINE r == SubSeq(s, 1, Len(s) - 1)
  <2>1. inputs' = [inputs EXCEPT ![t] = r]
    BY <1>7 DEF Pop
  <2>2. r \in Seq(Frame) /\ \A d \in DOMAIN r : d \in DOMAIN s /\ r[d] = s[d]
    BY <1>1, <1>4, <1>7, StackMoves
  <2> HIDE DEF r
  <2>3. r \in Seq(Frame)
    BY <2>2
  <2>4. \A d \in DOMAIN r : \/ d \in DOMAIN inputs[t] /\ r[d] = inputs[t][d]
                            \/ r[d].had = commands /\ WalksInOrder(r[d])
    BY <2>2
  <2> QED
    BY <1>5, <2>1, <2>3, <2>4, StackStays
<1>8. ASSUME NEW i \in Inputs, StartInput(t, i)
      PROVE  inputs' \in [Threads -> Seq(Frame)] /\ InputsSound'
  <2> DEFINE h == [input |-> i, at |-> <<0, 0>>, stage |-> "walking", had |-> commands, tried |-> <<>>]
             r == Append(s, h)
  <2>1. inputs' = [inputs EXCEPT ![t] = r]
    BY <1>8 DEF StartInput
  <2>2. h \in Frame
    <3>1. <<0, 0>> \in Nat \X Nat
      OBVIOUS
    <3>2. <<>> \in Seq([at: Nat \X Nat, cmd: Commands])
      OBVIOUS
    <3> QED
      BY <1>1, <3>1, <3>2, FrameParts
  <2>3. WalksInOrder(h)
    <3>1. \A x \in Answers(commands, i) : Before(<<0, 0>>, x)
      <4>1. \A x \in Answers(commands, i) : x \in Nat \X Nat /\ x[1] > 0
        BY <1>1, PositionParts DEF Answers
      <4>2. \A x \in Nat \X Nat : x[1] \in Nat
        OBVIOUS
      <4> QED
        BY <4>1, <4>2 DEF Before
    <3>2. DOMAIN <<>> = {}
      OBVIOUS
    <3> QED
      BY <3>1, <3>2 DEF WalksInOrder
  <2>4. h.had = commands
    OBVIOUS
  <2> HIDE DEF h
  <2>5. /\ r \in Seq(Frame)
        /\ \A d \in DOMAIN r : (d \in DOMAIN s /\ r[d] = s[d]) \/ r[d] = h
    BY <1>1, <2>2, StackMoves
  <2> HIDE DEF r
  <2> QED
    BY <1>5, <2>1, <2>3, <2>4, <2>5, StackStays
<1>9. CASE TryNext(t)
  <2>1. s # <<>>
    BY <1>9 DEF TryNext
  <2>2. PICK x \in Remaining(f) :
          /\ \A y \in Remaining(f) : y = x \/ Before(x, y)
          /\ inputs' = SetTop(t, [f EXCEPT !.at = x, !.stage = "asking",
                                  !.tried = Append(@, [at |-> x, cmd |-> At(commands, x)])])
    BY <1>3, <1>9 DEF TryNext
  <2>3. PICK h : h = [f EXCEPT !.at = x, !.stage = "asking",
                               !.tried = Append(@, [at |-> x, cmd |-> At(commands, x)])]
    OBVIOUS
  <2>4. h \in Frame /\ h.had = commands /\ WalksInOrder(h)
    <3> HIDE DEF f
    <3> QED
      BY <1>1, <1>4, <2>1, <2>2, <2>3, NextInOrder
  <2> QED
    BY <1>6, <2>1, <2>2, <2>3, <2>4
<1>10. ASSUME NEW stage \in {"walking", "running"}, s # <<>>
       PROVE  LET h == [f EXCEPT !.stage = stage]
              IN h \in Frame /\ h.had = commands /\ WalksInOrder(h)
  <2>1. f \in Frame /\ f.had = commands /\ WalksInOrder(f)
    BY <1>4, <1>10
  <2> HIDE DEF f
  <2> DEFINE h == [f EXCEPT !.stage = stage]
  <2>2. /\ h \in Frame /\ h.had = f.had /\ h.input = f.input
        /\ h.at = f.at /\ h.tried = f.tried
    BY <2>1 DEF Frame
  <2> HIDE DEF h
  <2>3. WalksInOrder(h)
    BY <2>1, <2>2 DEF WalksInOrder
  <2> QED
    BY <2>1, <2>2, <2>3 DEF h
<1>11. CASE CommandAllowed(t)
  <2>1. s # <<>> /\ inputs' = SetTop(t, [f EXCEPT !.stage = "running"])
    BY <1>3, <1>11 DEF CommandAllowed, Resumes
  <2> HIDE DEF f
  <2> QED
    BY <1>6, <1>10, <2>1
<1>12. CASE CommandContinues(t)
  <2>1. s # <<>> /\ inputs' = SetTop(t, [f EXCEPT !.stage = "walking"])
    BY <1>3, <1>12 DEF CommandContinues, Resumes
  <2> HIDE DEF f
  <2> QED
    BY <1>6, <1>10, <2>1
<1>13. CASE InputStopped(t) \/ InputEnds(t)
  BY <1>7, <1>13 DEF InputStopped, InputEnds, Resumes
<1> QED
  BY <1>8, <1>9, <1>11, <1>12, <1>13 DEF InputStep

-----------------------------------------------------------------------------
(***************************************************************************)
(* Unloading purges.                                                       *)
(***************************************************************************)
\* An unload has put off a call for the command, or cannot know of it.
Known(c) == Pending("remove_command", c) \/ c \in strays

\* A registered command is on the list of its instance, which some unload will still look
\* at; and an unload that has looked at it still has the command to go through.
Tracked(c) ==
  Registered(c) =>
    /\ Known(c) \/ (Alive(Owner[c]) /\ c \in Range(listed[Owner[c]]))
    /\ \A t \in Threads : purge[t] # NoPurge /\ purge[t].instance = Owner[c] =>
         Known(c) \/ c \in Range(purge[t].todo)

(* A call, made by plugin code or by the main thread that takes it from the   *)
(* queue, forgets no command that is still registered.                        *)
LEMMA CallsForgetNothing ==
  ASSUME TypeOK, next_frame_tasks' \in Seq(Task), frame_tasks' \in Seq(Task),
         NEW op \in Ops, NEW c \in Commands, Does(op, c),
         NEW more \in SUBSET Commands, UpdateStrays(more),
         \/ UNCHANGED frame_tasks
         \/ /\ frame_tasks # <<>> /\ frame_tasks' = Tail(frame_tasks)
            /\ Head(frame_tasks).op = op /\ Head(frame_tasks).cmd = c
  PROVE  /\ strays' \subseteq Commands
         /\ \A d \in Commands : Registered(d)' /\ (Known(d) \/ d \in more) => Known(d)'
         /\ \A d \in Commands : Registered(d)' =>
              Registered(d) \/ (d = c /\ op = "add_command" /\ ~Registered(c))
         /\ op = "remove_command" /\ Registered(c)' => Known(c)'
<1>1. /\ \A d \in Commands : Pending("remove_command", d) <=>
           Has(frame_tasks, "remove_command", d) \/ Has(next_frame_tasks, "remove_command", d)
      /\ \A d \in Commands : Pending("remove_command", d)' <=>
           Has(frame_tasks', "remove_command", d) \/ Has(next_frame_tasks', "remove_command", d)
  BY DEF Pending, Has
<1>2. \A d \in Commands : Registered(d)' /\ (d \in strays \/ d \in more) => d \in strays'
  BY DEF UpdateStrays, TypeOK
<1>3. \A d \in Commands : Has(next_frame_tasks, "remove_command", d)
                            => Has(next_frame_tasks', "remove_command", d)
  <2>1. CASE UNCHANGED next_frame_tasks
    BY <2>1
  <2>2. CASE \E task \in Task : next_frame_tasks' = Append(next_frame_tasks, task)
    BY <2>2, HasAppend DEF TypeOK
  <2> QED
    BY <2>1, <2>2 DEF Does
<1>4. op = "remove_command" /\ Registered(c)' => Has(next_frame_tasks', "remove_command", c)
  <2> SUFFICES ASSUME op = "remove_command", Registered(c)'
               PROVE  Has(next_frame_tasks', "remove_command", c)
    OBVIOUS
  <2>1. CASE op # Effective(c)
    <3>1. ~Registered(c) /\ UNCHANGED commands
      BY <2>1 DEF Effective, Does
    <3> QED
      BY <3>1 DEF Registered
  <2>2. CASE op = Effective(c) /\ ~Locked
    BY <2>2 DEF Does
  <2>3. CASE op = Effective(c) /\ Locked
    <3>1. PICK task \in Task : /\ task.op = op /\ task.cmd = c
                               /\ next_frame_tasks' = Append(next_frame_tasks, task)
      BY <2>3 DEF Does
    <3> QED
      BY <3>1, HasAppend DEF TypeOK
  <2> QED
    BY <2>1, <2>2, <2>3
<1>5. \A d \in Commands : Has(frame_tasks, "remove_command", d) =>
        Has(frame_tasks', "remove_command", d) \/ (d = c /\ op = "remove_command")
  <2>1. CASE UNCHANGED frame_tasks
    BY <2>1
  <2>2. CASE /\ frame_tasks # <<>> /\ frame_tasks' = Tail(frame_tasks)
             /\ Head(frame_tasks).op = op /\ Head(frame_tasks).cmd = c
    <3>1. frame_tasks \in Seq(Task)
      BY DEF TypeOK
    <3> QED
      BY <2>2, <3>1, HasTail
  <2> QED
    BY <2>1, <2>2
<1>6. \A d \in Commands : Registered(d)' /\ (Known(d) \/ d \in more) => Known(d)'
  BY <1>1, <1>2, <1>3, <1>4, <1>5 DEF Known
<1>7. ASSUME NEW d \in Commands, Registered(d)'
      PROVE  Registered(d) \/ (d = c /\ op = "add_command" /\ ~Registered(c))
  <2>1. CASE UNCHANGED commands
    BY <1>7, <2>1 DEF Registered
  <2>2. CASE op = Effective(c) /\ ~Locked
    <3>1. Registered(d)' <=> IF d = c THEN op = "add_command" ELSE Registered(d)
      BY <2>2 DEF Does
    <3> QED
      BY <1>7, <2>2, <3>1 DEF Effective
  <2> QED
    BY <2>1, <2>2 DEF Does
<1>8. strays' \subseteq Commands
  BY DEF UpdateStrays, TypeOK
<1> QED
  BY <1>1, <1>4, <1>6, <1>7, <1>8 DEF Known

-----------------------------------------------------------------------------
(***************************************************************************)
(* The inductive invariant.                                                *)
(***************************************************************************)
CInv ==
  /\ TypeOK
  /\ CommandsUnique
  /\ InputsSound
  /\ \A c \in Commands : Tracked(c)
  /\ \A c \in Commands : QueueSound(c)

(* Initially nothing is registered, and nothing is under way.                 *)
LEMMA InitCInv == Init => CInv
<1> SUFFICES ASSUME Init
             PROVE  CInv
  OBVIOUS
<1> USE DEF Init
<1>1. <<>> \in Seq(Commands) /\ <<>> \in Seq(Frame) /\ <<>> \in Seq(Task) /\ DOMAIN <<>> = {}
  OBVIOUS
<1>2. TypeOK
  BY <1>1 DEF TypeOK
<1>3. \A c \in Commands : ~Registered(c)
  BY <1>1 DEF Registered, Range
<1>4. CommandsUnique
  BY <1>1 DEF CommandsUnique, IsInjective, Range
<1>5. InputsSound
  BY <1>1 DEF InputsSound
<1>6. \A c \in Commands : Tracked(c)
  BY <1>3 DEF Tracked
<1>7. Queue = <<>>
  BY DEF Queue
<1>8. \A c \in Commands : QueueSound(c)
  BY <1>1, <1>3, <1>7 DEF QueueSound, InOrder, Has, Effective
<1> QED
  BY <1>2, <1>4, <1>5, <1>6, <1>8 DEF CInv

(* A step that leaves registry, calls and strays alone.                       *)
LEMMA KnownStays ==
  ASSUME UNCHANGED <<commands, next_frame_tasks, frame_tasks, strays>>, NEW c \in Commands
  PROVE  Registered(c)' = Registered(c) /\ Known(c)' = Known(c)
  BY DEF Registered, Known, Pending

(* A call that raised nothing is remembered.                                  *)
LEMMA SucceededType ==
  ASSUME TypeOK, NEW op \in Ops, NEW c \in Commands,
         Succeeded(op, c) \/ UNCHANGED <<last, overtaken>>
  PROVE  last' \in [Commands -> {"add_command", "remove_command"}] /\ overtaken' \subseteq Commands
  BY DEF TypeOK, Succeeded, Ops

(* Plugin.add_command.                                                        *)
LEMMA AddKeeps ==
  ASSUME CInv, NEW t \in Threads, NEW c \in Commands, NEW i \in Priorities, PluginAddsCommand(t, c, i)
  PROVE  CInv'
<1> DEFINE g == Owner[c]
           more == IF BehindUnload(g) /\ ~Registered(c) THEN {c} ELSE {}
<1>1. /\ TypeOK /\ CommandsUnique /\ InputsSound
      /\ \A d \in Commands : Tracked(d) /\ QueueSound(d)
  BY DEF CInv
<1>2. /\ listed' = [listed EXCEPT ![g] = Append(@, c)]
      /\ add_command(c, i) /\ UpdateStrays(more)
      /\ UNCHANGED <<inputs, status, purge, phase, frame_tasks>>
      /\ IF AddRaises(c) THEN UNCHANGED <<last, overtaken>> ELSE Succeeded("add_command", c)
  BY DEF PluginAddsCommand
<1>3. /\ commands' \in [Priorities -> Seq(Commands)]
      /\ next_frame_tasks' \in Seq(Task)
      /\ CommandsUnique'
      /\ Does("add_command", c)
      /\ Locked => UNCHANGED commands
  BY <1>1, <1>2, AddDoes
<1>4. g \in Instances /\ "add_command" \in Ops /\ more \in SUBSET Commands
  BY RegistryAssumption DEF Ops
<1>5. /\ listed' \in [Instances -> Seq(Commands)]
      /\ Range(listed'[g]) = Range(listed[g]) \cup {c}
      /\ \A h \in Instances \ {g} : listed'[h] = listed[h]
  <2>1. listed[g] \in Seq(Commands)
    BY <1>1, <1>4 DEF TypeOK
  <2>2. Append(listed[g], c) \in Seq(Commands) /\ Range(Append(listed[g], c)) = Range(listed[g]) \cup {c}
    BY <2>1, AppendParts
  <2> QED
    BY <1>1, <1>2, <1>4, <2>2 DEF TypeOK
<1>6. /\ strays' \subseteq Commands
      /\ \A d \in Commands : Registered(d)' /\ (Known(d) \/ d \in more) => Known(d)'
      /\ \A d \in Commands : Registered(d)' => Registered(d) \/ (d = c /\ ~Registered(c))
  <2>1. frame_tasks' \in Seq(Task)
    BY <1>1, <1>2 DEF TypeOK
  <2> HIDE DEF more
  <2> QED
    BY <1>1, <1>2, <1>3, <1>4, <2>1, CallsForgetNothing
<1>7. TypeOK'
  <2>1. last' \in [Commands -> {"add_command", "remove_command"}] /\ overtaken' \subseteq Commands
    BY <1>1, <1>2, <1>4, SucceededType
  <2> QED
    BY <1>1, <1>2, <1>3, <1>5, <1>6, <2>1 DEF TypeOK
<1>8. InputsSound'
  BY <1>1, <1>2, <1>3, InputsStay
<1>9. ASSUME NEW d \in Commands
      PROVE  Tracked(d)'
  <2> SUFFICES ASSUME Registered(d)'
               PROVE  /\ Known(d)' \/ (Alive(Owner[d])' /\ d \in Range(listed'[Owner[d]]))
                      /\ \A u \in Threads : purge'[u] # NoPurge /\ purge'[u].instance = Owner[d] =>
                           Known(d)' \/ d \in Range(purge'[u].todo)
    BY DEF Tracked
  <2>1. Owner[d] \in Instances /\ Alive(Owner[d])' = Alive(Owner[d])
    BY <1>2, RegistryAssumption DEF Alive
  <2>2. CASE Registered(d)
    <3>1. Known(d) => Known(d)'
      BY <1>6
    <3>2. d \in Range(listed[Owner[d]]) => d \in Range(listed'[Owner[d]])
      BY <1>5, <2>1
    <3> QED
      BY <1>1, <1>2, <2>1, <2>2, <3>1, <3>2 DEF Tracked
  <2>3. CASE d = c /\ ~Registered(c)
    <3>1. BehindUnload(g) => Known(d)'
      BY <1>6, <2>3
    <3>2. ~BehindUnload(g) => Alive(g) /\ \A u \in Threads : purge[u].instance # g
      BY DEF BehindUnload
    <3> QED
      BY <1>2, <1>5, <2>1, <2>3, <3>1, <3>2
  <2> QED
    BY <1>6, <2>2, <2>3
<1>10. \A d \in Commands : QueueSound(d)'
  <2>1. IF "add_command" = Effective(c) THEN Succeeded("add_command", c) ELSE UNCHANGED <<last, overtaken>>
    BY <1>2 DEF Effective, AddRaises
  <2> QED
    BY <1>1, <1>2, <1>3, <1>4, <2>1, CallSettles
<1> QED
  BY <1>3, <1>7, <1>8, <1>9, <1>10 DEF CInv

(* A call of remove_command, of Plugin.remove_command or of an unload.        *)
LEMMA RemovesKeep ==
  ASSUME CInv, NEW c \in Commands, remove_command(c), UpdateStrays({}),
         UNCHANGED <<inputs, frame_tasks>>,
         IF Registered(c) THEN Succeeded("remove_command", c) ELSE UNCHANGED <<last, overtaken>>
  PROVE  /\ commands' \in [Priorities -> Seq(Commands)] /\ next_frame_tasks' \in Seq(Task)
         /\ last' \in [Commands -> {"add_command", "remove_command"}]
         /\ overtaken' \subseteq Commands /\ strays' \subseteq Commands
         /\ CommandsUnique' /\ InputsSound'
         /\ \A d \in Commands : Registered(d)' =>
              Registered(d) /\ (Known(d) => Known(d)') /\ (d = c => Known(d)')
         /\ \A d \in Commands : QueueSound(d)'
<1>1. /\ TypeOK /\ CommandsUnique /\ InputsSound
      /\ \A d \in Commands : Tracked(d) /\ QueueSound(d)
  BY DEF CInv
<1>2. /\ commands' \in [Priorities -> Seq(Commands)]
      /\ next_frame_tasks' \in Seq(Task)
      /\ CommandsUnique'
      /\ Does("remove_command", c)
      /\ Locked => UNCHANGED commands
  BY <1>1, RemoveDoes
<1>3. "remove_command" \in Ops /\ {} \in SUBSET Commands /\ frame_tasks' \in Seq(Task)
  BY <1>1 DEF Ops, TypeOK
<1>4. /\ strays' \subseteq Commands
      /\ \A d \in Commands : Registered(d)' /\ Known(d) => Known(d)'
      /\ \A d \in Commands : Registered(d)' => Registered(d)
      /\ Registered(c)' => Known(c)'
  BY <1>1, <1>2, <1>3, CallsForgetNothing
<1>5. last' \in [Commands -> {"add_command", "remove_command"}] /\ overtaken' \subseteq Commands
  BY <1>1, <1>3, SucceededType
<1>6. InputsSound'
  BY <1>1, <1>2, InputsStay
<1>7. \A d \in Commands : QueueSound(d)'
  <2>1. IF "remove_command" = Effective(c) THEN Succeeded("remove_command", c)
                                           ELSE UNCHANGED <<last, overtaken>>
    BY DEF Effective
  <2> QED
    BY <1>1, <1>2, <1>3, <2>1, CallSettles
<1> QED
  BY <1>2, <1>4, <1>5, <1>6, <1>7

(* Plugin.remove_command.                                                     *)
LEMMA PluginRemoveKeeps ==
  ASSUME CInv, NEW t \in Threads, NEW c \in Commands, PluginRemovesCommand(t, c)
  PROVE  CInv'
<1> DEFINE g == Owner[c]
<1>1. TypeOK /\ \A d \in Commands : Tracked(d)
  BY DEF CInv
<1>2. /\ remove_command(c) /\ UpdateStrays({})
      /\ UNCHANGED <<inputs, status, purge, phase, frame_tasks>>
      /\ IF Registered(c) THEN Succeeded("remove_command", c) ELSE UNCHANGED <<last, overtaken>>
      /\ listed' = IF Registered(c) THEN [listed EXCEPT ![g] = Retained(@, c)] ELSE listed
  BY DEF PluginRemovesCommand
<1>3. /\ commands' \in [Priorities -> Seq(Commands)] /\ next_frame_tasks' \in Seq(Task)
      /\ last' \in [Commands -> {"add_command", "remove_command"}]
      /\ overtaken' \subseteq Commands /\ strays' \subseteq Commands
      /\ CommandsUnique' /\ InputsSound'
      /\ \A d \in Commands : Registered(d)' =>
           Registered(d) /\ (Known(d) => Known(d)') /\ (d = c => Known(d)')
      /\ \A d \in Commands : QueueSound(d)'
  BY <1>2, RemovesKeep
<1>4. /\ listed' \in [Instances -> Seq(Commands)]
      /\ \A h \in Instances : Range(listed[h]) \ {c} \subseteq Range(listed'[h])
  <2>1. g \in Instances
    BY RegistryAssumption
  <2>2. listed[g] \in Seq(Commands)
    BY <1>1, <2>1 DEF TypeOK
  <2>3. /\ Retained(listed[g], c) \in Seq(Commands)
        /\ Range(Retained(listed[g], c)) = Range(listed[g]) \ {c}
    BY <2>2, RetainedParts
  <2> QED
    BY <1>1, <1>2, <2>1, <2>3 DEF TypeOK
<1>5. TypeOK'
  BY <1>1, <1>2, <1>3, <1>4 DEF TypeOK
<1>6. ASSUME NEW d \in Commands, Registered(d)'
      PROVE  /\ Known(d)' \/ (Alive(Owner[d])' /\ d \in Range(listed'[Owner[d]]))
             /\ \A u \in Threads : purge'[u] # NoPurge /\ purge'[u].instance = Owner[d] =>
                  Known(d)' \/ d \in Range(purge'[u].todo)
  <2>1. Owner[d] \in Instances /\ Alive(Owner[d])' = Alive(Owner[d])
    BY <1>2, RegistryAssumption DEF Alive
  <2>2. Registered(d) /\ (Known(d) => Known(d)') /\ (d = c => Known(d)')
    BY <1>3, <1>6
  <2>3. d # c /\ d \in Range(listed[Owner[d]]) => d \in Range(listed'[Owner[d]])
    BY <1>4, <2>1
  <2> QED
    BY <1>1, <1>2, <2>1, <2>2, <2>3 DEF Tracked
<1> QED
  BY <1>3, <1>5, <1>6 DEF CInv, Tracked

(* An unload unregisters the next of its commands.                            *)
LEMMA PurgeKeeps ==
  ASSUME CInv, NEW t \in Threads, PurgeCommand(t)
  PROVE  CInv'
<1>1. TypeOK /\ \A d \in Commands : Tracked(d)
  BY DEF CInv
<1>2. PICK c \in Commands, todo \in Seq(Commands) :
        /\ purge[t] # NoPurge /\ purge[t].todo = todo
        /\ todo # <<>> /\ c = Head(todo) /\ Tail(todo) \in Seq(Commands)
        /\ purge[t].instance \in Instances
        /\ Range(todo) \subseteq Range(Tail(todo)) \cup {c}
  <2>1. purge[t] \in [instance: Instances, todo: Seq(Commands)] /\ purge[t].todo # <<>>
    BY <1>1 DEF PurgeCommand, TypeOK
  <2>2. ASSUME NEW todo \in Seq(Commands), todo # <<>>
        PROVE  /\ Head(todo) \in Commands /\ Tail(todo) \in Seq(Commands)
               /\ Range(todo) \subseteq Range(Tail(todo)) \cup {Head(todo)}
    <3> DEFINE r == Tail(todo)
               h == Head(todo)
    <3>1. /\ h \in Commands /\ r \in Seq(Commands) /\ h = todo[1]
          /\ DOMAIN todo = 1 .. Len(todo) /\ DOMAIN r = 1 .. (Len(todo) - 1)
          /\ \A k \in 1 .. (Len(todo) - 1) : r[k] = todo[k + 1]
      BY <2>2
    <3>2. Len(todo) \in Nat /\ \A k \in 1 .. Len(todo) :
            k = 1 \/ (k - 1 \in 1 .. (Len(todo) - 1) /\ (k - 1) + 1 = k)
      OBVIOUS
    <3> HIDE DEF r, h
    <3>3. \A k \in DOMAIN todo : todo[k] = h \/ \E j \in DOMAIN r : r[j] = todo[k]
      BY <3>1, <3>2
    <3>4. Range(todo) \subseteq Range(r) \cup {h}
      BY <3>3 DEF Range
    <3> QED
      BY <3>1, <3>4 DEF r, h
  <2>3. purge[t] # NoPurge
    BY DEF PurgeCommand
  <2> QED
    BY <2>1, <2>2, <2>3
<1>3. /\ remove_command(c) /\ UpdateStrays({})
      /\ UNCHANGED <<listed, status, inputs, phase, frame_tasks>>
      /\ IF Registered(c) THEN Succeeded("remove_command", c) ELSE UNCHANGED <<last, overtaken>>
      /\ purge' = [purge EXCEPT ![t].todo = Tail(@)]
  BY <1>2 DEF PurgeCommand
<1>4. /\ commands' \in [Priorities -> Seq(Commands)] /\ next_frame_tasks' \in Seq(Task)
      /\ last' \in [Commands -> {"add_command", "remove_command"}]
      /\ overtaken' \subseteq Commands /\ strays' \subseteq Commands
      /\ CommandsUnique' /\ InputsSound'
      /\ \A d \in Commands : Registered(d)' =>
           Registered(d) /\ (Known(d) => Known(d)') /\ (d = c => Known(d)')
      /\ \A d \in Commands : QueueSound(d)'
  BY <1>3, RemovesKeep
<1>5. /\ purge'[t] = [instance |-> purge[t].instance, todo |-> Tail(todo)]
      /\ \A u \in Threads \ {t} : purge'[u] = purge[u]
      /\ purge' \in [Threads -> {NoPurge} \cup [instance: Instances, todo: Seq(Commands)]]
  <2>1. purge[t] \in [instance: Instances, todo: Seq(Commands)]
    BY <1>1, <1>2 DEF TypeOK
  <2>2. [purge[t] EXCEPT !.todo = Tail(@)] = [instance |-> purge[t].instance, todo |-> Tail(todo)]
    <3>1. \A S, p, r : p \in [instance: Instances, todo: S] =>
            [p EXCEPT !.todo = r] = [instance |-> p.instance, todo |-> r]
      OBVIOUS
    <3>2. [purge[t] EXCEPT !.todo = Tail(@)] = [purge[t] EXCEPT !.todo = Tail(todo)]
      BY <1>2
    <3> QED
      BY <2>1, <3>1, <3>2
  <2>3. purge' = [purge EXCEPT ![t] = [instance |-> purge[t].instance, todo |-> Tail(todo)]]
    BY <1>3, <2>2
  <2>4. purge \in [Threads -> {NoPurge} \cup [instance: Instances, todo: Seq(Commands)]]
    BY <1>1 DEF TypeOK
  <2>5. [instance |-> purge[t].instance, todo |-> Tail(todo)]
          \in [instance: Instances, todo: Seq(Commands)]
    BY <1>2
  <2> QED
    BY <2>3, <2>4, <2>5
<1>6. TypeOK'
  BY <1>1, <1>3, <1>4, <1>5 DEF TypeOK
<1>7. ASSUME NEW d \in Commands, Registered(d)'
      PROVE  /\ Known(d)' \/ (Alive(Owner[d])' /\ d \in Range(listed'[Owner[d]]))
             /\ \A u \in Threads : purge'[u] # NoPurge /\ purge'[u].instance = Owner[d] =>
                  Known(d)' \/ d \in Range(purge'[u].todo)
  <2>1. Alive(Owner[d])' = Alive(Owner[d])
    BY <1>3 DEF Alive
  <2>2. Registered(d) /\ (Known(d) => Known(d)') /\ (d = c => Known(d)')
    BY <1>4, <1>7
  <2>3. ASSUME NEW u \in Threads, purge'[u] # NoPurge, purge'[u].instance = Owner[d]
        PROVE  Known(d)' \/ d \in Range(purge'[u].todo)
    <3>1. CASE u = t
      <4>1. Known(d) \/ d \in Range(todo)
        BY <1>1, <1>2, <1>5, <2>2, <2>3, <3>1 DEF Tracked
      <4>2. purge'[u].todo = Tail(todo)
        BY <1>5, <3>1
      <4> QED
        BY <1>2, <2>2, <4>1, <4>2
    <3>2. CASE u # t
      BY <1>1, <1>5, <2>2, <2>3, <3>2 DEF Tracked
    <3> QED
      BY <3>1, <3>2
  <2> QED
    BY <1>1, <1>3, <2>1, <2>2, <2>3 DEF Tracked
<1> QED
  BY <1>4, <1>6, <1>7 DEF CInv, Tracked

(* The main thread makes a call that was put off.                             *)
LEMMA RunTaskKeeps ==
  ASSUME CInv, RunTask
  PROVE  CInv'
<1>1. /\ TypeOK /\ CommandsUnique /\ InputsSound
      /\ \A d \in Commands : Tracked(d) /\ QueueSound(d)
  BY DEF CInv
<1>2. /\ frame_tasks # <<>> /\ frame_tasks' = Tail(frame_tasks)
      /\ UNCHANGED <<inputs, phase, pluginVars, last, overtaken>>
  BY DEF RunTask
<1>3. PICK op \in Ops, c \in Commands, i \in Priorities :
        Head(frame_tasks).op = op /\ Head(frame_tasks).cmd = c /\ Head(frame_tasks).priority = i
  <2>1. Head(frame_tasks) \in Task
    BY <1>1, <1>2 DEF TypeOK
  <2> QED
    BY <2>1 DEF Task, Ops
<1>4. frame_tasks' \in Seq(Task)
  BY <1>1, <1>2 DEF TypeOK
<1>5. PICK more \in SUBSET Commands :
        /\ UpdateStrays(more)
        /\ commands' \in [Priorities -> Seq(Commands)]
        /\ next_frame_tasks' \in Seq(Task)
        /\ CommandsUnique'
        /\ Does(op, c)
        /\ Locked => UNCHANGED commands
        /\ op = "add_command" /\ ~Registered(c) =>
             c \in more \/ (~BehindUnload(Owner[c]) /\ c \in Range(listed[Owner[c]]))
  <2>1. CASE op = "add_command"
    <3> DEFINE more == IF ~Registered(c) /\ (BehindUnload(Owner[c])
                                               \/ c \notin Range(listed[Owner[c]]))
                       THEN {c} ELSE {}
    <3>1. add_command(c, i) /\ UpdateStrays(more)
      BY <1>3, <2>1 DEF RunTask
    <3>2. /\ commands' \in [Priorities -> Seq(Commands)]
          /\ next_frame_tasks' \in Seq(Task)
          /\ CommandsUnique'
          /\ Does(op, c)
          /\ Locked => UNCHANGED commands
      BY <1>1, <2>1, <3>1, AddDoes
    <3>3. more \in SUBSET Commands
      OBVIOUS
    <3>4. ~Registered(c) => c \in more \/ (~BehindUnload(Owner[c]) /\ c \in Range(listed[Owner[c]]))
      OBVIOUS
    <3> HIDE DEF more
    <3> QED
      BY <3>1, <3>2, <3>3, <3>4
  <2>2. CASE op = "remove_command"
    <3>1. remove_command(c) /\ UpdateStrays({})
      BY <1>3, <2>2 DEF RunTask
    <3>2. /\ commands' \in [Priorities -> Seq(Commands)]
          /\ next_frame_tasks' \in Seq(Task)
          /\ CommandsUnique'
          /\ Does(op, c)
          /\ Locked => UNCHANGED commands
      BY <1>1, <2>2, <3>1, RemoveDoes
    <3> QED
      BY <2>2, <3>1, <3>2
  <2> QED
    BY <2>1, <2>2 DEF Ops
<1>6. /\ strays' \subseteq Commands
      /\ \A d \in Commands : Registered(d)' /\ (Known(d) \/ d \in more) => Known(d)'
      /\ \A d \in Commands : Registered(d)' =>
           Registered(d) \/ (d = c /\ op = "add_command" /\ ~Registered(c))
  BY <1>1, <1>2, <1>3, <1>4, <1>5, CallsForgetNothing
<1>7. TypeOK'
  BY <1>1, <1>2, <1>4, <1>5, <1>6 DEF TypeOK, pluginVars
<1>8. InputsSound'
  BY <1>1, <1>2, <1>5, InputsStay
<1>9. \A d \in Commands : QueueSound(d)'
  BY <1>1, <1>2, <1>3, <1>5, TaskSettles
<1>10. ASSUME NEW d \in Commands, Registered(d)'
       PROVE  /\ Known(d)' \/ (Alive(Owner[d])' /\ d \in Range(listed'[Owner[d]]))
              /\ \A u \in Threads : purge'[u] # NoPurge /\ purge'[u].instance = Owner[d] =>
                   Known(d)' \/ d \in Range(purge'[u].todo)
  <2>1. /\ Alive(Owner[d])' = Alive(Owner[d])
        /\ UNCHANGED <<listed, purge>>
    BY <1>2 DEF Alive, pluginVars
  <2>2. CASE Registered(d)
    <3>1. Known(d) => Known(d)'
      BY <1>6, <1>10
    <3> QED
      BY <1>1, <2>1, <2>2, <3>1 DEF Tracked
  <2>3. CASE d = c /\ op = "add_command" /\ ~Registered(c)
    <3>1. CASE c \in more
      BY <1>6, <1>10, <2>3, <3>1
    <3>2. CASE ~BehindUnload(Owner[c]) /\ c \in Range(listed[Owner[c]])
      BY <2>1, <2>3, <3>2 DEF BehindUnload
    <3> QED
      BY <1>5, <2>3, <3>1, <3>2
  <2> QED
    BY <1>6, <1>10, <2>2, <2>3
<1> QED
  BY <1>5, <1>7, <1>8, <1>9, <1>10 DEF CInv, Tracked

(* A step that leaves registry, calls and inputs alone keeps what CInv says   *)
(* of them.                                                                   *)
LEMMA OthersKeep ==
  ASSUME CInv, UNCHANGED <<commands, last, overtaken>>, Queue' = Queue
  PROVE  CommandsUnique' /\ \A c \in Commands : QueueSound(c)'
<1>1. \A c \in Commands : QueueSound(c)'
  BY QueueStays DEF CInv
<1> QED
  BY <1>1 DEF CInv, CommandsUnique

(* Instances come and go.                                                     *)
LEMMA LifeKeeps ==
  ASSUME CInv,
         \/ \E t \in Threads, g \in Instances : Construct(t, g) \/ Unload(t, g)
         \/ \E g \in Instances : EndConstruct(g)
         \/ \E t \in Threads : EndPurge(t)
  PROVE  CInv'
<1>1. TypeOK /\ InputsSound /\ \A d \in Commands : Tracked(d)
  BY DEF CInv
<1>2. UNCHANGED <<commands, listed, inputs, phase, next_frame_tasks, frame_tasks, last, overtaken>>
  BY DEF Construct, Unload, EndConstruct, EndPurge, frameVars, histories
<1>3. CommandsUnique' /\ InputsSound' /\ \A c \in Commands : QueueSound(c)'
  <2>1. Queue' = Queue
    BY <1>2 DEF Queue
  <2>2. InputsSound'
    BY <1>1, <1>2, InputsStay
  <2> QED
    BY <1>2, <2>1, <2>2, OthersKeep
<1>4. \A d \in Commands : Owner[d] \in Instances /\ Registered(d)' = Registered(d)
  BY <1>2, RegistryAssumption DEF Registered
<1>5. ASSUME /\ status' \in [Instances -> {"absent", "constructing", "loaded", "gone"}]
             /\ purge' \in [Threads -> {NoPurge} \cup [instance: Instances, todo: Seq(Commands)]]
             /\ strays' \subseteq Commands
             /\ \A d \in Commands : Tracked(d)'
      PROVE  CInv'
  <2>1. TypeOK'
    BY <1>1, <1>2, <1>5 DEF TypeOK
  <2> QED
    BY <1>3, <1>5, <2>1 DEF CInv
<1>6. ASSUME NEW t \in Threads, NEW g \in Instances, Construct(t, g)
      PROVE  CInv'
  <2>1. /\ status[g] = "absent" /\ status' = [status EXCEPT ![g] = "constructing"]
        /\ UNCHANGED <<purge, strays>>
    BY <1>6 DEF Construct, histories
  <2>2. \A d \in Commands : Alive(Owner[d]) => Alive(Owner[d])'
    BY <1>1, <1>4, <2>1 DEF Alive, TypeOK
  <2>3. \A d \in Commands : Known(d)' = Known(d)
    BY <1>2, <2>1, KnownStays
  <2>4. \A d \in Commands : Tracked(d)'
    BY <1>1, <1>2, <1>4, <2>1, <2>2, <2>3 DEF Tracked
  <2> QED
    BY <1>1, <1>5, <2>1, <2>4 DEF TypeOK
<1>7. ASSUME NEW g \in Instances, EndConstruct(g)
      PROVE  CInv'
  <2>1. status[g] = "constructing" /\ UNCHANGED purge
    BY <1>7 DEF EndConstruct
  <2>2. CASE status' = [status EXCEPT ![g] = "loaded"] /\ UNCHANGED strays
    <3>1. \A d \in Commands : Alive(Owner[d]) => Alive(Owner[d])'
      BY <1>1, <1>4, <2>2 DEF Alive, TypeOK
    <3>2. \A d \in Commands : Known(d)' = Known(d)
      BY <1>2, <2>2, KnownStays
    <3>3. \A d \in Commands : Tracked(d)'
      BY <1>1, <1>2, <1>4, <2>1, <3>1, <3>2 DEF Tracked
    <3> QED
      BY <1>1, <1>5, <2>1, <2>2, <3>3 DEF TypeOK
  <2>3. CASE status' = [status EXCEPT ![g] = "gone"] /\ UpdateStrays(Range(listed[g]))
    <3>1. \A d \in Commands : Owner[d] # g /\ Alive(Owner[d]) => Alive(Owner[d])'
      BY <1>1, <1>4, <2>3 DEF Alive, TypeOK
    <3>2. Range(listed[g]) \subseteq Commands
      <4>1. listed[g] \in Seq(Commands)
        BY <1>1 DEF TypeOK
      <4> QED
        BY <4>1 DEF Range
    <3>3. /\ strays' \subseteq Commands
          /\ \A d \in Commands : Registered(d) /\ (d \in strays \/ d \in Range(listed[g])) => d \in strays'
      BY <1>1, <1>4, <2>3, <3>2 DEF UpdateStrays, TypeOK
    <3>4. \A d \in Commands : Registered(d) /\ (Known(d) \/ d \in Range(listed[g])) => Known(d)'
      BY <1>2, <3>3 DEF Known, Pending
    <3>5. ASSUME NEW d \in Commands
          PROVE  Tracked(d)'
      <4> SUFFICES ASSUME Registered(d)
                   PROVE  /\ Known(d)' \/ (Alive(Owner[d])' /\ d \in Range(listed'[Owner[d]]))
                          /\ \A u \in Threads : purge'[u] # NoPurge /\ purge'[u].instance = Owner[d] =>
                               Known(d)' \/ d \in Range(purge'[u].todo)
        BY <1>4 DEF Tracked
      <4>1. Known(d) => Known(d)'
        BY <3>4
      <4>2. Owner[d] = g /\ d \in Range(listed[Owner[d]]) => Known(d)'
        BY <3>4
      <4> QED
        BY <1>1, <1>2, <2>1, <3>1, <4>1, <4>2 DEF Tracked
    <3> QED
      BY <1>1, <1>5, <2>1, <2>3, <3>3, <3>5 DEF TypeOK
  <2> QED
    BY <1>7, <2>2, <2>3 DEF EndConstruct
<1>8. ASSUME NEW t \in Threads, NEW g \in Instances, Unload(t, g)
      PROVE  CInv'
  <2>1. /\ purge' = [purge EXCEPT ![t] = [instance |-> g, todo |-> listed[g]]]
        /\ UNCHANGED <<status, strays>> /\ listed[g] \in Seq(Commands)
    BY <1>1, <1>8 DEF Unload, histories, TypeOK
  <2>2. \A d \in Commands : Known(d)' = Known(d) /\ Alive(Owner[d])' = Alive(Owner[d])
    BY <1>2, <2>1, KnownStays DEF Alive
  <2>3. /\ [instance |-> g, todo |-> listed[g]] \in [instance: Instances, todo: Seq(Commands)]
        /\ purge' \in [Threads -> {NoPurge} \cup [instance: Instances, todo: Seq(Commands)]]
        /\ purge'[t].instance = g /\ purge'[t].todo = listed[g]
        /\ \A u \in Threads \ {t} : purge'[u] = purge[u]
    BY <1>1, <2>1 DEF TypeOK
  <2>4. ASSUME NEW d \in Commands
        PROVE  Tracked(d)'
    <3> SUFFICES ASSUME Registered(d), NEW u \in Threads,
                        purge'[u] # NoPurge, purge'[u].instance = Owner[d]
                 PROVE  Known(d) \/ d \in Range(purge'[u].todo)
      BY <1>1, <1>2, <1>4, <2>2 DEF Tracked
    <3>1. CASE u = t
      BY <1>1, <2>3, <3>1 DEF Tracked
    <3>2. CASE u # t
      BY <1>1, <2>3, <3>2 DEF Tracked
    <3> QED
      BY <3>1, <3>2
  <2> QED
    BY <1>1, <1>5, <2>1, <2>3, <2>4 DEF TypeOK
<1>9. ASSUME NEW t \in Threads, EndPurge(t)
      PROVE  CInv'
  <2>1. /\ purge[t] # NoPurge /\ purge[t].todo = <<>>
        /\ status' = [status EXCEPT ![purge[t].instance] = "gone"]
        /\ purge' = [purge EXCEPT ![t] = NoPurge]
        /\ UNCHANGED strays
    BY <1>9 DEF EndPurge, histories
  <2>2. purge[t].instance \in Instances
    BY <1>1, <2>1 DEF TypeOK
  <2>3. \A d \in Commands : Known(d)' = Known(d)
    BY <1>2, <2>1, KnownStays
  <2>4. /\ purge'[t] = NoPurge /\ \A u \in Threads \ {t} : purge'[u] = purge[u]
        /\ purge' \in [Threads -> {NoPurge} \cup [instance: Instances, todo: Seq(Commands)]]
        /\ status' \in [Instances -> {"absent", "constructing", "loaded", "gone"}]
    BY <1>1, <2>1 DEF TypeOK
  <2>5. ASSUME NEW d \in Commands
        PROVE  Tracked(d)'
    <3> SUFFICES ASSUME Registered(d)
                 PROVE  /\ Known(d)' \/ (Alive(Owner[d])' /\ d \in Range(listed'[Owner[d]]))
                        /\ \A u \in Threads : purge'[u] # NoPurge /\ purge'[u].instance = Owner[d] =>
                             Known(d)' \/ d \in Range(purge'[u].todo)
      BY <1>4 DEF Tracked
    <3>1. CASE Owner[d] = purge[t].instance
      <4>1. Range(<<>>) = {}
        BY DEF Range
      <4> QED
        BY <1>1, <2>1, <2>3, <3>1, <4>1 DEF Tracked
    <3>2. CASE Owner[d] # purge[t].instance
      <4>1. Alive(Owner[d])' = Alive(Owner[d])
        BY <1>1, <1>4, <2>1, <3>2 DEF Alive, TypeOK
      <4> QED
        BY <1>1, <1>2, <2>3, <2>4, <4>1 DEF Tracked
    <3> QED
      BY <3>1, <3>2
  <2>6. strays' \subseteq Commands
    BY <1>1, <2>1 DEF TypeOK
  <2> QED
    BY <1>5, <2>4, <2>5, <2>6
<1> QED
  BY <1>6, <1>7, <1>8, <1>9

(* Every step keeps the invariant.                                            *)
LEMMA NextKeepsCInv == CInv /\ [Next]_vars => CInv'
<1> SUFFICES ASSUME CInv, [Next]_vars
             PROVE  CInv'
  OBVIOUS
<1>1. TypeOK /\ InputsSound /\ \A d \in Commands : Tracked(d)
  BY DEF CInv
<1>2. ASSUME UNCHANGED <<commands, pluginVars, histories>>, Queue' = Queue,
             \A c \in Commands : Pending("remove_command", c)' = Pending("remove_command", c),
             next_frame_tasks' \in Seq(Task), frame_tasks' \in Seq(Task),
             phase' \in {"idle", "tasks", "frame"},
             inputs' \in [Threads -> Seq(Frame)], InputsSound'
      PROVE  CInv'
  <2>1. CommandsUnique' /\ \A c \in Commands : QueueSound(c)'
    BY <1>2, OthersKeep DEF histories
  <2>2. \A d \in Commands : Tracked(d)'
    BY <1>1, <1>2 DEF Tracked, Registered, Known, Alive, pluginVars, histories
  <2>3. TypeOK'
    BY <1>1, <1>2 DEF TypeOK, pluginVars, histories
  <2> QED
    BY <1>2, <2>1, <2>2, <2>3 DEF CInv
<1>3. ASSUME NEW t \in Threads, InputStep(t)
      PROVE  CInv'
  <2>1. UNCHANGED <<commands, frameVars, pluginVars, histories>>
    BY <1>3 DEF InputStep, StartInput, TryNext, CommandAllowed, CommandContinues,
                InputStopped, InputEnds
  <2>2. Queue' = Queue /\ \A c \in Commands : Pending("remove_command", c)' = Pending("remove_command", c)
    BY <2>1 DEF Queue, Pending, frameVars
  <2> QED
    BY <1>1, <1>2, <1>3, <2>1, <2>2, InputMoves DEF frameVars, TypeOK
<1>4. CASE BeginFrame \/ TasksDone
  <2>1. /\ UNCHANGED <<commands, inputs, next_frame_tasks, frame_tasks, pluginVars, histories>>
        /\ phase' \in {"idle", "tasks", "frame"}
    BY <1>4 DEF BeginFrame, TasksDone
  <2>2. InputsSound'
    BY <1>1, <2>1, InputsStay
  <2>3. Queue' = Queue /\ \A c \in Commands : Pending("remove_command", c)' = Pending("remove_command", c)
    BY <2>1 DEF Queue, Pending
  <2> QED
    BY <1>1, <1>2, <2>1, <2>2, <2>3 DEF TypeOK
<1>5. CASE TransferNextFrameTasks
  <2>1. /\ UNCHANGED <<commands, inputs, pluginVars, histories>>
        /\ frame_tasks' = Queue /\ next_frame_tasks' = <<>> /\ phase' = "idle"
    BY <1>5 DEF TransferNextFrameTasks, Queue
  <2>2. Queue \in Seq(Task) /\ <<>> \in Seq(Task) /\ Queue \o <<>> = Queue /\ DOMAIN <<>> = {}
    <3>1. Queue \in Seq(Task)
      BY <1>1, PendingQueue DEF TypeOK
    <3> QED
      BY <3>1
  <2>3. InputsSound'
    BY <1>1, <2>1, InputsStay
  <2>4. Queue' = Queue
    BY <2>1, <2>2 DEF Queue
  <2>5. ASSUME NEW c \in Commands
        PROVE  Pending("remove_command", c)' = Pending("remove_command", c)
    <3>1. Pending("remove_command", c) <=> Has(Queue, "remove_command", c)
      BY <1>1, PendingQueue DEF TypeOK
    <3>2. Pending("remove_command", c)' <=> Has(Queue, "remove_command", c)
      BY <2>1, <2>2 DEF Pending, Has
    <3>3. Pending("remove_command", c) \in BOOLEAN /\ Pending("remove_command", c)' \in BOOLEAN
      BY DEF Pending
    <3> QED
      BY <3>1, <3>2, <3>3
  <2> QED
    BY <1>1, <1>2, <2>1, <2>2, <2>3, <2>4, <2>5 DEF TypeOK
<1>6. ASSUME NEW t \in Threads, PluginStep(t)
      PROVE  CInv'
  <2>1. ASSUME NEW x \in Offered, PluginAddsCommand(t, x[1], x[2])
        PROVE  CInv'
    <3>1. x[1] \in Commands /\ x[2] \in Priorities
      BY RegistryAssumption
    <3> QED
      BY <2>1, <3>1, AddKeeps
  <2> QED
    BY <1>6, <2>1, PluginRemoveKeeps, PurgeKeeps, LifeKeeps DEF PluginStep
<1>7. CASE UNCHANGED vars
  <2>1. UNCHANGED <<commands, inputs, frameVars, pluginVars, histories>>
    BY <1>7 DEF vars
  <2>2. InputsSound'
    BY <1>1, <2>1, InputsStay
  <2>3. Queue' = Queue /\ \A c \in Commands : Pending("remove_command", c)' = Pending("remove_command", c)
    BY <2>1 DEF Queue, Pending, frameVars
  <2> QED
    BY <1>1, <1>2, <2>1, <2>2, <2>3 DEF TypeOK, frameVars
<1> QED
  BY <1>3, <1>4, <1>5, <1>6, <1>7, LifeKeeps, RunTaskKeeps DEF Next, FrameStep

(* The invariant holds of every behaviour of the registry.                    *)
LEMMA RegistryKept == Spec => []CInv
<1>1. Init => CInv
  BY InitCInv
<1>2. CInv /\ [Next]_vars => CInv'
  BY NextKeepsCInv
<1> QED
  BY <1>1, <1>2, PTL DEF Spec

(* The variables have their types.                                            *)
THEOREM RegistryTypeOK == Spec => []TypeOK
<1>1. CInv => TypeOK
  BY DEF CInv
<1> QED
  BY <1>1, RegistryKept, PTL

(* No two commands of the registry, at whatever priorities, agree in names    *)
(* and handler, whoever called add_command and remove_command, at once or put *)
(* off (commands.rs: CommandInvoker::add_command).                            *)
THEOREM NoCommandTwice == Spec => []CommandsUnique
<1>1. CInv => CommandsUnique
  BY DEF CInv
<1> QED
  BY <1>1, RegistryKept, PTL

(* An input tries what was registered when it began, in order, each command   *)
(* once, though it reads the registry anew at every command it tries          *)
(* (commands.rs: CommandInvoker::handle_input).                               *)
THEOREM InputsTryWhatTheyFound == Spec => []TriesWhatItFound
<1>1. CInv => TriesWhatItFound
  <2> SUFFICES ASSUME CInv, NEW t \in Threads, NEW d \in DOMAIN inputs[t]
               PROVE  LET f == inputs[t][d]
                          found == Answers(f.had, f.input)
                      IN /\ \A k \in DOMAIN f.tried :
                              f.tried[k].at \in found /\ f.tried[k].cmd = At(f.had, f.tried[k].at)
                         /\ \A j, k \in DOMAIN f.tried :
                              j < k => Before(f.tried[j].at, f.tried[k].at)
                         /\ \A x \in found :
                              x \in Remaining(f) \/ \E k \in DOMAIN f.tried : f.tried[k].at = x
    BY DEF TriesWhatItFound
  <2>1. inputs[t][d].had = commands /\ WalksInOrder(inputs[t][d])
    BY DEF CInv, InputsSound
  <2> QED
    BY <2>1 DEF WalksInOrder, Remaining
<1> QED
  BY <1>1, RegistryKept, PTL

(* When nothing is put off for a command it is registered exactly when the    *)
(* last call for it that raised nothing was add_command, unless a call made   *)
(* at once overtook one that was put off (commands.rs: add_command,           *)
(* remove_command; events/mod.rs, next_frame).                                *)
THEOREM TheLastCallCounts == Spec => []LastCallCounts
<1>1. CInv => LastCallCounts
  <2> SUFFICES ASSUME CInv, NEW c \in Commands, ~PutOff(c), c \notin overtaken
               PROVE  Registered(c) <=> last[c] = "add_command"
    BY DEF LastCallCounts
  <2>1. TypeOK /\ QueueSound(c)
    BY DEF CInv
  <2>2. ~Has(Queue, Effective(c), c)
    BY <2>1, PendingQueue DEF PutOff, Effective, TypeOK
  <2>3. last[c] # Effective(c) /\ last[c] \in {"add_command", "remove_command"}
    BY <2>1, <2>2 DEF QueueSound, TypeOK
  <2> QED
    BY <2>3 DEF Effective
<1> QED
  BY <1>1, RegistryKept, PTL

(* After an unload a command of the instance is registered only as long as a  *)
(* call of the unload that takes it out is put off, or as one the unload      *)
(* could not know of (manager.rs: try_unload_plugin).                         *)
THEOREM UnloadPurgesTheRegistry == Spec => []UnloadPurgesCommands
<1>1. CInv => UnloadPurgesCommands
  BY DEF CInv, Tracked, Known, UnloadPurgesCommands
<1> QED
  BY <1>1, RegistryKept, PTL

=============================================================================

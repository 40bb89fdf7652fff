------------------------ MODULE PluginLifecycleProofs ------------------------
(***************************************************************************)
(* What is proved of loading and unloading, for any number of plugins,     *)
(* instances, threads and hooks and any nesting of dispatches.             *)
(*                                                                         *)
(* Two invariants carry it.  LifecycleSound: next to the types and the     *)
(* registry's own invariant, the code of a job runs only when the dispatch *)
(* it was begun in waits for its handler, which holds of the jobs that     *)
(* wait for one inside them as well (JobSound), so what it does to the     *)
(* registry is what plugin code may do at that moment.  Tracked: a         *)
(* registered hook is on the list its unload will go by, and on what every *)
(* unload that copied the list, be it one that waits for another, still    *)
(* has to do, unless its removal is put off or it is a stray.              *)
(***************************************************************************)
EXTENDS PluginLifecycle, EventDispatcherProofs, FiniteSetTheorems

(* Every set of numbers has a least one: the intervals below the numbers are  *)
(* finite sets, of which one has no other inside.                             *)
LEMMA LeastNumber ==
  ASSUME NEW T, T \subseteq Nat, T # {}
  PROVE  \E n \in T : \A m \in T : n <= m
<1> DEFINE below == {1 .. n : n \in T}
<1>1. below \subseteq FiniteSubsetsOf(Nat) /\ below # {}
  <2>1. \A n \in T : 1 .. n \in SUBSET Nat /\ IsFiniteSet(1 .. n)
    BY FS_Interval
  <2> QED
    BY <2>1 DEF FiniteSubsetsOf
<1>2. PICK x \in below : \A y \in below : <<y, x>> \notin StrictSubsetOrdering(Nat)
  <2>1. IsWellFoundedOn(StrictSubsetOrdering(Nat), FiniteSubsetsOf(Nat))
    BY FS_StrictSubsetOrderingWellFounded
  <2> QED
    BY <1>1, <2>1, WFMin
<1>3. PICK n \in T : x = 1 .. n
  OBVIOUS
<1>4. ASSUME NEW m \in T, m < n
      PROVE  FALSE
  <2>1. 1 .. m \in below /\ 1 .. m \subseteq 1 .. n /\ 1 .. m # 1 .. n
    <3>1. n \in 1 .. n /\ n \notin 1 .. m
      BY <1>4
    <3> QED
      BY <1>4, <3>1
  <2>2. <<1 .. m, x>> \in StrictSubsetOrdering(Nat)
    BY <1>1, <1>3, <2>1 DEF StrictSubsetOrdering
  <2> QED
    BY <1>2, <2>1, <2>2
<1> QED
  BY <1>4

(* What retain leaves of a sequence. *)
LEMMA RetainedParts ==
  ASSUME NEW S, NEW s \in Seq(S), NEW h
  PROVE  /\ Retained(s, h) \in Seq(S)
         /\ Range(Retained(s, h)) = Range(s) \ {h}
<1> DEFINE Value(g, k) == IF k = 0 THEN <<>>
                          ELSE IF s[k] = h THEN g[k - 1] ELSE Append(g[k - 1], s[k])
           Fits(g, m) == g = [k \in 0 .. m |-> Value(g, k)]
<1>1. PICK n \in Nat : n = Len(s) /\ DOMAIN s = 1 .. n /\ \A k \in 1 .. n : s[k] \in S
  OBVIOUS
<1>2. \A m \in 0 .. n : \E g : Fits(g, m)
  <2> DEFINE T == {m \in 0 .. n : ~ \E g : Fits(g, m)}
  <2> SUFFICES ASSUME T # {}
               PROVE  FALSE
    <3> HIDE DEF Fits
    <3> QED
      OBVIOUS
  <2>1. PICK m \in T : \A k \in T : m <= k
    <3>1. T \subseteq Nat
      OBVIOUS
    <3> HIDE DEF T
    <3> QED
      BY <3>1, LeastNumber
  <2>2. m \in 0 .. n /\ \A k \in 0 .. n : k < m => \E g : Fits(g, k)
    <3> HIDE DEF Fits
    <3> QED
      BY <2>1
  <2>3. CASE m = 0
    <3>1. Fits([k \in 0 .. 0 |-> <<>>], 0)
      OBVIOUS
    <3> QED
      BY <2>3, <3>1
  <2>4. CASE m # 0
    <3>1. m \in Nat /\ m - 1 \in 0 .. n /\ m - 1 < m
      BY <2>2, <2>4
    <3>2. PICK g : Fits(g, m - 1)
      <4> HIDE DEF Fits
      <4> QED
        BY <2>2, <3>1
    <3>3. PICK f : f = [k \in 0 .. m |-> IF k < m THEN g[k] ELSE Value(g, m)]
      OBVIOUS
    <3>4. /\ \A k \in 0 .. m : k < m => f[k] = g[k] /\ g[k] = Value(g, k)
          /\ f[m] = Value(g, m)
          /\ DOMAIN f = 0 .. m
      <4>1. m \in 0 .. m /\ \A k \in 0 .. m : k < m => k \in 0 .. m - 1
        BY <3>1
      <4> HIDE DEF Value
      <4>2. \A k \in 0 .. m - 1 : g[k] = Value(g, k)
        BY <3>2
      <4> QED
        BY <3>3, <4>1, <4>2
    <3>5. ASSUME NEW k \in 0 .. m
          PROVE  Value(f, k) = Value(g, k)
      <4>1. k # 0 => k - 1 \in 0 .. m /\ k - 1 < m
        BY <3>1
      <4>2. k # 0 => f[k - 1] = g[k - 1]
        BY <3>4, <4>1
      <4> QED
        BY <4>2
    <3>6. \A k \in 0 .. m : f[k] = Value(f, k)
      <4> HIDE DEF Value
      <4>1. \A k \in 0 .. m : k < m \/ k = m
        BY <3>1
      <4> QED
        BY <3>4, <3>5, <4>1
    <3>7. Fits(f, m)
      <4> HIDE DEF Value
      <4>1. f = [k \in 0 .. m |-> f[k]]
        BY <3>3
      <4> QED
        BY <3>6, <4>1
    <3> QED
      BY <3>7
  <2> HIDE DEF Fits
  <2> QED
    BY <2>3, <2>4
<1>3. PICK kept : Fits(kept, n) /\ Retained(s, h) = kept[n]
  <2>1. PICK kept : kept = CHOOSE g : Fits(g, n)
    OBVIOUS
  <2>2. Fits(kept, n)
    <3> HIDE DEF Fits
    <3> QED
      BY <1>2, <2>1
  <2>3. Retained(s, h) = kept[n]
    BY <1>1, <2>1 DEF Retained
  <2> QED
    BY <2>2, <2>3
<1>4. /\ kept[0] = <<>>
      /\ \A k \in 1 .. n : kept[k] = IF s[k] = h THEN kept[k - 1] ELSE Append(kept[k - 1], s[k])
  <2>1. \A k \in 0 .. n : kept[k] = Value(kept, k)
    <3> HIDE DEF Value
    <3> QED
      BY <1>3
  <2>2. 0 \in 0 .. n /\ \A k \in 1 .. n : k \in 0 .. n /\ k # 0
    OBVIOUS
  <2> QED
    BY <2>1, <2>2
<1> HIDE DEF Fits
<1> DEFINE Good(k) ==
             /\ kept[k] \in Seq(S)
             /\ Range(kept[k]) = {s[i] : i \in 1 .. k} \ {h}
<1>5. \A k \in 0 .. n : Good(k)
  <2> DEFINE T == {k \in 0 .. n : ~Good(k)}
  <2> SUFFICES ASSUME T # {}
               PROVE  FALSE
    <3> HIDE DEF Good
    <3> QED
      OBVIOUS
  <2>1. PICK k \in T : \A j \in T : k <= j
    <3>1. T \subseteq Nat
      OBVIOUS
    <3> HIDE DEF T
    <3> QED
      BY <3>1, LeastNumber
  <2>2. k \in 0 .. n /\ ~Good(k) /\ \A j \in 0 .. n : j < k => Good(j)
    <3> HIDE DEF Good
    <3> QED
      BY <2>1
  <2>3. CASE k = 0
    <3>1. kept[k] = <<>> /\ {s[i] : i \in 1 .. k} = {}
      BY <1>4, <2>2, <2>3
    <3>2. <<>> \in Seq(S) /\ DOMAIN <<>> = {}
      OBVIOUS
    <3>3. Range(<<>>) = {}
      BY <3>2 DEF Range
    <3> QED
      BY <2>2, <3>1, <3>2, <3>3
  <2>4. CASE k # 0
    <3>1. /\ k \in 1 .. n /\ k - 1 \in 0 .. n /\ k - 1 < k
          /\ 1 .. k = 1 .. (k - 1) \cup {k} /\ k \notin 1 .. (k - 1)
          /\ 1 .. (k - 1) \subseteq 1 .. n
      BY <2>2, <2>4
    <3>2. Good(k - 1)
      <4> HIDE DEF Good
      <4> QED
        BY <2>2, <3>1
    <3>3. {s[i] : i \in 1 .. k} = {s[i] : i \in 1 .. (k - 1)} \cup {s[k]}
      BY <3>1
    <3>4. CASE s[k] = h
      <4>1. kept[k] = kept[k - 1]
        BY <1>4, <3>1, <3>4
      <4> QED
        BY <2>2, <3>2, <3>3, <3>4, <4>1
    <3>5. CASE s[k] # h
      <4>1. kept[k] = Append(kept[k - 1], s[k]) /\ s[k] \in S
        BY <1>1, <1>4, <3>1, <3>5
      <4>2. /\ Append(kept[k - 1], s[k]) \in Seq(S)
            /\ Range(Append(kept[k - 1], s[k])) = Range(kept[k - 1]) \cup {s[k]}
        BY <3>2, <4>1, AppendRange, AppendProperties
      <4> QED
        BY <2>2, <3>2, <3>3, <3>5, <4>1, <4>2
    <3> QED
      BY <3>4, <3>5
  <2> QED
    BY <2>3, <2>4
<1>6. Good(n)
  <2> HIDE DEF Good
  <2> QED
    BY <1>5
<1>7. Range(s) = {s[i] : i \in 1 .. n}
  BY <1>1 DEF Range
<1> QED
  BY <1>3, <1>6, <1>7

-----------------------------------------------------------------------------
(***************************************************************************)
(* Calls that are put off.                                                 *)
(***************************************************************************)
Has(q, op, h) == [op |-> op, hook |-> h] \in Range(q)

(* What is first in a queue, and what comes after it.                         *)
LEMMA HeadRange ==
  ASSUME NEW S, NEW q \in Seq(S), q # <<>>
  PROVE  /\ Head(q) \in S /\ Tail(q) \in Seq(S)
         /\ Range(q) = {Head(q)} \cup Range(Tail(q))
<1>1. /\ Head(q) \in S /\ Tail(q) \in Seq(S) /\ Len(q) \in Nat \ {0} /\ Len(Tail(q)) = Len(q) - 1
      /\ \A k \in 1 .. Len(q) - 1 : Tail(q)[k] = q[k + 1]
      /\ Head(q) = q[1]
  <2>1. Len(q) \in Nat \ {0}
    BY EmptySeq
  <2>2. Head(q) \in S /\ Tail(q) \in Seq(S) /\ Len(Tail(q)) = Len(q) - 1
    BY HeadTailProperties
  <2>3. Head(q) = q[1] /\ \A k \in 1 .. Len(q) - 1 : Tail(q)[k] = q[k + 1]
    BY <2>1
  <2> QED
    BY <2>1, <2>2, <2>3
<1>2. Range(q) = {q[k] : k \in 1 .. Len(q)} /\ Range(Tail(q)) = {Tail(q)[k] : k \in 1 .. Len(q) - 1}
  <2>1. DOMAIN q = 1 .. Len(q) /\ DOMAIN Tail(q) = 1 .. Len(q) - 1
    BY <1>1
  <2> QED
    BY <2>1 DEF Range
<1>3. \A k \in 1 .. Len(q) : k = 1 \/ (k - 1 \in 1 .. Len(q) - 1 /\ k = (k - 1) + 1)
  BY <1>1
<1>4. \A k \in 1 .. Len(q) - 1 : k + 1 \in 1 .. Len(q)
  BY <1>1
<1>5. 1 \in 1 .. Len(q)
  BY <1>1
<1>6. \A k \in 1 .. Len(q) : q[k] \in {Head(q)} \cup Range(Tail(q))
  <2> TAKE k \in 1 .. Len(q)
  <2>1. CASE k = 1
    BY <1>1, <2>1
  <2>2. CASE k - 1 \in 1 .. Len(q) - 1 /\ k = (k - 1) + 1
    BY <1>1, <1>2, <2>2
  <2> QED
    BY <1>3, <2>1, <2>2
<1>7. Head(q) \in Range(q) /\ \A k \in 1 .. Len(q) - 1 : Tail(q)[k] \in Range(q)
  BY <1>1, <1>2, <1>4, <1>5
<1> QED
  BY <1>1, <1>2, <1>6, <1>7

(* One queue behind another.                                                  *)
LEMMA ConcatRange ==
  ASSUME NEW S, NEW q \in Seq(S), NEW r \in Seq(S)
  PROVE  Range(q \o r) = Range(q) \cup Range(r)
<1>1. /\ q \o r \in Seq(S) /\ Len(q) \in Nat /\ Len(r) \in Nat /\ Len(q \o r) = Len(q) + Len(r)
      /\ \A k \in 1 .. Len(q) + Len(r) :
           (q \o r)[k] = IF k <= Len(q) THEN q[k] ELSE r[k - Len(q)]
  BY ConcatProperties
<1>2. /\ Range(q \o r) = {(q \o r)[k] : k \in 1 .. Len(q) + Len(r)}
      /\ Range(q) = {q[k] : k \in 1 .. Len(q)}
      /\ Range(r) = {r[k] : k \in 1 .. Len(r)}
  BY <1>1 DEF Range
<1>3. \A k \in 1 .. Len(q) + Len(r) : (q \o r)[k] \in Range(q) \cup Range(r)
  BY <1>1, <1>2
<1>4. \A k \in 1 .. Len(q) : q[k] \in Range(q \o r)
  BY <1>1, <1>2
<1>5. \A k \in 1 .. Len(r) : r[k] \in Range(q \o r)
  <2> TAKE k \in 1 .. Len(r)
  <2>1. Len(q) + k \in 1 .. Len(q) + Len(r) /\ (q \o r)[Len(q) + k] = r[k]
    BY <1>1
  <2> QED
    BY <1>2, <2>1
<1> QED
  BY <1>2, <1>3, <1>4, <1>5

-----------------------------------------------------------------------------
(***************************************************************************)
(* What a call does to the hooks that are in force.                        *)
(***************************************************************************)
(* One level of one vector is replaced.                                       *)
LEMMA StoredLevel ==
  ASSUME plugins \in [Events -> Vector], NEW h \in Hook, NEW x \in Hook, NEW order, NEW level,
         plugins' = Store(h, order, level)
  PROVE  Level(x)' = IF x.event = h.event /\ x.plugin = h.plugin /\ x.priority = h.priority
                     THEN level ELSE Level(x)
<1> DEFINE old == plugins[h.event].hooks
           new == [old EXCEPT ![h.plugin][h.priority] = level]
<1>1. /\ h.event \in Events /\ h.plugin \in Plugins /\ h.priority \in Priorities
      /\ x.event \in Events /\ x.plugin \in Plugins /\ x.priority \in Priorities
  BY DEF Hook
<1>2. old \in [Plugins -> [Priorities -> Seq(Handlers)]]
  BY <1>1 DEF Vector
<1>3. new[x.plugin][x.priority] = IF x.plugin = h.plugin /\ x.priority = h.priority
                                  THEN level ELSE old[x.plugin][x.priority]
  BY <1>1, <1>2
<1>4. plugins'[x.event] = IF x.event = h.event THEN [order |-> order, hooks |-> new]
                          ELSE plugins[x.event]
  BY <1>1 DEF Store
<1>5. Level(x)' = plugins'[x.event].hooks[x.plugin][x.priority]
  BY DEF Level
<1> HIDE DEF new
<1>6. CASE x.event = h.event
  BY <1>3, <1>4, <1>5, <1>6 DEF Level
<1>7. CASE x.event # h.event
  BY <1>4, <1>5, <1>7 DEF Level
<1> QED
  BY <1>6, <1>7

(* Hooks that differ have places of their own.                                *)
LEMMA HooksDiffer ==
  ASSUME NEW h \in Hook, NEW x \in Hook,
         x.event = h.event, x.plugin = h.plugin, x.priority = h.priority, x.handler = h.handler
  PROVE  x = h
  BY DEF Hook

(* A call to hook adds at most its own hook, and only when it is not put off. *)
LEMMA AddHooks ==
  ASSUME IInv, NEW h \in Hook, add_hook(h)
  PROVE  \A x \in Hook :
           IsHooked(x)' => IsHooked(x) \/ (x = h /\ ~Locked(h.event) /\ ~AddRaises(h))
<1>1. plugins \in [Events -> Vector]
  BY DEF IInv, TypeOK
<1>2. CASE UNCHANGED plugins
  BY <1>2 DEF IsHooked, Level
<1>3. CASE ~Locked(h.event) /\ ~AddRaises(h) /\ plugins' = Insert(h)
  <2> TAKE x \in Hook
  <2>1. Level(h) \in Seq(Handlers) /\ h.handler \in Handlers
    BY <1>1 DEF Level, Hook, Vector
  <2>2. Range(Append(Level(h), h.handler)) = Range(Level(h)) \cup {h.handler}
    BY <2>1, AppendRange
  <2>3. PICK order : Insert(h) = Store(h, order, Append(Level(h), h.handler))
    BY DEF Insert
  <2>4. Level(x)' = IF x.event = h.event /\ x.plugin = h.plugin /\ x.priority = h.priority
                    THEN Append(Level(h), h.handler) ELSE Level(x)
    BY <1>1, <1>3, <2>3, StoredLevel
  <2>5. CASE x.event = h.event /\ x.plugin = h.plugin /\ x.priority = h.priority
    <3>1. Level(x) = Level(h)
      BY <2>5 DEF Level
    <3>2. IsHooked(x)' => x.handler \in Range(Level(h)) \cup {h.handler}
      BY <2>2, <2>4, <2>5 DEF IsHooked
    <3> QED
      BY <1>3, <2>5, <3>1, <3>2, HooksDiffer DEF IsHooked
  <2>6. CASE ~(x.event = h.event /\ x.plugin = h.plugin /\ x.priority = h.priority)
    BY <2>4, <2>6 DEF IsHooked
  <2> QED
    BY <2>5, <2>6
<1> QED
  BY <1>2, <1>3 DEF add_hook

(* A call to unhook that is not put off takes its hook out, wherever the      *)
(* handler is in its level, and adds none.                                    *)
LEMMA RemoveUnhooks ==
  ASSUME IInv, NEW h \in Hook, remove_hook(h)
  PROVE  /\ \A x \in Hook : IsHooked(x)' => IsHooked(x)
         /\ ~Locked(h.event) => ~IsHooked(h)'
<1>1. plugins \in [Events -> Vector] /\ RegistryWellFormed
  BY DEF IInv, TypeOK
<1>2. CASE UNCHANGED plugins /\ (Locked(h.event) \/ RemoveRaises(h))
  BY <1>2 DEF IsHooked, Level, RemoveRaises
<1>3. CASE IsHooked(h) /\ plugins' = Delete(h)
  <2> DEFINE k == CHOOSE i \in DOMAIN Level(h) : Level(h)[i] = h.handler
  <2>1. Level(h) \in Seq(Handlers) /\ IsInjective(Level(h))
    BY <1>1 DEF Level, Hook, Vector, RegistryWellFormed, WellFormed
  <2>2. k \in DOMAIN Level(h) /\ Level(h)[k] = h.handler
    BY <1>3 DEF IsHooked, Range
  <2>3. plugins' = Store(h, plugins[h.event].order, RemoveAt(Level(h), k))
    BY <1>3 DEF Delete
  <2> HIDE DEF k
  <2>4. Range(RemoveAt(Level(h), k)) = Range(Level(h)) \ {h.handler}
    BY <2>1, <2>2, RemoveAtRange
  <2>5. ASSUME NEW x \in Hook
        PROVE  Level(x)' = IF x.event = h.event /\ x.plugin = h.plugin /\ x.priority = h.priority
                           THEN RemoveAt(Level(h), k) ELSE Level(x)
    BY <1>1, <2>3, StoredLevel
  <2>6. ~IsHooked(h)'
    BY <2>4, <2>5 DEF IsHooked
  <2>7. ASSUME NEW x \in Hook, IsHooked(x)'
        PROVE  IsHooked(x)
    <3>1. CASE x.event = h.event /\ x.plugin = h.plugin /\ x.priority = h.priority
      <4>1. Level(x) = Level(h) /\ x.handler \in Range(RemoveAt(Level(h), k))
        BY <2>5, <2>7, <3>1 DEF Level, IsHooked
      <4> QED
        BY <2>4, <4>1 DEF IsHooked
    <3>2. CASE ~(x.event = h.event /\ x.plugin = h.plugin /\ x.priority = h.priority)
      BY <2>5, <2>7, <3>2 DEF IsHooked
    <3> QED
      BY <3>1, <3>2
  <2> QED
    BY <2>6, <2>7
<1> QED
  BY <1>2, <1>3 DEF remove_hook, RemoveRaises

-----------------------------------------------------------------------------
(***************************************************************************)
(* Jobs: loads and unloads under way, one inside the other.                *)
(***************************************************************************)
(* What a job of each stage knows.                                            *)
LEMMA JobParts ==
  ASSUME NEW j \in Jobs
  PROVE  /\ j.stage \in {"unloading", "purging", "constructing"}
         /\ j.plugin \in Plugins /\ j.depth \in Nat
         /\ j.stage \in {"unloading", "purging"} => j.reload \in BOOLEAN
         /\ j.stage \in {"purging", "constructing"} => j.gen \in Gens
         /\ j.stage = "purging" => j.todo \in Seq(Hook)
BY DEF Jobs

(* A job of each stage.                                                       *)
LEMMA JobsMade ==
  ASSUME NEW n \in Plugins, NEW reload \in BOOLEAN, NEW depth \in Nat, NEW g \in Gens,
         NEW todo \in Seq(Hook)
  PROVE  /\ [stage |-> "unloading", plugin |-> n, reload |-> reload, depth |-> depth] \in Jobs
         /\ [stage |-> "purging", plugin |-> n, reload |-> reload, depth |-> depth,
             gen |-> g, todo |-> todo] \in Jobs
         /\ [stage |-> "constructing", plugin |-> n, depth |-> depth, gen |-> g] \in Jobs
BY DEF Jobs

(* A purge that goes on to its next hook.                                     *)
LEMMA PurgeGoesOn ==
  ASSUME NEW j \in Jobs, j.stage = "purging", NEW todo \in Seq(Hook)
  PROVE  /\ [j EXCEPT !.todo = todo] \in Jobs
         /\ [j EXCEPT !.todo = todo].stage = "purging"
         /\ [j EXCEPT !.todo = todo].plugin = j.plugin
         /\ [j EXCEPT !.todo = todo].depth = j.depth
         /\ [j EXCEPT !.todo = todo].gen = j.gen
         /\ [j EXCEPT !.todo = todo].todo = todo
<1>1. j \in [stage: {"purging"}, plugin: Plugins, reload: BOOLEAN, depth: Nat,
             gen: Gens, todo: Seq(Hook)]
  BY DEF Jobs
<1> QED
  BY <1>1 DEF Jobs

(* The first elements of a sequence.                                          *)
LEMMA FrontParts ==
  ASSUME NEW S, NEW s \in Seq(S), NEW k \in 0 .. Len(s)
  PROVE  /\ Len(SubSeq(s, 1, k)) = k
         /\ \A i \in 1 .. k : SubSeq(s, 1, k)[i] = s[i]
<1>1. Len(s) \in Nat
  OBVIOUS
<1> QED
  BY <1>1

\* A thread enters a job, inside those it has.
Begun(t, j) ==
  /\ jobs' \in [Threads -> Seq(Jobs)]
  /\ \A u \in Threads : u # t => jobs'[u] = jobs[u]
  /\ Len(jobs'[t]) = Len(jobs[t]) + 1
  /\ \A k \in 1 .. Len(jobs[t]) : jobs'[t][k] = jobs[t][k]
  /\ jobs'[t][Len(jobs[t]) + 1] = j
  /\ Range(jobs'[t]) = Range(jobs[t]) \cup {j}

\* The innermost job of a thread goes on as one of some jobs, or is over.
GoesOn(t, new) ==
  /\ jobs' \in [Threads -> Seq(Jobs)]
  /\ \A u \in Threads : u # t => jobs'[u] = jobs[u]
  /\ \A k \in DOMAIN jobs'[t] : k \in DOMAIN jobs[t] /\ jobs'[t][k].depth = jobs[t][k].depth
  /\ Range(jobs'[t]) \subseteq Range(jobs[t]) \cup new
  /\ Range(jobs[t]) \subseteq Range(jobs'[t]) \cup {Job(t)}

(* What the three moves of a stack of jobs do.                                *)
LEMMA JobMoves ==
  ASSUME jobs \in [Threads -> Seq(Jobs)], NEW t \in Threads
  PROVE  /\ \A j \in Jobs : EnterJob(t, j) => Begun(t, j)
         /\ jobs[t] # <<>> =>
              /\ Job(t) \in Jobs /\ Job(t) \in Range(jobs[t])
              /\ \A j \in Jobs : SetJob(t, j) /\ j.depth = Job(t).depth => GoesOn(t, {j})
              /\ LeaveJob(t) => GoesOn(t, {})
<1> DEFINE s == jobs[t]
           n == Len(s)
<1>1. s \in Seq(Jobs) /\ n \in Nat /\ DOMAIN s = 1 .. n /\ Range(s) = {s[k] : k \in 1 .. n}
  <2>1. s \in Seq(Jobs)
    OBVIOUS
  <2> HIDE DEF s
  <2> QED
    BY <2>1 DEF Range
<1>2. ASSUME NEW r, jobs' = [jobs EXCEPT ![t] = r]
      PROVE  jobs'[t] = r /\ \A u \in Threads : u # t => jobs'[u] = jobs[u]
  BY <1>2
<1>3. ASSUME NEW r \in Seq(Jobs), jobs' = [jobs EXCEPT ![t] = r]
      PROVE  jobs' \in [Threads -> Seq(Jobs)]
  BY <1>3
<1>4. ASSUME NEW j \in Jobs, EnterJob(t, j)
      PROVE  Begun(t, j)
  <2> DEFINE r == Append(s, j)
  <2>1. jobs' = [jobs EXCEPT ![t] = r]
    BY <1>4 DEF EnterJob
  <2>2. /\ r \in Seq(Jobs) /\ Len(r) = n + 1 /\ r[n + 1] = j
        /\ \A k \in 1 .. n : r[k] = s[k]
    <3> HIDE DEF s
    <3> QED
      BY <1>1, AppendProperties
  <2>3. Range(r) = Range(s) \cup {j}
    <3> HIDE DEF s
    <3> QED
      BY <1>1, AppendRange
  <2> HIDE DEF r
  <2> QED
    BY <1>2, <1>3, <2>1, <2>2, <2>3 DEF Begun
<1>5. ASSUME s # <<>>
      PROVE  /\ Job(t) \in Jobs /\ Job(t) \in Range(s)
             /\ \A j \in Jobs : SetJob(t, j) /\ j.depth = Job(t).depth => GoesOn(t, {j})
             /\ LeaveJob(t) => GoesOn(t, {})
  <2>1. n \in 1 .. n /\ n - 1 \in 0 .. n /\ \A k \in 1 .. n : k = n \/ k \in 1 .. n - 1
    <3> HIDE DEF s
    <3>1. n # 0
      BY <1>1, <1>5, EmptySeq
    <3> QED
      BY <1>1, <3>1
  <2>2. Job(t) = s[n] /\ Job(t) \in Jobs /\ Job(t) \in Range(s)
    <3>1. Job(t) = s[n]
      BY DEF Job
    <3> HIDE DEF s
    <3>2. s[n] \in Jobs /\ s[n] \in Range(s)
      <4> HIDE DEF n
      <4> QED
        BY <1>1, <2>1
    <3> QED
      BY <3>1, <3>2
  <2>3. ASSUME NEW j \in Jobs, SetJob(t, j), j.depth = Job(t).depth
        PROVE  GoesOn(t, {j})
    <3> DEFINE r == [s EXCEPT ![n] = j]
    <3>1. jobs' = [jobs EXCEPT ![t] = r]
      BY <2>3 DEF SetJob
    <3>2. /\ r \in Seq(Jobs) /\ DOMAIN r = 1 .. n
          /\ \A k \in 1 .. n : r[k] = IF k = n THEN j ELSE s[k]
      <4> HIDE DEF s
      <4> QED
        BY <1>1, <2>1, ExceptSeq
    <3> HIDE DEF r
    <3>3. Range(r) = {r[k] : k \in 1 .. n}
      BY <3>2 DEF Range
    <3>4. Range(r) \subseteq Range(s) \cup {j} /\ Range(s) \subseteq Range(r) \cup {Job(t)}
      <4> HIDE DEF s
      <4> QED
        BY <1>1, <2>1, <2>2, <3>2, <3>3
    <3>5. \A k \in DOMAIN r : k \in DOMAIN s /\ r[k].depth = s[k].depth
      <4> HIDE DEF s
      <4> QED
        BY <1>1, <2>2, <2>3, <3>2
    <3> QED
      BY <1>2, <1>3, <3>1, <3>2, <3>4, <3>5 DEF GoesOn
  <2>4. ASSUME LeaveJob(t)
        PROVE  GoesOn(t, {})
    <3> DEFINE r == SubSeq(s, 1, n - 1)
    <3>1. jobs' = [jobs EXCEPT ![t] = r]
      BY <2>4 DEF LeaveJob
    <3>2. r \in Seq(Jobs) /\ DOMAIN r = 1 .. n - 1 /\ \A k \in 1 .. n - 1 : r[k] = s[k]
      <4> HIDE DEF s
      <4>1. Len(r) = n - 1 /\ \A k \in 1 .. n - 1 : r[k] = s[k]
        BY <1>1, <2>1, FrontParts
      <4>2. r \in Seq(Jobs)
        <5> HIDE DEF n
        <5> QED
          BY <1>1, <2>1, SubSeqProperties
      <4> QED
        BY <4>1, <4>2
    <3> HIDE DEF r
    <3>3. Range(r) = {r[k] : k \in 1 .. n - 1}
      BY <3>2 DEF Range
    <3>4. \A k \in 1 .. n - 1 : k \in 1 .. n
      BY <1>1
    <3>5. Range(r) \subseteq Range(s) /\ Range(s) \subseteq Range(r) \cup {Job(t)}
      <4> HIDE DEF s
      <4> QED
        BY <1>1, <2>1, <2>2, <3>2, <3>3, <3>4
    <3>6. \A k \in DOMAIN r : k \in DOMAIN s /\ r[k].depth = s[k].depth
      <4> HIDE DEF s
      <4> QED
        BY <1>1, <3>2, <3>4
    <3> QED
      BY <1>2, <1>3, <3>1, <3>2, <3>5, <3>6 DEF GoesOn
  <2> QED
    BY <2>2, <2>3, <2>4
<1> QED
  BY <1>4, <1>5

\* What instances list, and unloads go through, are hooks that plugin code asks for.
HooksSound ==
  /\ \A n \in Plugins, g \in Gens : Range(hooks[n][g]) \subseteq Hookable
  /\ \A t \in Threads : \A j \in Range(jobs[t]) :
       j.stage = "purging" => Range(j.todo) \subseteq Hookable

\* The dispatch a job was begun in, if any, is waiting for its handler, and a job was
\* begun above those it is inside of.
JobSound(t) ==
  /\ \A k \in DOMAIN jobs[t] :
       /\ jobs[t][k].depth <= Len(stack[t])
       /\ IF jobs[t][k].depth = 0 THEN t # Main \/ phase # "frame"
                                  ELSE stack[t][jobs[t][k].depth].running
  /\ \A i, k \in DOMAIN jobs[t] : i <= k => jobs[t][i].depth <= jobs[t][k].depth

LifecycleSound ==
  /\ IInv
  /\ LifecycleTypeOK
  /\ HooksSound
  /\ \A t \in Threads : JobSound(t)

(* A generation that is listed, and one more construction.                    *)
LEMMA GenParts ==
  ASSUME LifecycleTypeOK, NEW n \in Plugins
  PROVE  /\ loaded[n] # 0 => loaded[n] \in Gens
         /\ built[n] < MaxGen => built[n] + 1 \in Gens
         /\ Gens \subseteq 0 .. MaxGen
BY LifecycleAssumption DEF LifecycleTypeOK, Gens

(* What a purge or a load pushes out.                                         *)
LEMMA DisplacedParts ==
  ASSUME LifecycleTypeOK, NEW n \in Plugins, NEW g
  PROVE  Displaced(n, g) \subseteq Hook
<1>1. CASE loaded[n] \in {0, g}
  BY <1>1 DEF Displaced
<1>2. CASE loaded[n] \notin {0, g}
  <2>1. hooks[n][loaded[n]] \in Seq(Hook)
    BY <1>2, GenParts DEF LifecycleTypeOK
  <2>2. Range(hooks[n][loaded[n]]) \subseteq Hook
    BY <2>1 DEF Range
  <2> QED
    BY <1>2, <2>2 DEF Displaced
<1> QED
  BY <1>1, <1>2

(* The end of an unload changes no list.                                      *)
LEMMA EndUnloadKeeps ==
  ASSUME LifecycleTypeOK, NEW t \in Threads, jobs[t] # <<>>,
         Job(t).stage \in {"unloading", "purging"}, EndUnload(t)
  PROVE  /\ built' \in [Plugins -> 0 .. MaxGen]
         /\ \E new \in SUBSET Jobs :
              GoesOn(t, new) /\ \A j \in new : j.stage = "constructing"
<1> DEFINE n == Job(t).plugin
           j == Construction(n, Job(t).depth)
<1>1. Job(t) \in Jobs /\ jobs \in [Threads -> Seq(Jobs)] /\ built \in [Plugins -> 0 .. MaxGen]
  BY JobMoves DEF LifecycleTypeOK
<1>2. n \in Plugins /\ Job(t).depth \in Nat
  BY <1>1, JobParts
<1>3. CASE Construct(n) /\ SetJob(t, j)
  <2>1. built[n] < MaxGen /\ built' = [built EXCEPT ![n] = @ + 1]
    BY <1>3 DEF Construct
  <2>2. built[n] + 1 \in Gens /\ Gens \subseteq 0 .. MaxGen
    BY <1>2, <2>1, GenParts
  <2>3. j \in Jobs /\ j.stage = "constructing" /\ j.depth = Job(t).depth
    BY <1>2, <2>2 DEF Jobs, Construction
  <2>4. SetJob(t, j)
    BY <1>3
  <2> HIDE DEF j
  <2>5. GoesOn(t, {j})
    BY <1>1, <2>3, <2>4, JobMoves
  <2>6. built' \in [Plugins -> 0 .. MaxGen]
    BY <1>1, <2>1, <2>2
  <2> QED
    BY <2>3, <2>5, <2>6
<1>4. CASE LeaveJob(t) /\ UNCHANGED built
  <2>1. GoesOn(t, {})
    BY <1>1, <1>4, JobMoves
  <2> QED
    BY <1>1, <1>4, <2>1
<1> QED
  BY <1>3, <1>4 DEF EndUnload

(* What is not hooked is not a stray.                                         *)
LEMMA StraysType ==
  ASSUME LifecycleTypeOK, NEW more \in SUBSET Hook, UpdateStrays(more)
  PROVE  strays' \subseteq Hook
BY DEF LifecycleTypeOK, UpdateStrays

(* A list of hooks is replaced by another.                                    *)
LEMMA ListReplaced ==
  ASSUME LifecycleTypeOK, HooksSound, NEW n \in Plugins, NEW g \in Gens,
         NEW list \in Seq(Hook), Range(list) \subseteq Hookable,
         hooks' = [hooks EXCEPT ![n][g] = list]
  PROVE  /\ hooks' \in [Plugins -> [Gens -> Seq(Hook)]]
         /\ \A m \in Plugins, k \in Gens : Range(hooks'[m][k]) \subseteq Hookable
         /\ \A m \in Plugins, k \in Gens :
              hooks'[m][k] = IF m = n /\ k = g THEN list ELSE hooks[m][k]
<1>1. hooks \in [Plugins -> [Gens -> Seq(Hook)]]
  BY DEF LifecycleTypeOK
<1>2. \A m \in Plugins, k \in Gens :
        hooks'[m][k] = IF m = n /\ k = g THEN list ELSE hooks[m][k]
  BY <1>1
<1>3. hooks' \in [Plugins -> [Gens -> Seq(Hook)]]
  BY <1>1
<1> QED
  BY <1>2, <1>3 DEF HooksSound

(* Where the list of a hook is.                                               *)
LEMMA HookParts ==
  ASSUME NEW h \in Hook
  PROVE  h.event \in Events /\ h.plugin \in Plugins /\ Gen(h) \in Gens
BY LifecycleAssumption DEF Hook, Gen

(* A step that changes no job and no list but that of one hook.               *)
LEMMA ListStepKeeps ==
  ASSUME LifecycleTypeOK, HooksSound, NEW h \in Hookable,
         NEW list \in Seq(Hook), Range(list) \subseteq Hookable,
         hooks' = [hooks EXCEPT ![h.plugin][Gen(h)] = list] \/ UNCHANGED hooks,
         UpdateStrays({h}) \/ UpdateStrays({}),
         UNCHANGED <<built, loaded, jobs>>
  PROVE  LifecycleTypeOK' /\ HooksSound'
<1>1. h \in Hook /\ h.plugin \in Plugins /\ Gen(h) \in Gens
  BY ConstantsAssumption, HookParts
<1>2. strays' \subseteq Hook
  BY <1>1, StraysType
<1>3. CASE UNCHANGED hooks
  BY <1>2, <1>3 DEF LifecycleTypeOK, HooksSound
<1>4. CASE hooks' = [hooks EXCEPT ![h.plugin][Gen(h)] = list]
  <2>1. /\ hooks' \in [Plugins -> [Gens -> Seq(Hook)]]
        /\ \A m \in Plugins, k \in Gens : Range(hooks'[m][k]) \subseteq Hookable
    BY <1>1, <1>4, ListReplaced
  <2> QED
    BY <1>2, <2>1 DEF LifecycleTypeOK, HooksSound
<1> QED
  BY <1>3, <1>4

(* The hook list of a plugin's instance after a call of it.                   *)
LEMMA ListsOfCalls ==
  ASSUME LifecycleTypeOK, HooksSound, NEW h \in Hookable
  PROVE  /\ h \in Hook /\ h.plugin \in Plugins /\ Gen(h) \in Gens
         /\ LET list == hooks[h.plugin][Gen(h)]
            IN /\ list \in Seq(Hook)
               /\ Append(list, h) \in Seq(Hook) /\ Range(Append(list, h)) = Range(list) \cup {h}
               /\ Retained(list, h) \in Seq(Hook) /\ Range(Retained(list, h)) = Range(list) \ {h}
               /\ Range(list) \subseteq Hookable
<1>1. h \in Hook /\ h.plugin \in Plugins /\ Gen(h) \in Gens
  BY ConstantsAssumption, HookParts
<1>2. hooks[h.plugin][Gen(h)] \in Seq(Hook)
  BY <1>1 DEF LifecycleTypeOK
<1>3. Range(hooks[h.plugin][Gen(h)]) \subseteq Hookable
  BY <1>1 DEF HooksSound
<1> QED
  BY <1>1, <1>2, <1>3, AppendRange, AppendProperties, RetainedParts

(* A step that changes only the jobs of one thread, constructions, what is    *)
(* loaded, and strays.                                                        *)
LEMMA JobStepKeeps ==
  ASSUME LifecycleTypeOK, HooksSound, NEW t \in Threads, NEW new,
         jobs' \in [Threads -> Seq(Jobs)],
         \A u \in Threads : u # t => jobs'[u] = jobs[u],
         Range(jobs'[t]) \subseteq Range(jobs[t]) \cup new,
         \A j \in new : j.stage = "purging" => Range(j.todo) \subseteq Hookable,
         built' \in [Plugins -> 0 .. MaxGen], loaded' \in [Plugins -> 0 .. MaxGen],
         strays' \subseteq Hook, UNCHANGED hooks
  PROVE  LifecycleTypeOK' /\ HooksSound'
<1>1. ASSUME NEW u \in Threads, NEW j \in Range(jobs'[u]), j.stage = "purging"
      PROVE  Range(j.todo) \subseteq Hookable
  <2>1. CASE u = t
    BY <1>1, <2>1 DEF HooksSound
  <2>2. CASE u # t
    BY <1>1, <2>2 DEF HooksSound
  <2> QED
    BY <2>1, <2>2
<1> QED
  BY <1>1 DEF LifecycleTypeOK, HooksSound

-----------------------------------------------------------------------------
(***************************************************************************)
(* What each step does to the jobs.                                        *)
(***************************************************************************)
(* A load or unload begins in plugin code, which will go on when it is done.  *)
LEMMA JobBegins ==
  ASSUME IInv, LifecycleTypeOK, NEW t \in Threads, NEW n \in Plugins,
         LoadOrReload(t, n) \/ Unload(t, n)
  PROVE  /\ RunsPluginCode(t)
         /\ \E j \in Jobs :
              Begun(t, j) /\ j.stage \in {"unloading", "constructing"} /\ j.depth = Len(stack[t])
         /\ built' \in [Plugins -> 0 .. MaxGen] /\ UNCHANGED <<loaded, hooks, strays>>
         /\ StartDispatch(t, UnloadEvent) \/ UNCHANGED vars
<1> DEFINE d == Len(stack[t])
<1>1. d \in Nat
  <2>1. stack[t] \in Seq(Frame)
    BY DEF IInv, TypeOK
  <2> QED
    BY <2>1
<1>2. jobs \in [Threads -> Seq(Jobs)] /\ built \in [Plugins -> 0 .. MaxGen]
  BY DEF LifecycleTypeOK
<1>3. RunsPluginCode(t) /\ UNCHANGED <<hooks, strays>>
  BY DEF LoadOrReload, Unload, MayBegin, RunsConstructorOrHandler
<1>4. (\E r \in BOOLEAN : BeginUnload(t, n, r)) \/ BeginConstruct(t, n)
  BY DEF LoadOrReload, Unload
<1>5. CASE \E r \in BOOLEAN : BeginUnload(t, n, r)
  <2>1. PICK r \in BOOLEAN : BeginUnload(t, n, r)
    BY <1>5
  <2> DEFINE j == [stage |-> "unloading", plugin |-> n, reload |-> r, depth |-> d]
  <2>2. j \in Jobs /\ j.stage = "unloading" /\ j.depth = d
    BY <1>1 DEF Jobs
  <2>3. EnterJob(t, j) /\ UNCHANGED <<built, loaded>> /\ StartDispatch(t, UnloadEvent)
    BY <2>1 DEF BeginUnload
  <2> HIDE DEF j
  <2>4. Begun(t, j)
    BY <1>2, <2>2, <2>3, JobMoves
  <2> QED
    BY <1>2, <1>3, <2>2, <2>3, <2>4
<1>6. CASE BeginConstruct(t, n)
  <2> DEFINE j == Construction(n, d)
  <2>1. /\ built[n] < MaxGen /\ built' = [built EXCEPT ![n] = @ + 1] /\ EnterJob(t, j)
        /\ UNCHANGED <<vars, loaded>>
    BY <1>6 DEF BeginConstruct, Construct
  <2>2. built[n] + 1 \in Gens /\ Gens \subseteq 0 .. MaxGen
    BY <2>1, GenParts
  <2>3. j \in Jobs /\ j.stage = "constructing" /\ j.depth = d
    BY <1>1, <2>2 DEF Jobs, Construction
  <2> HIDE DEF j
  <2>4. Begun(t, j)
    BY <1>2, <2>1, <2>3, JobMoves
  <2>5. built' \in [Plugins -> 0 .. MaxGen]
    BY <1>2, <2>1, <2>2
  <2> QED
    BY <1>3, <2>1, <2>3, <2>4, <2>5
<1> QED
  BY <1>4, <1>5, <1>6

(* A purge begins with the list of the instance that is loaded.               *)
LEMMA PurgeBegins ==
  ASSUME LifecycleTypeOK, HooksSound, NEW t \in Threads, BeginPurge(t)
  PROVE  /\ Job(t).stage = "unloading"
         /\ \E new \in SUBSET Jobs :
              /\ GoesOn(t, new)
              /\ \A j \in new : j.stage = "purging" =>
                   j.plugin \in Plugins /\ j.gen \in Gens /\ j.todo = hooks[j.plugin][j.gen]
         /\ built' \in [Plugins -> 0 .. MaxGen] /\ UNCHANGED <<vars, loaded, hooks, strays>>
<1> DEFINE n == Job(t).plugin
           j == [stage |-> "purging", plugin |-> n, reload |-> Job(t).reload,
                 depth |-> Job(t).depth, gen |-> loaded[n], todo |-> hooks[n][loaded[n]]]
<1>1. jobs \in [Threads -> Seq(Jobs)] /\ built \in [Plugins -> 0 .. MaxGen]
  BY DEF LifecycleTypeOK
<1>2. jobs[t] # <<>> /\ Job(t).stage = "unloading" /\ UNCHANGED <<vars, loaded, hooks, strays>>
  BY DEF BeginPurge, AtJob, Busy
<1>3. n \in Plugins /\ Job(t).depth \in Nat /\ Job(t).reload \in BOOLEAN
  BY <1>1, <1>2, JobMoves, JobParts
<1>4. CASE loaded[n] # 0 /\ Purge(t, n, loaded[n], hooks[n][loaded[n]]) /\ UNCHANGED built
  <2>1. loaded[n] \in Gens
    BY <1>3, <1>4, GenParts
  <2>2. hooks[n][loaded[n]] \in Seq(Hook)
    BY <1>3, <2>1 DEF LifecycleTypeOK
  <2>3. /\ j \in Jobs /\ j.plugin = n /\ j.depth = Job(t).depth
        /\ j.gen = loaded[n] /\ j.todo = hooks[n][loaded[n]]
    BY <1>3, <2>1, <2>2, JobsMade
  <2>4. SetJob(t, j)
    BY <1>4 DEF Purge
  <2> HIDE DEF j
  <2>5. GoesOn(t, {j})
    BY <1>1, <1>2, <2>3, <2>4, JobMoves
  <2> QED
    BY <1>1, <1>2, <1>3, <1>4, <2>1, <2>3, <2>5
<1>5. CASE EndUnload(t)
  <2>1. /\ built' \in [Plugins -> 0 .. MaxGen]
        /\ \E new \in SUBSET Jobs : GoesOn(t, new) /\ \A k \in new : k.stage = "constructing"
    BY <1>2, <1>5, EndUnloadKeeps
  <2> QED
    BY <1>2, <2>1
<1> QED
  BY <1>4, <1>5 DEF BeginPurge

(* A purge takes the hooks one by one.                                        *)
LEMMA HookPurged ==
  ASSUME LifecycleTypeOK, HooksSound, NEW t \in Threads, PurgeHook(t)
  PROVE  /\ Busy(t) /\ Job(t) \in Range(jobs[t]) /\ Job(t).stage = "purging"
         /\ Head(Job(t).todo) \in Hookable /\ remove_hook(Head(Job(t).todo))
         /\ \E j \in Jobs :
              /\ GoesOn(t, {j})
              /\ j.stage = "purging" /\ j.plugin = Job(t).plugin /\ j.gen = Job(t).gen
              /\ Range(Job(t).todo) = {Head(Job(t).todo)} \cup Range(j.todo)
              /\ Range(j.todo) \subseteq Hookable
         /\ UpdateStrays({}) /\ UNCHANGED <<stack, phase, frame_tasks, built, loaded, hooks>>
<1> DEFINE j == [Job(t) EXCEPT !.todo = Tail(Job(t).todo)]
<1>1. /\ Busy(t) /\ jobs[t] # <<>> /\ Job(t).stage = "purging" /\ Job(t).todo # <<>>
      /\ remove_hook(Head(Job(t).todo)) /\ SetJob(t, j)
      /\ UpdateStrays({}) /\ UNCHANGED <<stack, phase, frame_tasks, built, loaded, hooks>>
  BY DEF PurgeHook, AtJob, Busy
<1>2. jobs \in [Threads -> Seq(Jobs)] /\ Job(t) \in Jobs /\ Job(t) \in Range(jobs[t])
  BY <1>1, JobMoves DEF LifecycleTypeOK
<1>3. Job(t).todo \in Seq(Hook)
  BY <1>1, <1>2, JobParts
<1>4. /\ Tail(Job(t).todo) \in Seq(Hook)
      /\ Range(Job(t).todo) = {Head(Job(t).todo)} \cup Range(Tail(Job(t).todo))
  BY <1>1, <1>3, HeadRange
<1>5. Range(Job(t).todo) \subseteq Hookable
  BY <1>1, <1>2 DEF HooksSound
<1>6. /\ j \in Jobs /\ j.stage = "purging" /\ j.plugin = Job(t).plugin /\ j.depth = Job(t).depth
      /\ j.gen = Job(t).gen /\ j.todo = Tail(Job(t).todo)
  BY <1>1, <1>2, <1>4, PurgeGoesOn
<1> HIDE DEF j
<1>7. GoesOn(t, {j})
  BY <1>1, <1>2, <1>6, JobMoves
<1> QED
  BY <1>1, <1>2, <1>4, <1>5, <1>6, <1>7

(* A purge ends, whoever is loaded by then.                                   *)
LEMMA PurgeEnds ==
  ASSUME LifecycleTypeOK, NEW t \in Threads, EndPurge(t)
  PROVE  /\ Job(t) \in Range(jobs[t]) /\ Job(t).stage = "purging" /\ Range(Job(t).todo) = {}
         /\ Job(t).plugin \in Plugins /\ Job(t).gen \in Gens
         /\ \E new \in SUBSET Jobs : GoesOn(t, new) /\ \A j \in new : j.stage = "constructing"
         /\ built' \in [Plugins -> 0 .. MaxGen] /\ loaded' \in [Plugins -> 0 .. MaxGen]
         /\ loaded' = [loaded EXCEPT ![Job(t).plugin] = 0]
         /\ UpdateStrays(Displaced(Job(t).plugin, Job(t).gen)) /\ UNCHANGED <<vars, hooks>>
<1>1. /\ jobs[t] # <<>> /\ Job(t).stage = "purging" /\ Job(t).todo = <<>>
      /\ loaded' = [loaded EXCEPT ![Job(t).plugin] = 0] /\ EndUnload(t)
      /\ UpdateStrays(Displaced(Job(t).plugin, Job(t).gen)) /\ UNCHANGED <<vars, hooks>>
  BY DEF EndPurge, AtJob, Busy
<1>2. Job(t) \in Jobs /\ Job(t) \in Range(jobs[t]) /\ loaded \in [Plugins -> 0 .. MaxGen]
  BY <1>1, JobMoves DEF LifecycleTypeOK
<1>3. Job(t).plugin \in Plugins /\ Job(t).gen \in Gens
  BY <1>1, <1>2, JobParts
<1>4. Range(Job(t).todo) = {}
  BY <1>1 DEF Range
<1>5. 0 \in 0 .. MaxGen
  BY LifecycleAssumption
<1>6. loaded' \in [Plugins -> 0 .. MaxGen]
  BY <1>1, <1>2, <1>5
<1> QED
  BY <1>1, <1>2, <1>3, <1>4, <1>6, EndUnloadKeeps

(* A constructor returns or raises.                                           *)
LEMMA ConstructionEnds ==
  ASSUME LifecycleTypeOK, NEW t \in Threads, Constructed(t) \/ ConstructorFails(t)
  PROVE  /\ Job(t).stage = "constructing" /\ Job(t).plugin \in Plugins /\ Job(t).gen \in Gens
         /\ GoesOn(t, {}) /\ UNCHANGED <<vars, built, hooks>>
         /\ loaded' \in [Plugins -> 0 .. MaxGen]
         /\ \/ /\ loaded' = [loaded EXCEPT ![Job(t).plugin] = Job(t).gen]
               /\ UpdateStrays(Displaced(Job(t).plugin, Job(t).gen))
            \/ /\ UNCHANGED loaded
               /\ UpdateStrays(Range(hooks[Job(t).plugin][Job(t).gen]))
<1>1. /\ jobs[t] # <<>> /\ Job(t).stage = "constructing" /\ LeaveJob(t)
      /\ UNCHANGED <<vars, built, hooks>>
  BY DEF Constructed, ConstructorFails, AtJob, Busy
<1>2. jobs \in [Threads -> Seq(Jobs)] /\ Job(t) \in Jobs /\ loaded \in [Plugins -> 0 .. MaxGen]
  BY <1>1, JobMoves DEF LifecycleTypeOK
<1>3. Job(t).plugin \in Plugins /\ Job(t).gen \in Gens
  BY <1>1, <1>2, JobParts
<1>4. GoesOn(t, {})
  BY <1>1, <1>2, JobMoves
<1>5. Gens \subseteq 0 .. MaxGen
  BY LifecycleAssumption DEF Gens
<1>6. \/ /\ loaded' = [loaded EXCEPT ![Job(t).plugin] = Job(t).gen]
         /\ UpdateStrays(Displaced(Job(t).plugin, Job(t).gen))
      \/ /\ UNCHANGED loaded
         /\ UpdateStrays(Range(hooks[Job(t).plugin][Job(t).gen]))
  BY DEF Constructed, ConstructorFails
<1>7. loaded' \in [Plugins -> 0 .. MaxGen]
  BY <1>2, <1>3, <1>5, <1>6
<1> QED
  BY <1>1, <1>3, <1>4, <1>6, <1>7

(* Plugin.add_hook and Plugin.remove_hook.                                    *)
LEMMA CallParts ==
  ASSUME LifecycleTypeOK, HooksSound, NEW t \in Threads, NEW h \in Hookable,
         InstanceAddsHook(t, h) \/ InstanceRemovesHook(t, h)
  PROVE  /\ PluginAddsHook(t, h) \/ PluginRemovesHook(t, h)
         /\ UNCHANGED <<stack, phase, frame_tasks, built, loaded, jobs>>
         /\ LifecycleTypeOK' /\ HooksSound'
<1> DEFINE list == hooks[h.plugin][Gen(h)]
<1>1. PluginAddsHook(t, h) \/ PluginRemovesHook(t, h)
  BY DEF InstanceAddsHook, InstanceRemovesHook
<1>2. UNCHANGED <<stack, phase, frame_tasks, built, loaded, jobs>>
  BY DEF InstanceAddsHook, InstanceRemovesHook, PluginAddsHook, PluginRemovesHook
<1>3. /\ list \in Seq(Hook) /\ Range(list) \subseteq Hookable
      /\ Append(list, h) \in Seq(Hook) /\ Range(Append(list, h)) \subseteq Hookable
      /\ Retained(list, h) \in Seq(Hook) /\ Range(Retained(list, h)) \subseteq Hookable
  <2>1. /\ list \in Seq(Hook) /\ Range(list) \subseteq Hookable
        /\ Append(list, h) \in Seq(Hook) /\ Range(Append(list, h)) = Range(list) \cup {h}
        /\ Retained(list, h) \in Seq(Hook) /\ Range(Retained(list, h)) = Range(list) \ {h}
    BY ListsOfCalls
  <2> HIDE DEF list
  <2> QED
    BY <2>1
<1>4. UpdateStrays({h}) \/ UpdateStrays({})
  BY DEF InstanceAddsHook, InstanceRemovesHook
<1>5. \/ hooks' = [hooks EXCEPT ![h.plugin][Gen(h)] = Append(list, h)]
      \/ hooks' = [hooks EXCEPT ![h.plugin][Gen(h)] = Retained(list, h)]
      \/ UNCHANGED hooks
  BY DEF InstanceAddsHook, InstanceRemovesHook
<1> HIDE DEF list
<1>6. LifecycleTypeOK' /\ HooksSound'
  <2>1. ASSUME NEW l \in Seq(Hook), Range(l) \subseteq Hookable,
               hooks' = [hooks EXCEPT ![h.plugin][Gen(h)] = l] \/ UNCHANGED hooks
        PROVE  LifecycleTypeOK' /\ HooksSound'
    BY <1>2, <1>4, <2>1, ListStepKeeps
  <2> QED
    BY <1>3, <1>5, <2>1
<1> QED
  BY <1>1, <1>2, <1>6

(* Every step keeps the types, and that only hooks of plugin code are listed. *)
LEMMA TypesKept ==
  ASSUME IInv, LifecycleTypeOK, HooksSound, LifecycleNext
  PROVE  LifecycleTypeOK' /\ HooksSound'
<1>1. /\ jobs \in [Threads -> Seq(Jobs)] /\ built \in [Plugins -> 0 .. MaxGen]
      /\ loaded \in [Plugins -> 0 .. MaxGen] /\ strays \subseteq Hook
  BY DEF LifecycleTypeOK
<1>2. ASSUME NEW t \in Threads, NEW h \in Hookable,
             InstanceAddsHook(t, h) \/ InstanceRemovesHook(t, h)
      PROVE  LifecycleTypeOK' /\ HooksSound'
  BY <1>2, CallParts
<1>3. ASSUME NEW t \in Threads, NEW n \in Plugins, LoadOrReload(t, n) \/ Unload(t, n)
      PROVE  LifecycleTypeOK' /\ HooksSound'
  <2>1. PICK j \in Jobs : Begun(t, j) /\ j.stage \in {"unloading", "constructing"}
    BY <1>3, JobBegins
  <2>2. built' \in [Plugins -> 0 .. MaxGen] /\ UNCHANGED <<loaded, hooks, strays>>
    BY <1>3, JobBegins
  <2>3. /\ jobs' \in [Threads -> Seq(Jobs)] /\ \A u \in Threads : u # t => jobs'[u] = jobs[u]
        /\ Range(jobs'[t]) \subseteq Range(jobs[t]) \cup {j}
    BY <2>1 DEF Begun
  <2>4. \A i \in {j} : i.stage = "purging" => Range(i.todo) \subseteq Hookable
    BY <2>1
  <2> QED
    BY <1>1, <2>2, <2>3, <2>4, JobStepKeeps
<1>4. ASSUME NEW t \in Threads, BeginPurge(t)
      PROVE  LifecycleTypeOK' /\ HooksSound'
  <2>1. PICK new \in SUBSET Jobs :
          /\ GoesOn(t, new)
          /\ \A j \in new : j.stage = "purging" =>
               j.plugin \in Plugins /\ j.gen \in Gens /\ j.todo = hooks[j.plugin][j.gen]
    BY <1>4, PurgeBegins
  <2>2. \A j \in new : j.stage = "purging" => Range(j.todo) \subseteq Hookable
    BY <2>1 DEF HooksSound
  <2> QED
    BY <1>1, <1>4, <2>1, <2>2, PurgeBegins, JobStepKeeps DEF GoesOn
<1>5. ASSUME NEW t \in Threads, PurgeHook(t)
      PROVE  LifecycleTypeOK' /\ HooksSound'
  <2>1. UpdateStrays({}) /\ strays' \subseteq Hook
    BY <1>5, HookPurged, StraysType
  <2>2. PICK j \in Jobs : GoesOn(t, {j}) /\ Range(j.todo) \subseteq Hookable
    BY <1>5, HookPurged
  <2>3. UNCHANGED <<built, loaded, hooks>>
    BY <1>5, HookPurged
  <2>4. /\ jobs' \in [Threads -> Seq(Jobs)] /\ \A u \in Threads : u # t => jobs'[u] = jobs[u]
        /\ Range(jobs'[t]) \subseteq Range(jobs[t]) \cup {j}
    BY <2>2 DEF GoesOn
  <2>5. \A i \in {j} : i.stage = "purging" => Range(i.todo) \subseteq Hookable
    BY <2>2
  <2>6. /\ built' \in [Plugins -> 0 .. MaxGen] /\ loaded' \in [Plugins -> 0 .. MaxGen]
        /\ UNCHANGED hooks
    BY <1>1, <2>3
  <2> QED
    BY <2>1, <2>4, <2>5, <2>6, JobStepKeeps
<1>6. ASSUME NEW t \in Threads, EndPurge(t)
      PROVE  LifecycleTypeOK' /\ HooksSound'
  <2>1. strays' \subseteq Hook
    BY <1>6, PurgeEnds, DisplacedParts, StraysType
  <2>2. PICK new \in SUBSET Jobs : GoesOn(t, new) /\ \A j \in new : j.stage = "constructing"
    BY <1>6, PurgeEnds
  <2> QED
    BY <1>1, <1>6, <2>1, <2>2, PurgeEnds, JobStepKeeps DEF GoesOn
<1>7. ASSUME NEW t \in Threads, Constructed(t) \/ ConstructorFails(t)
      PROVE  LifecycleTypeOK' /\ HooksSound'
  <2>1. Job(t).plugin \in Plugins /\ Job(t).gen \in Gens
    BY <1>7, ConstructionEnds
  <2>2. Range(hooks[Job(t).plugin][Job(t).gen]) \subseteq Hook
    BY <2>1 DEF LifecycleTypeOK, Range
  <2>3. strays' \subseteq Hook
    BY <1>7, <2>1, <2>2, ConstructionEnds, DisplacedParts, StraysType
  <2>4. GoesOn(t, {}) /\ UNCHANGED <<built, hooks>> /\ loaded' \in [Plugins -> 0 .. MaxGen]
    BY <1>7, ConstructionEnds
  <2>5. jobs' \in [Threads -> Seq(Jobs)] /\ \A u \in Threads : u # t => jobs'[u] = jobs[u]
    BY <2>4 DEF GoesOn
  <2>6. /\ Range(jobs'[t]) \subseteq Range(jobs[t]) \cup Range(jobs[t])
        /\ \A i \in Range(jobs[t]) : i.stage = "purging" => Range(i.todo) \subseteq Hookable
    <3>1. Range(jobs'[t]) \subseteq Range(jobs[t]) \cup {}
      BY <2>4 DEF GoesOn
    <3> QED
      BY <3>1 DEF HooksSound
  <2>7. built' \in [Plugins -> 0 .. MaxGen] /\ UNCHANGED hooks
    BY <1>1, <2>4
  <2> QED
    BY <2>3, <2>4, <2>5, <2>6, <2>7, JobStepKeeps
<1>8. CASE RunsTask
  <2>1. frame_tasks \in Seq(Task) /\ frame_tasks # <<>>
    BY <1>8 DEF RunsTask, RunTask, IInv, TypeOK
  <2>2. Head(frame_tasks).hook \in Hook
    <3>1. Head(frame_tasks) \in Task
      BY <2>1, HeadTailProperties
    <3> QED
      BY <3>1 DEF Task
  <2>3. UpdateStrays({Head(frame_tasks).hook}) \/ UpdateStrays({})
    BY <1>8 DEF RunsTask
  <2>4. strays' \subseteq Hook
    BY <2>2, <2>3, StraysType
  <2> QED
    BY <1>8, <2>4 DEF RunsTask, lifecycleVars, LifecycleTypeOK, HooksSound
<1>9. CASE OtherFrameStep \/ \E t \in Threads : OtherDispatchStep(t)
  BY <1>9 DEF OtherFrameStep, OtherDispatchStep, lifecycleVars, LifecycleTypeOK, HooksSound
<1> QED
  BY <1>2, <1>3, <1>4, <1>5, <1>6, <1>7, <1>8, <1>9 DEF LifecycleNext

-----------------------------------------------------------------------------
(***************************************************************************)
(* Jobs run plugin code.                                                   *)
(***************************************************************************)
(* The code of a job is plugin code for the registry.                         *)
LEMMA JobRunsPluginCode ==
  ASSUME IInv, LifecycleTypeOK, NEW t \in Threads, JobSound(t), Busy(t)
  PROVE  RunsPluginCode(t)
<1>1. stack[t] \in Seq(Frame) /\ jobs[t] \in Seq(Jobs) /\ jobs[t] # <<>>
  BY DEF IInv, TypeOK, LifecycleTypeOK, Busy
<1>2. stack[t] = <<>> <=> Len(stack[t]) = 0
  BY <1>1, EmptySeq
<1>3. Len(jobs[t]) \in DOMAIN jobs[t]
  BY <1>1, EmptySeq
<1>4. IF Len(stack[t]) = 0 THEN t # Main \/ phase # "frame"
                           ELSE stack[t][Len(stack[t])].running
  BY <1>3 DEF JobSound, Busy, Job
<1> QED
  BY <1>2, <1>4 DEF RunsPluginCode, Top

(* What a step of a dispatch does to the stacks.                              *)
LEMMA DispatchStacks ==
  ASSUME IInv, NEW t \in Threads
  PROVE  /\ DispatchStep(t) =>
              /\ stack[t] # <<>> /\ Len(stack'[t]) >= Len(stack[t]) - 1
              /\ \A d \in 1 .. Len(stack[t]) - 1 : stack'[t][d] = stack[t][d]
              /\ \A u \in Threads : u # t => stack'[u] = stack[u]
              /\ UNCHANGED <<plugins, phase, next_frame_tasks, frame_tasks>>
         /\ \A e \in Events : StartDispatch(t, e) =>
              /\ Len(stack'[t]) = Len(stack[t]) + 1
              /\ \A d \in 1 .. Len(stack[t]) : stack'[t][d] = stack[t][d]
              /\ \A u \in Threads : u # t => stack'[u] = stack[u]
              /\ UNCHANGED <<plugins, phase, next_frame_tasks, frame_tasks>>
<1>1. stack \in [Threads -> Seq(Frame)] /\ stack[t] \in Seq(Frame) /\ Len(stack[t]) \in Nat
  BY DEF IInv, TypeOK
<1>2. ASSUME DispatchStep(t)
      PROVE  /\ stack[t] # <<>> /\ Len(stack'[t]) >= Len(stack[t]) - 1
             /\ \A d \in 1 .. Len(stack[t]) - 1 : stack'[t][d] = stack[t][d]
             /\ \A u \in Threads : u # t => stack'[u] = stack[u]
             /\ UNCHANGED <<plugins, phase, next_frame_tasks, frame_tasks>>
  <2>1. /\ stack[t] # <<>> /\ UNCHANGED <<plugins, phase, next_frame_tasks, frame_tasks>>
        /\ stack' = Pop(t) \/ \E f : stack' = SetTop(t, f)
    BY <1>2 DEF DispatchStep, CallNext, RunCommands, HandlerContinues, HandlerStops, FinishDispatch
  <2>2. Len(stack[t]) \in 1 .. Len(stack[t])
    BY <1>1, <2>1, EmptySeq
  <2>3. CASE stack' = Pop(t)
    <3> DEFINE rest == SubSeq(stack[t], 1, Len(stack[t]) - 1)
    <3>1. Len(rest) = Len(stack[t]) - 1 /\ \A d \in 1 .. Len(stack[t]) - 1 : rest[d] = stack[t][d]
      <4>1. Len(stack[t]) - 1 \in 0 .. Len(stack[t])
        BY <1>1, <2>2
      <4> QED
        BY <1>1, <4>1, FrontParts
    <3>2. stack' = [stack EXCEPT ![t] = rest]
      BY <2>3 DEF Pop
    <3> HIDE DEF rest
    <3>3. stack'[t] = rest /\ \A u \in Threads : u # t => stack'[u] = stack[u]
      BY <1>1, <3>2
    <3> QED
      BY <1>1, <2>1, <3>1, <3>3
  <2>4. ASSUME NEW f, stack' = SetTop(t, f)
        PROVE  /\ Len(stack'[t]) >= Len(stack[t]) - 1
               /\ \A d \in 1 .. Len(stack[t]) - 1 : stack'[t][d] = stack[t][d]
               /\ \A u \in Threads : u # t => stack'[u] = stack[u]
    <3> DEFINE new == [stack[t] EXCEPT ![Len(stack[t])] = f]
    <3>1. /\ DOMAIN new = 1 .. Len(stack[t])
          /\ \A d \in 1 .. Len(stack[t]) - 1 : new[d] = stack[t][d]
      BY <1>1, <2>2
    <3>2. Len(new) = Len(stack[t])
      <4>1. stack[t] \in Seq(Frame \cup {f})
        BY <1>1
      <4> QED
        BY <2>2, <4>1, ExceptSeq
    <3>3. stack' = [stack EXCEPT ![t] = new]
      BY <2>4 DEF SetTop
    <3> HIDE DEF new
    <3>4. stack'[t] = new /\ \A u \in Threads : u # t => stack'[u] = stack[u]
      BY <1>1, <3>3
    <3> QED
      BY <1>1, <3>1, <3>2, <3>4
  <2> QED
    BY <2>1, <2>3, <2>4
<1>3. ASSUME NEW e \in Events, StartDispatch(t, e)
      PROVE  /\ Len(stack'[t]) = Len(stack[t]) + 1
             /\ \A d \in 1 .. Len(stack[t]) : stack'[t][d] = stack[t][d]
             /\ \A u \in Threads : u # t => stack'[u] = stack[u]
             /\ UNCHANGED <<plugins, phase, next_frame_tasks, frame_tasks>>
  <2> DEFINE f == [event |-> e, at |-> <<0, 0, 0>>, running |-> FALSE]
             new == Append(stack[t], f)
  <2>1. /\ stack' = [stack EXCEPT ![t] = new]
        /\ UNCHANGED <<plugins, phase, next_frame_tasks, frame_tasks>>
    BY <1>3 DEF StartDispatch, Push
  <2>2. f \in Frame
    BY DEF Frame
  <2> HIDE DEF f
  <2>3. Len(new) = Len(stack[t]) + 1 /\ \A d \in 1 .. Len(stack[t]) : new[d] = stack[t][d]
    BY <1>1, <2>2
  <2> HIDE DEF new
  <2>4. stack'[t] = new /\ \A u \in Threads : u # t => stack'[u] = stack[u]
    BY <1>1, <2>1
  <2> QED
    BY <2>1, <2>3, <2>4
<1> QED
  BY <1>2, <1>3

(* Jobs are left alone by what happens above them.                            *)
LEMMA JobStays ==
  ASSUME LifecycleTypeOK, NEW t \in Threads, JobSound(t),
         \A k \in DOMAIN jobs'[t] : k \in DOMAIN jobs[t] /\ jobs'[t][k].depth = jobs[t][k].depth,
         \A k \in DOMAIN jobs[t] :
           /\ Len(stack'[t]) >= jobs[t][k].depth
           /\ \A d \in 1 .. jobs[t][k].depth : stack'[t][d] = stack[t][d]
           /\ t = Main => UNCHANGED phase
  PROVE  JobSound(t)'
<1>1. ASSUME NEW k \in DOMAIN jobs'[t]
      PROVE  /\ jobs'[t][k].depth <= Len(stack'[t])
             /\ IF jobs'[t][k].depth = 0 THEN t # Main \/ phase' # "frame"
                                         ELSE stack'[t][jobs'[t][k].depth].running
  <2>1. /\ k \in DOMAIN jobs[t] /\ jobs'[t][k].depth = jobs[t][k].depth
        /\ Len(stack'[t]) >= jobs[t][k].depth
        /\ \A d \in 1 .. jobs[t][k].depth : stack'[t][d] = stack[t][d]
        /\ t = Main => UNCHANGED phase
    BY <1>1
  <2>2. jobs[t][k] \in Jobs
    <3>1. jobs[t] \in Seq(Jobs)
      BY DEF LifecycleTypeOK
    <3> QED
      BY <2>1, <3>1
  <2>3. jobs[t][k].depth \in Nat
    BY <2>2, JobParts
  <2>4. CASE jobs[t][k].depth = 0
    BY <2>1, <2>4 DEF JobSound
  <2>5. CASE jobs[t][k].depth # 0
    <3>1. jobs[t][k].depth \in 1 .. jobs[t][k].depth
      BY <2>3, <2>5
    <3> QED
      BY <2>1, <2>3, <2>5, <3>1 DEF JobSound
  <2> QED
    BY <2>4, <2>5
<1>2. \A i, k \in DOMAIN jobs'[t] : i <= k => jobs'[t][i].depth <= jobs'[t][k].depth
  BY DEF JobSound
<1> QED
  BY <1>1, <1>2 DEF JobSound

(* A job is begun above those that are under way.                             *)
LEMMA JobBegun ==
  ASSUME LifecycleTypeOK, NEW t \in Threads, JobSound(t), NEW j \in Jobs, Begun(t, j),
         j.depth = Len(stack[t]), Len(stack'[t]) >= Len(stack[t]),
         \A d \in 1 .. Len(stack[t]) : stack'[t][d] = stack[t][d], UNCHANGED phase,
         IF Len(stack[t]) = 0 THEN t # Main \/ phase # "frame"
                              ELSE stack[t][Len(stack[t])].running
  PROVE  JobSound(t)'
<1> DEFINE n == Len(jobs[t])
<1>1. /\ jobs[t] \in Seq(Jobs) /\ n \in Nat /\ DOMAIN jobs[t] = 1 .. n
      /\ \A k \in 1 .. n : jobs[t][k] \in Jobs
  BY DEF LifecycleTypeOK
<1>2. /\ DOMAIN jobs'[t] = 1 .. n + 1 /\ jobs'[t][n + 1] = j
      /\ \A k \in 1 .. n : jobs'[t][k] = jobs[t][k]
  <2>1. jobs'[t] \in Seq(Jobs)
    BY DEF Begun
  <2> QED
    BY <2>1 DEF Begun
<1>3. j.depth \in Nat /\ \A k \in 1 .. n : jobs[t][k].depth \in Nat
  BY <1>1, JobParts
<1> HIDE DEF n
<1>4. ASSUME NEW k \in 1 .. n
      PROVE  /\ jobs[t][k].depth <= Len(stack'[t]) /\ jobs[t][k].depth <= j.depth
             /\ IF jobs[t][k].depth = 0 THEN t # Main \/ phase' # "frame"
                                        ELSE stack'[t][jobs[t][k].depth].running
  <2>1. /\ jobs[t][k].depth <= Len(stack[t])
        /\ IF jobs[t][k].depth = 0 THEN t # Main \/ phase # "frame"
                                   ELSE stack[t][jobs[t][k].depth].running
    BY <1>1 DEF JobSound
  <2>2. jobs[t][k].depth # 0 => jobs[t][k].depth \in 1 .. Len(stack[t])
    BY <1>3, <2>1
  <2>3. jobs[t][k].depth <= Len(stack'[t])
    BY <1>3, <2>1
  <2> QED
    BY <2>1, <2>2, <2>3
<1>5. /\ j.depth <= Len(stack'[t])
      /\ IF j.depth = 0 THEN t # Main \/ phase' # "frame" ELSE stack'[t][j.depth].running
  <2>1. j.depth # 0 => j.depth \in 1 .. Len(stack[t])
    BY <1>3
  <2> QED
    BY <1>3, <2>1
<1>6. \A k \in 1 .. n + 1 : k \in 1 .. n \/ k = n + 1
  BY <1>1
<1>7. \A k \in DOMAIN jobs'[t] :
        /\ jobs'[t][k].depth <= Len(stack'[t])
        /\ IF jobs'[t][k].depth = 0 THEN t # Main \/ phase' # "frame"
                                    ELSE stack'[t][jobs'[t][k].depth].running
  <2> TAKE k \in DOMAIN jobs'[t]
  <2>1. CASE k \in 1 .. n
    BY <1>2, <1>4, <2>1
  <2>2. CASE k = n + 1
    BY <1>2, <1>5, <2>2
  <2> QED
    BY <1>2, <1>6, <2>1, <2>2
<1>8. \A i, k \in DOMAIN jobs'[t] : i <= k => jobs'[t][i].depth <= jobs'[t][k].depth
  <2> TAKE i, k \in DOMAIN jobs'[t]
  <2>1. CASE k \in 1 .. n
    <3>1. i <= k => i \in 1 .. n
      BY <1>1, <1>2, <2>1
    <3>2. i <= k => jobs[t][i].depth <= jobs[t][k].depth
      BY <1>1, <2>1, <3>1 DEF JobSound
    <3> QED
      BY <1>2, <2>1, <3>1, <3>2
  <2>2. CASE k = n + 1 /\ i \in 1 .. n
    BY <1>2, <1>4, <2>2
  <2>3. CASE k = n + 1 /\ i = n + 1
    BY <1>2, <1>3, <2>3
  <2> QED
    BY <1>2, <1>6, <2>1, <2>2, <2>3
<1> QED
  BY <1>7, <1>8 DEF JobSound

(* The innermost job is the highest.                                          *)
LEMMA InnermostJob ==
  ASSUME IInv, LifecycleTypeOK, NEW t \in Threads, JobSound(t)
  PROVE  \A k \in DOMAIN jobs[t] :
           /\ jobs[t][k].depth \in Nat /\ jobs[t][k].depth <= Len(stack[t])
           /\ ~Busy(t) => jobs[t][k].depth <= Len(stack[t]) - 1
<1> DEFINE n == Len(jobs[t])
<1>1. /\ jobs[t] \in Seq(Jobs) /\ n \in Nat /\ DOMAIN jobs[t] = 1 .. n
      /\ \A k \in 1 .. n : jobs[t][k] \in Jobs
      /\ stack[t] \in Seq(Frame) /\ Len(stack[t]) \in Nat
  BY DEF LifecycleTypeOK, IInv, TypeOK
<1> TAKE k \in DOMAIN jobs[t]
<1>2. jobs[t] # <<>> /\ k \in 1 .. n /\ n \in 1 .. n /\ k <= n
  <2>1. k \in 1 .. n
    BY <1>1
  <2>2. n \in 1 .. n /\ k <= n
    BY <1>1, <2>1
  <2> QED
    BY <2>1, <2>2
<1>3. jobs[t][k].depth \in Nat /\ jobs[t][n].depth \in Nat
  BY <1>1, <1>2, JobParts
<1>4. /\ jobs[t][k].depth <= Len(stack[t]) /\ jobs[t][n].depth <= Len(stack[t])
      /\ jobs[t][k].depth <= jobs[t][n].depth
  BY <1>1, <1>2 DEF JobSound
<1>5. ~Busy(t) => jobs[t][n].depth # Len(stack[t])
  BY <1>2 DEF Busy, Job
<1> QED
  BY <1>1, <1>3, <1>4, <1>5

(* Every step keeps jobs above what they were begun in.                       *)
LEMMA JobsKept ==
  ASSUME LifecycleSound, LifecycleNext
  PROVE  \A u \in Threads : JobSound(u)'
<1> DEFINE Same(u) == \A k \in DOMAIN jobs[u] :
             /\ Len(stack'[u]) >= jobs[u][k].depth
             /\ \A d \in 1 .. jobs[u][k].depth : stack'[u][d] = stack[u][d]
             /\ u = Main => UNCHANGED phase
           Kept(u) == \A k \in DOMAIN jobs'[u] :
             k \in DOMAIN jobs[u] /\ jobs'[u][k].depth = jobs[u][k].depth
<1>1. /\ IInv /\ LifecycleTypeOK /\ HooksSound /\ \A u \in Threads : JobSound(u)
      /\ \A u \in Threads : stack[u] \in Seq(Frame) /\ Len(stack[u]) \in Nat
  BY DEF LifecycleSound, IInv, TypeOK
<1>2. \A u \in Threads : \A k \in DOMAIN jobs[u] :
        /\ jobs[u][k].depth \in Nat /\ jobs[u][k].depth <= Len(stack[u])
        /\ ~Busy(u) => jobs[u][k].depth <= Len(stack[u]) - 1
  BY <1>1, InnermostJob
<1>3. ASSUME NEW u \in Threads, stack'[u] = stack[u], u = Main => UNCHANGED phase
      PROVE  Same(u)
  BY <1>1, <1>2, <1>3
<1>4. ASSUME NEW u \in Threads, Same(u), Kept(u)
      PROVE  JobSound(u)'
  BY <1>1, <1>4, JobStays
<1>5. ASSUME NEW u \in Threads, jobs'[u] = jobs[u]
      PROVE  Kept(u)
  BY <1>5
<1>6. ASSUME NEW u \in Threads, NEW new, GoesOn(u, new)
      PROVE  Kept(u)
  BY <1>6 DEF GoesOn
<1> HIDE DEF Same, Kept
<1>7. ASSUME NEW t \in Threads, NEW h \in Hookable,
             InstanceAddsHook(t, h) \/ InstanceRemovesHook(t, h)
      PROVE  \A u \in Threads : JobSound(u)'
  BY <1>1, <1>3, <1>4, <1>5, <1>7, CallParts
<1>8. ASSUME NEW t \in Threads, NEW n \in Plugins, LoadOrReload(t, n) \/ Unload(t, n)
      PROVE  \A u \in Threads : JobSound(u)'
  <2>1. PICK j \in Jobs : Begun(t, j) /\ j.depth = Len(stack[t])
    BY <1>1, <1>8, JobBegins
  <2>2. RunsPluginCode(t) /\ (StartDispatch(t, UnloadEvent) \/ UNCHANGED vars)
    BY <1>1, <1>8, JobBegins
  <2>3. /\ Len(stack'[t]) >= Len(stack[t])
        /\ \A d \in 1 .. Len(stack[t]) : stack'[t][d] = stack[t][d]
        /\ UNCHANGED phase
        /\ \A u \in Threads : u # t => stack'[u] = stack[u]
    BY <1>1, <2>2, DispatchStacks, LifecycleAssumption DEF vars
  <2>4. \A u \in Threads : u # t => JobSound(u)'
    BY <1>3, <1>4, <1>5, <2>1, <2>3 DEF Begun
  <2>5. IF Len(stack[t]) = 0 THEN t # Main \/ phase # "frame"
                             ELSE stack[t][Len(stack[t])].running
    <3>1. stack[t] = <<>> <=> Len(stack[t]) = 0
      BY <1>1, EmptySeq
    <3> QED
      BY <2>2, <3>1 DEF RunsPluginCode, Top
  <2>6. JobSound(t)'
    BY <1>1, <2>1, <2>3, <2>5, JobBegun
  <2> QED
    BY <2>4, <2>6
<1>9. ASSUME NEW t \in Threads, NEW new, GoesOn(t, new), UNCHANGED <<stack, phase>>
      PROVE  \A u \in Threads : JobSound(u)'
  BY <1>3, <1>4, <1>5, <1>6, <1>9 DEF GoesOn
<1>10. ASSUME NEW t \in Threads, BeginPurge(t)
       PROVE  \A u \in Threads : JobSound(u)'
  BY <1>1, <1>9, <1>10, PurgeBegins DEF vars
<1>11. ASSUME NEW t \in Threads, PurgeHook(t)
       PROVE  \A u \in Threads : JobSound(u)'
  BY <1>1, <1>9, <1>11, HookPurged
<1>12. ASSUME NEW t \in Threads, EndPurge(t)
       PROVE  \A u \in Threads : JobSound(u)'
  BY <1>1, <1>9, <1>12, PurgeEnds DEF vars
<1>13. ASSUME NEW t \in Threads, Constructed(t) \/ ConstructorFails(t)
       PROVE  \A u \in Threads : JobSound(u)'
  BY <1>1, <1>9, <1>13, ConstructionEnds DEF vars
<1>14. CASE RunsTask \/ OtherFrameStep
  <2>1. /\ ~Busy(Main) /\ stack[Main] = <<>> /\ UNCHANGED jobs /\ Main \in Threads
        /\ \A u \in Threads : u # Main => stack'[u] = stack[u]
    <3>1. ~Busy(Main) /\ UNCHANGED jobs /\ Main \in Threads
      BY <1>14, ConstantsAssumption DEF RunsTask, OtherFrameStep, lifecycleVars
    <3>2. RunTask \/ BeginFrame \/ DispatchFrame \/ TransferNextFrameTasks
      BY <1>14 DEF RunsTask, OtherFrameStep
    <3>3. stack[Main] = <<>> /\ (UNCHANGED stack \/ stack' = Push(Main, FrameEvent))
      BY <3>2 DEF RunTask, BeginFrame, DispatchFrame, TransferNextFrameTasks
    <3>4. stack \in [Threads -> Seq(Frame)]
      BY <1>1 DEF IInv, TypeOK
    <3>5. \A u \in Threads : u # Main => stack'[u] = stack[u]
      BY <3>3, <3>4 DEF Push
    <3> QED
      BY <3>1, <3>3, <3>5
  <2>2. \A k \in DOMAIN jobs[Main] : FALSE
    <3>1. Len(stack[Main]) = 0
      BY <2>1
    <3> QED
      BY <1>2, <2>1, <3>1
  <2>3. Same(Main)
    BY <2>2 DEF Same
  <2>4. \A u \in Threads : JobSound(u)'
    BY <1>3, <1>4, <1>5, <2>1, <2>3
  <2> QED
    BY <2>4
<1>15. ASSUME NEW t \in Threads, OtherDispatchStep(t)
       PROVE  \A u \in Threads : JobSound(u)'
  <2>1. /\ UNCHANGED jobs
        /\ (~Busy(t) /\ DispatchStep(t)) \/ \E e \in Events : StartDispatch(t, e)
    BY <1>15 DEF OtherDispatchStep, lifecycleVars
  <2>2. UNCHANGED phase /\ \A u \in Threads : u # t => stack'[u] = stack[u]
    BY <1>1, <2>1, DispatchStacks
  <2>3. ASSUME ~Busy(t), DispatchStep(t)
        PROVE  Same(t)
    <3>1. /\ Len(stack'[t]) >= Len(stack[t]) - 1
          /\ \A d \in 1 .. Len(stack[t]) - 1 : stack'[t][d] = stack[t][d]
      BY <1>1, <2>3, DispatchStacks
    <3>2. \A k \in DOMAIN jobs[t] :
            jobs[t][k].depth \in Nat /\ jobs[t][k].depth <= Len(stack[t]) - 1
      BY <1>2, <2>3
    <3>3. stack'[t] \in Seq(Frame)
      <4>1. IInv'
        BY <1>1, <2>3, Step DEF RegistryNext
      <4> QED
        BY <4>1 DEF IInv, TypeOK
    <3> QED
      BY <1>1, <2>2, <3>1, <3>2, <3>3 DEF Same
  <2>4. ASSUME NEW e \in Events, StartDispatch(t, e)
        PROVE  Same(t)
    <3>1. /\ Len(stack'[t]) = Len(stack[t]) + 1
          /\ \A d \in 1 .. Len(stack[t]) : stack'[t][d] = stack[t][d]
      BY <1>1, <2>4, DispatchStacks
    <3> QED
      BY <1>1, <1>2, <2>2, <3>1 DEF Same
  <2>5. Same(t)
    BY <2>1, <2>3, <2>4
  <2> QED
    BY <1>3, <1>4, <1>5, <2>1, <2>2, <2>5
<1> QED
  BY <1>7, <1>8, <1>10, <1>11, <1>12, <1>13, <1>14, <1>15 DEF LifecycleNext

(* What loading and unloading do to the registry plugin code may do.          *)
LEMMA LifecycleStepsAreRegistrySteps ==
  ASSUME LifecycleSound, [LifecycleNext]_allVars
  PROVE  [RegistryNext]_vars
<1>1. IInv /\ LifecycleTypeOK /\ HooksSound /\ \A u \in Threads : JobSound(u)
  BY DEF LifecycleSound
<1>2. ASSUME NEW t \in Threads, NEW h \in Hookable,
             InstanceAddsHook(t, h) \/ InstanceRemovesHook(t, h)
      PROVE  RegistryNext
  BY <1>1, <1>2, CallParts DEF RegistryNext
<1>3. ASSUME NEW t \in Threads, NEW n \in Plugins, LoadOrReload(t, n) \/ Unload(t, n)
      PROVE  [RegistryNext]_vars
  BY <1>1, <1>3, JobBegins, LifecycleAssumption DEF RegistryNext
<1>4. ASSUME NEW t \in Threads,
             BeginPurge(t) \/ EndPurge(t) \/ Constructed(t) \/ ConstructorFails(t)
      PROVE  UNCHANGED vars
  BY <1>1, <1>4, PurgeBegins, PurgeEnds, ConstructionEnds
<1>5. ASSUME NEW t \in Threads, PurgeHook(t)
      PROVE  RegistryNext
  <2>1. RunsPluginCode(t)
    BY <1>1, <1>5, HookPurged, JobRunsPluginCode
  <2>2. PICK h \in Hookable : PluginRemovesHook(t, h)
    BY <1>1, <1>5, <2>1, HookPurged DEF PluginRemovesHook
  <2> QED
    BY <2>2 DEF RegistryNext
<1>6. CASE RunsTask \/ OtherFrameStep
  BY <1>6 DEF RunsTask, OtherFrameStep, FrameStep, RegistryNext
<1>7. ASSUME NEW t \in Threads, OtherDispatchStep(t)
      PROVE  RegistryNext
  BY <1>7 DEF OtherDispatchStep, RegistryNext
<1>8. CASE UNCHANGED allVars
  BY <1>8 DEF allVars
<1> QED
  BY <1>2, <1>3, <1>4, <1>5, <1>6, <1>7, <1>8 DEF LifecycleNext

(* Before anything is loaded.                                                 *)
LEMMA LifecycleStarts == LifecycleInit => LifecycleSound
<1> SUFFICES ASSUME LifecycleInit
             PROVE  LifecycleSound
  OBVIOUS
<1>1. IInv
  <2>1. Init
    BY DEF LifecycleInit
  <2> QED
    BY <2>1, RegistryStarts
<1>2. \A t \in Threads : jobs[t] = <<>> /\ Range(jobs[t]) = {} /\ DOMAIN jobs[t] = {}
  BY DEF LifecycleInit, Range
<1>3. 0 \in 0 .. MaxGen /\ <<>> \in Seq(Hook) /\ <<>> \in Seq(Jobs)
  BY LifecycleAssumption
<1>4. LifecycleTypeOK
  BY <1>2, <1>3 DEF LifecycleInit, LifecycleTypeOK
<1>5. Range(<<>>) = {}
  BY DEF Range
<1>6. HooksSound
  BY <1>2, <1>5 DEF LifecycleInit, HooksSound
<1>7. \A t \in Threads : JobSound(t)
  BY <1>2 DEF LifecycleInit, JobSound
<1> QED
  BY <1>1, <1>4, <1>6, <1>7 DEF LifecycleSound

(* Jobs and lists stay sound while plugins come and go.                       *)
LEMMA LifecycleStep ==
  ASSUME LifecycleSound, [LifecycleNext]_allVars
  PROVE  LifecycleSound'
<1>1. IInv /\ LifecycleTypeOK /\ HooksSound
  BY DEF LifecycleSound
<1>2. IInv'
  BY <1>1, LifecycleStepsAreRegistrySteps, Step
<1>3. CASE LifecycleNext
  BY <1>1, <1>2, <1>3, TypesKept, JobsKept DEF LifecycleSound
<1>4. CASE UNCHANGED allVars
  BY <1>2, <1>4 DEF allVars, vars, lifecycleVars, LifecycleSound, LifecycleTypeOK, HooksSound, JobSound
<1> QED
  BY <1>3, <1>4

LEMMA LifecycleStaysSound == LifecycleSpec => []LifecycleSound
<1>1. LifecycleInit => LifecycleSound
  BY LifecycleStarts
<1>2. LifecycleSound /\ [LifecycleNext]_allVars => LifecycleSound'
  BY LifecycleStep
<1> QED
  BY <1>1, <1>2, PTL DEF LifecycleSpec

(* The variables of loading and unloading keep their types, for any number of *)
(* plugins, instances and threads: a purge is always of an instance.          *)
THEOREM LifecycleTypes == LifecycleSpec => []LifecycleTypeOK
<1>1. LifecycleSound => LifecycleTypeOK
  BY DEF LifecycleSound
<1> QED
  BY <1>1, LifecycleStaysSound, PTL

(* Loading, unloading and reloading on any threads, inside any handlers and   *)
(* inside one another, does to the registry only what plugin code may do to   *)
(* it at that moment.                                                         *)
THEOREM PluginsUseTheRegistry == LifecycleSpec => UsesTheRegistry
<1>1. LifecycleInit => Init
  BY DEF LifecycleInit
<1>2. LifecycleSound /\ [LifecycleNext]_allVars => [RegistryNext]_vars
  BY LifecycleStepsAreRegistrySteps
<1> QED
  BY <1>1, <1>2, LifecycleStaysSound, PTL DEF LifecycleSpec, UsesTheRegistry, RegistrySpec

(* So a dispatch calls what was hooked when it began also while plugins are   *)
(* loaded and unloaded, be it by its own handlers.                            *)
THEOREM PromiseKeptUnderPlugins == LifecycleSpec => KeepsPromise
BY PluginsUseTheRegistry, RegistryKeepsPromise, PTL DEF UsesTheRegistry

-----------------------------------------------------------------------------
(***************************************************************************)
(* Purges.  A registered hook is on the list that the unload of its        *)
(* instance will go by, and an unload under way that has taken the list    *)
(* still has the hook to do; unless its removal is put off or the hook is  *)
(* a stray.                                                                *)
(***************************************************************************)
Known(h) == Pending("remove_hook", h) \/ h \in strays

Listed(h) == Alive(h.plugin, Gen(h)) /\ h \in Range(hooks[h.plugin][Gen(h)])

Purges(j, h) == j.stage = "purging" /\ j.plugin = h.plugin /\ j.gen = Gen(h)

Tracked(h) ==
  IsHooked(h) =>
    /\ Known(h) \/ Listed(h)
    /\ \A t \in Threads : \A j \in Range(jobs[t]) :
         Purges(j, h) => Known(h) \/ h \in Range(j.todo)

(* A call that is made directly leaves those that are put off in the queue,   *)
(* and is one of them when the registry is locked.                            *)
LEMMA CallsPending ==
  ASSUME IInv, NEW h \in Hook, add_hook(h) \/ remove_hook(h)
  PROVE  /\ \A op, x : Has(next_frame_tasks, op, x) => Has(next_frame_tasks', op, x)
         /\ remove_hook(h) /\ Locked(h.event) => Has(next_frame_tasks', "remove_hook", h)
<1>1. next_frame_tasks \in Seq(Task)
  BY DEF IInv, TypeOK
<1>2. ASSUME NEW op \in {"add_hook", "remove_hook"}, Defer(op, h)
      PROVE  /\ \A o, x : Has(next_frame_tasks, o, x) => Has(next_frame_tasks', o, x)
             /\ Has(next_frame_tasks', op, h)
  <2>1. [op |-> op, hook |-> h] \in Task
    BY DEF Task
  <2>2. Range(next_frame_tasks') = Range(next_frame_tasks) \cup {[op |-> op, hook |-> h]}
    BY <1>1, <1>2, <2>1, AppendRange DEF Defer
  <2> QED
    BY <2>2 DEF Has
<1>3. \/ UNCHANGED next_frame_tasks /\ ~Locked(h.event)
      \/ Defer("add_hook", h) /\ ~remove_hook(h)
      \/ Defer("remove_hook", h)
  BY DEF add_hook, remove_hook
<1> QED
  BY <1>2, <1>3 DEF Has

(* The calls that are put off, seen from the two queues.                      *)
LEMMA PendingInQueues ==
  ASSUME IInv, IInv', NEW op, NEW h
  PROVE  /\ Pending(op, h) <=> Has(frame_tasks, op, h) \/ Has(next_frame_tasks, op, h)
         /\ Pending(op, h)' <=> Has(frame_tasks', op, h) \/ Has(next_frame_tasks', op, h)
<1>1. /\ frame_tasks \in Seq(Task) /\ next_frame_tasks \in Seq(Task)
      /\ frame_tasks' \in Seq(Task) /\ next_frame_tasks' \in Seq(Task)
  BY DEF IInv, TypeOK
<1>2. ASSUME NEW q \in Seq(Task), NEW r \in Seq(Task)
      PROVE  (\E k \in DOMAIN (q \o r) : (q \o r)[k] = [op |-> op, hook |-> h])
               <=> Has(q, op, h) \/ Has(r, op, h)
  <2>1. Range(q \o r) = Range(q) \cup Range(r)
    BY <1>2, ConcatRange
  <2>2. (\E k \in DOMAIN (q \o r) : (q \o r)[k] = [op |-> op, hook |-> h])
          <=> [op |-> op, hook |-> h] \in Range(q \o r)
    BY DEF Range
  <2> QED
    BY <2>1, <2>2 DEF Has
<1> QED
  BY <1>1, <1>2 DEF Pending

(* What is put off stays put off while calls are added to the queue.          *)
LEMMA CallsLeavePending ==
  ASSUME IInv, IInv', NEW x \in Hook, add_hook(x) \/ remove_hook(x), UNCHANGED frame_tasks
  PROVE  /\ \A op, h : Pending(op, h) => Pending(op, h)'
         /\ remove_hook(x) /\ Locked(x.event) => Pending("remove_hook", x)'
<1>1. \A op, h : Has(next_frame_tasks, op, h) => Has(next_frame_tasks', op, h)
  BY CallsPending
<1>2. remove_hook(x) /\ Locked(x.event) => Has(next_frame_tasks', "remove_hook", x)
  BY CallsPending
<1> QED
  BY <1>1, <1>2, PendingInQueues

(* An instance stays alive when no construction ends and none is replaced.    *)
LEMMA AliveStays ==
  ASSUME NEW t \in Threads, NEW new, GoesOn(t, new), NEW n, NEW g, Alive(n, g),
         loaded'[n] = loaded[n], Job(t).stage # "constructing"
  PROVE  Alive(n, g)'
<1>1. CASE loaded[n] = g
  BY <1>1 DEF Alive
<1>2. CASE Constructing(n, g)
  <2>1. PICK u \in Threads : \E j \in Range(jobs[u]) :
          j.stage = "constructing" /\ j.plugin = n /\ j.gen = g
    BY <1>2 DEF Constructing
  <2>2. PICK j \in Range(jobs[u]) : j.stage = "constructing" /\ j.plugin = n /\ j.gen = g
    BY <2>1
  <2>3. j \in Range(jobs'[u])
    BY <2>2 DEF GoesOn
  <2> QED
    BY <2>2, <2>3 DEF Alive, Constructing
<1> QED
  BY <1>1, <1>2 DEF Alive

(* Jobs and loaded instances that nothing happens to.                         *)
LEMMA JobsStand ==
  ASSUME NEW h \in Hook, UNCHANGED <<loaded, jobs>>
  PROVE  /\ Alive(h.plugin, Gen(h))' <=> Alive(h.plugin, Gen(h))
         /\ \A t \in Threads : jobs'[t] = jobs[t]
         /\ ~BehindUnload(h) =>
              /\ Alive(h.plugin, Gen(h))
              /\ \A t \in Threads : \A j \in Range(jobs[t]) : ~Purges(j, h)
BY DEF Alive, Constructing, Purges, BehindUnload, Purging, Gen

(* A hook that is registered at once is put on the list with it, and is stray *)
(* when the unload of the instance is under way or over.                      *)
LEMMA AddTracked ==
  ASSUME LifecycleSound, LifecycleSound', NEW t \in Threads, NEW x \in Hookable,
         InstanceAddsHook(t, x), NEW h \in Hook, Tracked(h)
  PROVE  Tracked(h)'
<1>1. IInv /\ IInv' /\ LifecycleTypeOK /\ HooksSound
  BY DEF LifecycleSound
<1>2. /\ x \in Hook /\ x.plugin \in Plugins /\ Gen(x) \in Gens
      /\ Append(hooks[x.plugin][Gen(x)], x) \in Seq(Hook)
      /\ Range(Append(hooks[x.plugin][Gen(x)], x)) = Range(hooks[x.plugin][Gen(x)]) \cup {x}
      /\ Range(hooks[x.plugin][Gen(x)]) \subseteq Hookable
  BY <1>1, ListsOfCalls
<1>3. /\ add_hook(x) /\ UNCHANGED <<frame_tasks, loaded, jobs>>
      /\ UpdateStrays(IF BehindUnload(x) THEN {x} ELSE {})
      /\ hooks' = IF Locked(x.event) \/ ~AddRaises(x)
                  THEN [hooks EXCEPT ![x.plugin][Gen(x)] = Append(hooks[x.plugin][Gen(x)], x)]
                  ELSE hooks
  BY DEF InstanceAddsHook, PluginAddsHook
<1>4. /\ Range(hooks[h.plugin][Gen(h)]) \subseteq Range(hooks'[h.plugin][Gen(h)])
      /\ Locked(x.event) \/ ~AddRaises(x) => x \in Range(hooks'[x.plugin][Gen(x)])
  <2>1. h.plugin \in Plugins /\ Gen(h) \in Gens
    BY HookParts
  <2>2. CASE Locked(x.event) \/ ~AddRaises(x)
    <3>1. \A m \in Plugins, k \in Gens :
            hooks'[m][k] = IF m = x.plugin /\ k = Gen(x)
                           THEN Append(hooks[x.plugin][Gen(x)], x) ELSE hooks[m][k]
      BY <1>1, <1>2, <1>3, <2>2, ListReplaced
    <3> QED
      BY <1>2, <2>1, <3>1
  <2>3. CASE ~(Locked(x.event) \/ ~AddRaises(x))
    BY <1>3, <2>3
  <2> QED
    BY <2>2, <2>3
<1>5. \A op, y : Pending(op, y) => Pending(op, y)'
  BY <1>1, <1>2, <1>3, CallsLeavePending
<1>6. CASE IsHooked(h)' => IsHooked(h)
  <2>1. IsHooked(h)' /\ Known(h) => Known(h)'
    BY <1>3, <1>5 DEF Known, UpdateStrays
  <2>2. Listed(h) => Listed(h)'
    BY <1>3, <1>4, JobsStand DEF Listed, Gen
  <2>3. \A u \in Threads : jobs'[u] = jobs[u]
    BY <1>3, JobsStand
  <2> QED
    BY <1>6, <2>1, <2>2, <2>3 DEF Tracked
<1>7. CASE IsHooked(h)' /\ ~IsHooked(h)
  <2>1. h = x /\ ~AddRaises(x)
    BY <1>1, <1>2, <1>3, <1>7, AddHooks
  <2>2. CASE BehindUnload(h)
    BY <1>3, <1>7, <2>1, <2>2 DEF Tracked, Known, UpdateStrays
  <2>3. CASE ~BehindUnload(h)
    <3>1. /\ Alive(h.plugin, Gen(h))'
          /\ \A u \in Threads : \A j \in Range(jobs'[u]) : ~Purges(j, h)
      BY <1>3, <2>3, JobsStand
    <3>2. Listed(h)'
      BY <1>4, <2>1, <3>1 DEF Listed, Gen
    <3> QED
      BY <3>1, <3>2 DEF Tracked
  <2> QED
    BY <2>2, <2>3
<1> QED
  BY <1>6, <1>7

(* The list loses the hook with the registry, or the removal is put off.      *)
LEMMA RemoveTracked ==
  ASSUME LifecycleSound, LifecycleSound', NEW t \in Threads, NEW x \in Hookable,
         InstanceRemovesHook(t, x), NEW h \in Hook, Tracked(h)
  PROVE  Tracked(h)'
<1>1. IInv /\ IInv' /\ LifecycleTypeOK /\ HooksSound
  BY DEF LifecycleSound
<1>2. LET list == hooks[x.plugin][Gen(x)]
      IN /\ x \in Hook /\ x.plugin \in Plugins /\ Gen(x) \in Gens
         /\ Retained(list, x) \in Seq(Hook) /\ Range(Retained(list, x)) = Range(list) \ {x}
         /\ Range(list) \subseteq Hookable
  BY <1>1, ListsOfCalls
<1>3. /\ remove_hook(x) /\ UNCHANGED <<frame_tasks, loaded, jobs>> /\ UpdateStrays({})
      /\ hooks' = [hooks EXCEPT ![x.plugin][Gen(x)] = Retained(hooks[x.plugin][Gen(x)], x)]
           \/ UNCHANGED hooks
  BY DEF InstanceRemovesHook, PluginRemovesHook
<1>4. Range(hooks[h.plugin][Gen(h)]) \ {x} \subseteq Range(hooks'[h.plugin][Gen(h)])
  <2>1. h.plugin \in Plugins /\ Gen(h) \in Gens
    BY HookParts
  <2>2. CASE hooks' = [hooks EXCEPT ![x.plugin][Gen(x)] = Retained(hooks[x.plugin][Gen(x)], x)]
    <3> DEFINE kept == Retained(hooks[x.plugin][Gen(x)], x)
    <3>1. kept \in Seq(Hook) /\ Range(kept) \subseteq Hookable
      BY <1>2
    <3>2. \A m \in Plugins, k \in Gens :
            hooks'[m][k] = IF m = x.plugin /\ k = Gen(x) THEN kept ELSE hooks[m][k]
      <4> HIDE DEF kept
      <4>1. hooks' = [hooks EXCEPT ![x.plugin][Gen(x)] = kept]
        BY <2>2 DEF kept
      <4> QED
        BY <1>1, <1>2, <3>1, <4>1, ListReplaced
    <3> QED
      BY <1>2, <2>1, <3>2
  <2> QED
    BY <1>3, <2>2
<1>5. \A op, y : Pending(op, y) => Pending(op, y)'
  BY <1>1, <1>2, <1>3, CallsLeavePending
<1>6. IsHooked(h)' => IsHooked(h)
  BY <1>1, <1>2, <1>3, RemoveUnhooks
<1>7. IsHooked(h)' /\ Known(h) => Known(h)'
  BY <1>3, <1>5 DEF Known, UpdateStrays
<1>8. IsHooked(h)' /\ h = x => Known(h)'
  <2>1. IsHooked(h)' /\ h = x => Locked(x.event)
    BY <1>1, <1>2, <1>3, RemoveUnhooks
  <2> QED
    BY <1>1, <1>2, <1>3, <2>1, CallsLeavePending DEF Known
<1>9. Listed(h) /\ h # x => Listed(h)'
  BY <1>3, <1>4, JobsStand DEF Listed, Gen
<1>10. \A u \in Threads : jobs'[u] = jobs[u]
  BY <1>3, JobsStand
<1> QED
  BY <1>6, <1>7, <1>8, <1>9, <1>10 DEF Tracked

(* The purge takes the hook off what it has to do, and out of the registry or *)
(* into the queue.                                                            *)
LEMMA PurgeTracked ==
  ASSUME LifecycleSound, LifecycleSound', NEW t \in Threads, PurgeHook(t),
         NEW h \in Hook, Tracked(h)
  PROVE  Tracked(h)'
<1> DEFINE x == Head(Job(t).todo)
<1>1. IInv /\ IInv' /\ LifecycleTypeOK /\ HooksSound
  BY DEF LifecycleSound
<1>2. /\ Job(t) \in Range(jobs[t]) /\ Job(t).stage = "purging"
      /\ x \in Hookable /\ remove_hook(x)
      /\ UpdateStrays({}) /\ UNCHANGED <<frame_tasks, loaded, hooks>>
  BY <1>1, HookPurged
<1>3. PICK new \in Jobs :
        /\ GoesOn(t, {new})
        /\ new.stage = "purging" /\ new.plugin = Job(t).plugin /\ new.gen = Job(t).gen
        /\ Range(Job(t).todo) = {x} \cup Range(new.todo)
  BY <1>1, HookPurged
<1> HIDE DEF x
<1>4. x \in Hook
  BY <1>2, ConstantsAssumption
<1>5. \A op, y : Pending(op, y) => Pending(op, y)'
  BY <1>1, <1>2, <1>4, CallsLeavePending
<1>6. IsHooked(h)' => IsHooked(h)
  BY <1>1, <1>2, <1>4, RemoveUnhooks
<1>7. IsHooked(h)' /\ Known(h) => Known(h)'
  BY <1>2, <1>5 DEF Known, UpdateStrays
<1>8. IsHooked(h)' /\ h = x => Known(h)'
  <2>1. IsHooked(h)' /\ h = x => Locked(x.event)
    BY <1>1, <1>2, <1>4, RemoveUnhooks
  <2> QED
    BY <1>1, <1>2, <1>4, <2>1, CallsLeavePending DEF Known
<1>9. Listed(h) => Listed(h)'
  <2>1. Alive(h.plugin, Gen(h)) => Alive(h.plugin, Gen(h))'
    BY <1>2, <1>3, AliveStays DEF Gen
  <2> QED
    BY <1>2, <2>1 DEF Listed, Gen
<1>10. ASSUME IsHooked(h)', NEW u \in Threads, NEW j \in Range(jobs'[u]), Purges(j, h)
       PROVE  Known(h)' \/ h \in Range(j.todo)
  <2>1. CASE j \in Range(jobs[u])
    BY <1>6, <1>7, <1>10, <2>1 DEF Tracked
  <2>2. CASE u = t /\ j = new
    <3>1. Known(h) \/ h \in Range(Job(t).todo)
      BY <1>2, <1>3, <1>6, <1>10, <2>2 DEF Tracked, Purges
    <3> QED
      BY <1>3, <1>7, <1>8, <1>10, <2>2, <3>1
  <2> QED
    BY <1>3, <1>10, <2>1, <2>2 DEF GoesOn
<1> QED
  BY <1>6, <1>7, <1>9, <1>10 DEF Tracked

(* The copy of the list has every hook that is listed.                        *)
LEMMA BeginPurgeTracked ==
  ASSUME LifecycleSound, LifecycleSound', NEW t \in Threads, BeginPurge(t),
         NEW h \in Hook, Tracked(h)
  PROVE  Tracked(h)'
<1>1. LifecycleTypeOK /\ HooksSound
  BY DEF LifecycleSound
<1>2. Job(t).stage = "unloading" /\ UNCHANGED <<vars, loaded, hooks, strays>>
  BY <1>1, PurgeBegins
<1>3. PICK new \in SUBSET Jobs :
        /\ GoesOn(t, new)
        /\ \A j \in new : j.stage = "purging" => j.todo = hooks[j.plugin][j.gen]
  BY <1>1, PurgeBegins
<1>4. IsHooked(h)' <=> IsHooked(h)
  BY <1>2 DEF vars, IsHooked, Level
<1>5. Known(h)' <=> Known(h)
  BY <1>2 DEF vars, Known, Pending
<1>6. Listed(h) => Listed(h)'
  <2>1. Alive(h.plugin, Gen(h)) => Alive(h.plugin, Gen(h))'
    BY <1>2, <1>3, AliveStays DEF Gen
  <2> QED
    BY <1>2, <2>1 DEF Listed, Gen
<1>7. ASSUME IsHooked(h), NEW u \in Threads, NEW j \in Range(jobs'[u]), Purges(j, h)
      PROVE  Known(h) \/ h \in Range(j.todo)
  <2>1. CASE j \in Range(jobs[u])
    BY <1>7, <2>1 DEF Tracked
  <2>2. CASE j \in new
    BY <1>3, <1>7, <2>2 DEF Tracked, Purges, Listed
  <2> QED
    BY <1>3, <1>7, <2>1, <2>2 DEF GoesOn
<1> QED
  BY <1>4, <1>5, <1>6, <1>7 DEF Tracked

(* The purge is done with its list; an instance loaded meanwhile is pushed    *)
(* out, and its hooks are strays.                                             *)
LEMMA EndPurgeTracked ==
  ASSUME LifecycleSound, LifecycleSound', NEW t \in Threads, EndPurge(t),
         NEW h \in Hook, Tracked(h)
  PROVE  Tracked(h)'
<1> DEFINE n == Job(t).plugin
           g == Job(t).gen
<1>1. LifecycleTypeOK /\ HooksSound
  BY DEF LifecycleSound
<1>2. /\ Job(t) \in Range(jobs[t]) /\ Job(t).stage = "purging" /\ Range(Job(t).todo) = {}
      /\ n \in Plugins /\ loaded' = [loaded EXCEPT ![n] = 0]
      /\ UpdateStrays(Displaced(n, g)) /\ UNCHANGED <<vars, hooks>>
  BY <1>1, PurgeEnds
<1>3. PICK new \in SUBSET Jobs : GoesOn(t, new) /\ \A j \in new : j.stage = "constructing"
  BY <1>1, PurgeEnds
<1>4. loaded \in [Plugins -> 0 .. MaxGen] /\ h.plugin \in Plugins /\ Gen(h) \in Gens
  BY <1>1, HookParts DEF LifecycleTypeOK
<1>5. IsHooked(h)' <=> IsHooked(h)
  BY <1>2 DEF vars, IsHooked, Level
<1>6. IsHooked(h)' /\ Known(h) => Known(h)'
  BY <1>2 DEF vars, Known, Pending, UpdateStrays
<1>7. ASSUME IsHooked(h)', Listed(h)
      PROVE  Known(h)' \/ Listed(h)'
  <2>1. CASE h.plugin # n
    <3>1. loaded'[h.plugin] = loaded[h.plugin]
      BY <1>2, <1>4, <2>1
    <3>2. Alive(h.plugin, Gen(h))'
      BY <1>2, <1>3, <1>7, <3>1, AliveStays DEF Listed, Gen
    <3> QED
      BY <1>2, <1>7, <3>2 DEF Listed, Gen
  <2>2. CASE h.plugin = n /\ Gen(h) = g
    <3>1. Purges(Job(t), h)
      BY <1>2, <2>2 DEF Purges
    <3>2. Known(h)
      BY <1>2, <1>5, <1>7, <3>1 DEF Tracked
    <3> QED
      BY <1>6, <1>7, <3>2
  <2>3. CASE h.plugin = n /\ Gen(h) # g /\ Constructing(h.plugin, Gen(h))
    <3>1. Constructing(h.plugin, Gen(h))'
      <4>1. PICK u \in Threads : \E j \in Range(jobs[u]) :
              j.stage = "constructing" /\ j.plugin = h.plugin /\ j.gen = Gen(h)
        BY <2>3 DEF Constructing
      <4>2. \A j \in Range(jobs[u]) : j.stage = "constructing" => j \in Range(jobs'[u])
        BY <1>2, <1>3 DEF GoesOn
      <4> QED
        BY <4>1, <4>2 DEF Constructing, Gen
    <3> QED
      BY <1>2, <1>7, <2>3, <3>1 DEF Listed, Alive, Constructing, Gen
  <2>4. CASE h.plugin = n /\ Gen(h) # g /\ ~Constructing(h.plugin, Gen(h))
    <3>1. loaded[n] = Gen(h)
      BY <1>7, <2>4 DEF Listed, Alive
    <3>2. loaded[n] \notin {0, g}
      BY <1>4, <2>4, <3>1 DEF Gens
    <3>3. h \in Displaced(n, g)
      BY <1>7, <2>4, <3>1, <3>2 DEF Displaced, Listed
    <3> QED
      BY <1>2, <1>7, <3>3 DEF Known, UpdateStrays
  <2> QED
    BY <2>1, <2>2, <2>3, <2>4
<1>8. \A u \in Threads : \A j \in Range(jobs'[u]) : Purges(j, h) => j \in Range(jobs[u])
  BY <1>3 DEF GoesOn, Purges
<1> QED
  BY <1>5, <1>6, <1>7, <1>8 DEF Tracked

(* The constructor is done: its instance is the loaded one and pushes out     *)
(* another, or the constructor raised and what it hooked is stray.            *)
LEMMA ConstructionTracked ==
  ASSUME LifecycleSound, LifecycleSound', NEW t \in Threads,
         Constructed(t) \/ ConstructorFails(t), NEW h \in Hook, Tracked(h)
  PROVE  Tracked(h)'
<1> DEFINE n == Job(t).plugin
           g == Job(t).gen
<1>1. LifecycleTypeOK /\ HooksSound
  BY DEF LifecycleSound
<1>2. /\ Job(t).stage = "constructing" /\ n \in Plugins
      /\ GoesOn(t, {}) /\ UNCHANGED <<vars, hooks>>
      /\ \/ loaded' = [loaded EXCEPT ![n] = g] /\ UpdateStrays(Displaced(n, g))
         \/ UNCHANGED loaded /\ UpdateStrays(Range(hooks[n][g]))
  BY <1>1, ConstructionEnds
<1>3. loaded \in [Plugins -> 0 .. MaxGen] /\ h.plugin \in Plugins /\ Gen(h) \in Gens
  BY <1>1, HookParts DEF LifecycleTypeOK
<1>4. IsHooked(h)' <=> IsHooked(h)
  BY <1>2 DEF vars, IsHooked, Level
<1>5. IsHooked(h)' /\ Known(h) => Known(h)'
  BY <1>2 DEF vars, Known, Pending, UpdateStrays
<1>6. ASSUME IsHooked(h)', Listed(h)
      PROVE  Known(h)' \/ Listed(h)'
  <2>1. CASE \E u \in Threads : \E j \in Range(jobs'[u]) :
               j.stage = "constructing" /\ j.plugin = h.plugin /\ j.gen = Gen(h)
    <3>1. Constructing(h.plugin, Gen(h))'
      BY <2>1 DEF Constructing, Gen
    <3> QED
      BY <1>2, <1>6, <3>1 DEF Listed, Alive, Constructing, Gen
  <2>2. CASE h.plugin = n /\ Gen(h) = g
    <3>1. CASE loaded' = [loaded EXCEPT ![n] = g]
      <4>1. loaded'[h.plugin] = Gen(h)
        BY <1>2, <1>3, <2>2, <3>1
      <4> QED
        BY <1>2, <1>6, <4>1 DEF Listed, Alive, Constructing, Gen
    <3>2. CASE UpdateStrays(Range(hooks[n][g]))
      BY <1>6, <2>2, <3>2 DEF Known, UpdateStrays, Listed
    <3> QED
      BY <1>2, <3>1, <3>2
  <2>3. CASE loaded[h.plugin] = Gen(h) /\ ~(h.plugin = n /\ Gen(h) = g)
    <3>1. CASE h.plugin = n /\ UpdateStrays(Displaced(n, g))
      <4>1. loaded[n] \notin {0, g}
        BY <1>3, <2>3, <3>1 DEF Gens
      <4>2. h \in Displaced(n, g)
        BY <1>6, <2>3, <3>1, <4>1 DEF Displaced, Listed
      <4> QED
        BY <1>6, <3>1, <4>2 DEF Known, UpdateStrays
    <3>2. CASE loaded'[h.plugin] = loaded[h.plugin]
      BY <1>2, <1>6, <2>3, <3>2 DEF Listed, Alive, Constructing, Gen
    <3> QED
      BY <1>2, <1>3, <3>1, <3>2
  <2>4. CASE Constructing(h.plugin, Gen(h)) /\ ~(h.plugin = n /\ Gen(h) = g)
    <3>1. PICK u \in Threads : \E j \in Range(jobs[u]) :
            j.stage = "constructing" /\ j.plugin = h.plugin /\ j.gen = Gen(h)
      BY <2>4 DEF Constructing
    <3>2. \A j \in Range(jobs[u]) : j.plugin = h.plugin /\ j.gen = Gen(h) => j \in Range(jobs'[u])
      BY <1>2, <2>4 DEF GoesOn
    <3> QED
      BY <2>1, <3>1, <3>2
  <2> QED
    BY <1>6, <2>2, <2>3, <2>4 DEF Listed, Alive
<1>7. \A u \in Threads : Range(jobs'[u]) \subseteq Range(jobs[u])
  BY <1>2 DEF GoesOn
<1> QED
  BY <1>4, <1>5, <1>6, <1>7 DEF Tracked

(* A load or an unload that begins, by its dispatch or its constructor.       *)
LEMMA BeginTracked ==
  ASSUME LifecycleSound, LifecycleSound', NEW t \in Threads, NEW n \in Plugins,
         LoadOrReload(t, n) \/ Unload(t, n), NEW h \in Hook, Tracked(h)
  PROVE  Tracked(h)'
<1>1. IInv /\ LifecycleTypeOK
  BY DEF LifecycleSound
<1>2. /\ UNCHANGED <<loaded, hooks, strays>>
      /\ StartDispatch(t, UnloadEvent) \/ UNCHANGED vars
  BY <1>1, JobBegins
<1>3. PICK new \in Jobs : Begun(t, new) /\ new.stage \in {"unloading", "constructing"}
  BY <1>1, JobBegins
<1>4. UNCHANGED <<plugins, next_frame_tasks, frame_tasks>>
  BY <1>2 DEF StartDispatch, vars
<1>5. (IsHooked(h)' <=> IsHooked(h)) /\ (Known(h)' <=> Known(h))
  BY <1>2, <1>4 DEF IsHooked, Level, Known, Pending
<1>6. \A u \in Threads : Range(jobs[u]) \subseteq Range(jobs'[u])
  BY <1>3 DEF Begun
<1>7. Listed(h) => Listed(h)'
  <2>1. Alive(h.plugin, Gen(h)) => Alive(h.plugin, Gen(h))'
    BY <1>2, <1>6 DEF Alive, Constructing, Gen
  <2> QED
    BY <1>2, <2>1 DEF Listed, Gen
<1>8. \A u \in Threads : \A j \in Range(jobs'[u]) : Purges(j, h) => j \in Range(jobs[u])
  BY <1>3 DEF Begun, Purges
<1> QED
  BY <1>5, <1>7, <1>8 DEF Tracked

(* A call that was put off: a hook it registers is on the list of an instance *)
(* that is alive and not being purged, or it is a stray; a removal goes       *)
(* through, or is put off again.                                              *)
LEMMA TaskTracked ==
  ASSUME LifecycleSound, LifecycleSound', RunsTask, NEW h \in Hook, Tracked(h)
  PROVE  Tracked(h)'
<1> DEFINE task == Head(frame_tasks)
           x == task.hook
<1>1. IInv /\ IInv' /\ frame_tasks \in Seq(Task) /\ frame_tasks # <<>>
  BY DEF LifecycleSound, IInv, TypeOK, RunsTask, RunTask
<1>2. /\ task \in Task /\ Range(frame_tasks) = {task} \cup Range(frame_tasks')
  BY <1>1, HeadRange DEF RunsTask, RunTask
<1>3. /\ x \in Hook
      /\ \/ task.op = "add_hook" /\ add_hook(x)
         \/ task.op = "remove_hook" /\ remove_hook(x)
      /\ UpdateStrays(IF BehindUnload(x) \/ x \notin Range(hooks[x.plugin][Gen(x)])
                      THEN {x} ELSE {})
      /\ UNCHANGED <<loaded, hooks, jobs>>
  BY <1>2 DEF RunsTask, RunTask, Task, lifecycleVars
<1>4. task = [op |-> task.op, hook |-> x]
  BY <1>2 DEF Task
<1> HIDE DEF x, task
<1>5. Known(h) /\ IsHooked(h)' => Known(h)'
  <2>1. CASE h \in strays
    BY <1>3, <2>1 DEF Known, UpdateStrays
  <2>2. CASE Has(next_frame_tasks, "remove_hook", h)
    <3>1. Has(next_frame_tasks', "remove_hook", h)
      BY <1>1, <1>3, <2>2, CallsPending
    <3> QED
      BY <1>1, <3>1, PendingInQueues DEF Known
  <2>3. CASE Has(frame_tasks, "remove_hook", h) /\ Has(frame_tasks', "remove_hook", h)
    BY <1>1, <2>3, PendingInQueues DEF Known
  <2>4. CASE Has(frame_tasks, "remove_hook", h) /\ ~Has(frame_tasks', "remove_hook", h)
    <3>1. task = [op |-> "remove_hook", hook |-> h]
      BY <1>2, <2>4 DEF Has
    <3>2. task.op = "remove_hook" /\ x = h
      BY <1>4, <3>1 DEF x
    <3>3. remove_hook(h)
      BY <1>3, <3>2
    <3>4. IsHooked(h)' => Locked(h.event)
      BY <1>1, <3>3, RemoveUnhooks
    <3>5. Locked(h.event) => Has(next_frame_tasks', "remove_hook", h)
      BY <1>1, <3>3, CallsPending
    <3> QED
      BY <1>1, <3>4, <3>5, PendingInQueues DEF Known
  <2> QED
    BY <1>1, <2>1, <2>2, <2>3, <2>4, PendingInQueues DEF Known
<1>6. CASE IsHooked(h)' => IsHooked(h)
  <2>1. Listed(h) => Listed(h)'
    BY <1>3, JobsStand DEF Listed, Gen
  <2>2. \A u \in Threads : jobs'[u] = jobs[u]
    BY <1>3, JobsStand
  <2> QED
    BY <1>5, <1>6, <2>1, <2>2 DEF Tracked
<1>7. CASE IsHooked(h)' /\ ~IsHooked(h)
  <2>1. h = x
    BY <1>1, <1>3, <1>7, AddHooks, RemoveUnhooks
  <2>2. CASE BehindUnload(h) \/ h \notin Range(hooks[h.plugin][Gen(h)])
    BY <1>3, <1>7, <2>1, <2>2 DEF Tracked, Known, UpdateStrays
  <2>3. CASE ~(BehindUnload(h) \/ h \notin Range(hooks[h.plugin][Gen(h)]))
    <3>1. /\ Alive(h.plugin, Gen(h))'
          /\ \A u \in Threads : \A j \in Range(jobs'[u]) : ~Purges(j, h)
      BY <1>3, <2>3, JobsStand
    <3>2. Listed(h)'
      BY <1>3, <2>3, <3>1 DEF Listed, Gen
    <3> QED
      BY <3>1, <3>2 DEF Tracked
  <2> QED
    BY <2>2, <2>3
<1> QED
  BY <1>6, <1>7

(* Frames and dispatches move calls from queue to queue, and lose none.       *)
LEMMA OtherTracked ==
  ASSUME LifecycleSound, LifecycleSound', NEW t \in Threads,
         OtherFrameStep \/ OtherDispatchStep(t), NEW h \in Hook, Tracked(h)
  PROVE  Tracked(h)'
<1>1. IInv /\ IInv'
  BY DEF LifecycleSound
<1>2. UNCHANGED <<plugins, loaded, hooks, jobs, strays>>
  <2>1. CASE OtherFrameStep
    BY <2>1 DEF OtherFrameStep, lifecycleVars, BeginFrame, DispatchFrame, TransferNextFrameTasks
  <2>2. CASE OtherDispatchStep(t)
    BY <1>1, <2>2, DispatchStacks DEF OtherDispatchStep, lifecycleVars
  <2> QED
    BY <2>1, <2>2
<1>3. Pending("remove_hook", h) => Pending("remove_hook", h)'
  <2>1. CASE UNCHANGED <<next_frame_tasks, frame_tasks>>
    BY <2>1 DEF Pending
  <2>2. CASE TransferNextFrameTasks
    <3>1. Range(frame_tasks') = Range(frame_tasks) \cup Range(next_frame_tasks)
      BY <1>1, <2>2, ConcatRange DEF IInv, TypeOK, TransferNextFrameTasks
    <3> QED
      BY <1>1, <3>1, PendingInQueues DEF Has
  <2>3. CASE OtherDispatchStep(t)
    BY <1>1, <2>1, <2>3, DispatchStacks DEF OtherDispatchStep
  <2> QED
    BY <2>1, <2>2, <2>3 DEF OtherFrameStep, BeginFrame, DispatchFrame
<1>4. (IsHooked(h)' <=> IsHooked(h)) /\ (Known(h) => Known(h)')
  BY <1>2, <1>3 DEF IsHooked, Level, Known
<1>5. Listed(h) => Listed(h)'
  BY <1>2, JobsStand DEF Listed, Gen
<1>6. \A u \in Threads : jobs'[u] = jobs[u]
  BY <1>2, JobsStand
<1> QED
  BY <1>4, <1>5, <1>6 DEF Tracked

(* A step of anybody.                                                         *)
LEMMA TrackedKept ==
  ASSUME LifecycleSound, LifecycleSound', [LifecycleNext]_allVars, NEW h \in Hook, Tracked(h)
  PROVE  Tracked(h)'
<1>1. ASSUME NEW t \in Threads, NEW x \in Hookable, InstanceAddsHook(t, x) \/ InstanceRemovesHook(t, x)
      PROVE  Tracked(h)'
  BY <1>1, AddTracked, RemoveTracked
<1>2. ASSUME NEW t \in Threads, NEW n \in Plugins, LoadOrReload(t, n) \/ Unload(t, n)
      PROVE  Tracked(h)'
  BY <1>2, BeginTracked
<1>3. ASSUME NEW t \in Threads,
             BeginPurge(t) \/ PurgeHook(t) \/ EndPurge(t) \/ Constructed(t) \/ ConstructorFails(t)
      PROVE  Tracked(h)'
  BY <1>3, BeginPurgeTracked, PurgeTracked, EndPurgeTracked, ConstructionTracked
<1>4. CASE RunsTask
  BY <1>4, TaskTracked
<1>5. CASE OtherFrameStep
  BY <1>5, OtherTracked, ConstantsAssumption
<1>6. ASSUME NEW t \in Threads, OtherDispatchStep(t)
      PROVE  Tracked(h)'
  BY <1>6, OtherTracked
<1>7. CASE UNCHANGED allVars
  <2>1. UNCHANGED <<plugins, next_frame_tasks, frame_tasks, loaded, hooks, jobs, strays>>
    BY <1>7 DEF allVars, vars, lifecycleVars
  <2> QED
    BY <2>1 DEF Tracked, IsHooked, Level, Known, Pending, Listed, Purges, Alive, Constructing, Gen
<1> QED
  BY <1>1, <1>2, <1>3, <1>4, <1>5, <1>6, <1>7 DEF LifecycleNext

LEMMA HooksStayTracked == LifecycleSpec => [](\A h \in Hook : Tracked(h))
<1>1. LifecycleInit => \A h \in Hook : Tracked(h)
  <2>1. ASSUME LifecycleInit, NEW h \in Hook
        PROVE  ~IsHooked(h)
    <3>1. Level(h) = <<>>
      BY <2>1 DEF LifecycleInit, Init, EmptyVector, Level, Hook
    <3> QED
      BY <3>1 DEF IsHooked, Range
  <2> QED
    BY <2>1 DEF Tracked
<1>2. LifecycleSound /\ LifecycleSound' /\ [LifecycleNext]_allVars
        /\ (\A h \in Hook : Tracked(h)) => (\A h \in Hook : Tracked(h))'
  BY TrackedKept
<1> QED
  BY <1>1, <1>2, LifecycleStaysSound, PTL DEF LifecycleSpec

(* Unloading purges, whatever is reloaded, unloaded, hooked and unhooked on   *)
(* other threads, inside the handlers of the unload event and by constructors *)
(* meanwhile.                                                                 *)
THEOREM UnloadingPurges == LifecycleSpec => []UnloadPurges
<1>1. (\A h \in Hook : Tracked(h)) => UnloadPurges
  BY ConstantsAssumption DEF Tracked, Known, Listed, UnloadPurges
<1> QED
  BY <1>1, HooksStayTracked, PTL

=============================================================================

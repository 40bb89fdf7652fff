----------------------- MODULE EventDispatcherProofs -----------------------
(***************************************************************************)
(* Theorems about the hook registry, for any threads, events, plugins,     *)
(* handlers, priority levels and bounds.                                   *)
(***************************************************************************)
EXTENDS EventDispatcher, SequenceTheorems, TLAPS

(***************************************************************************)
(* Sequences without repetition.                                           *)
(***************************************************************************)

(* What RemoveAt leaves, element by element. *)
LEMMA RemoveAtElements ==
  ASSUME NEW S, NEW s \in Seq(S), NEW k \in DOMAIN s
  PROVE  /\ RemoveAt(s, k) \in Seq(S)
         /\ Len(RemoveAt(s, k)) = Len(s) - 1
         /\ \A i \in 1 .. Len(s) - 1 :
              RemoveAt(s, k)[i] = IF i < k THEN s[i] ELSE s[i + 1]
  <1>1. k \in 1 .. Len(s) /\ Len(s) \in Nat
    OBVIOUS
  <1> DEFINE front == SubSeq(s, 1, k - 1)
             back == SubSeq(s, k + 1, Len(s))
  <1>2. front \in Seq(S) /\ Len(front) = k - 1
        /\ \A i \in 1 .. k - 1 : front[i] = s[i]
    BY <1>1
  <1>3. back \in Seq(S) /\ Len(back) = Len(s) - k
        /\ \A i \in 1 .. Len(s) - k : back[i] = s[k + i]
    BY <1>1
  <1>4. RemoveAt(s, k) = front \o back
    BY DEF RemoveAt
  <1> HIDE DEF front, back
  <1>5. front \o back \in Seq(S) /\ Len(front \o back) = Len(s) - 1
    BY <1>1, <1>2, <1>3, ConcatProperties
  <1>6. ASSUME NEW i \in 1 .. Len(s) - 1
        PROVE  (front \o back)[i] = IF i < k THEN s[i] ELSE s[i + 1]
    <2>1. (front \o back)[i] = IF i <= k - 1 THEN front[i] ELSE back[i - (k - 1)]
      BY <1>1, <1>2, <1>3, ConcatProperties
    <2>2. CASE i < k
      BY <1>1, <1>2, <2>1, <2>2
    <2>3. CASE ~(i < k)
      <3>1. i - (k - 1) \in 1 .. Len(s) - k /\ k + (i - (k - 1)) = i + 1
        BY <1>1, <2>3
      <3>2. QED
        BY <1>1, <1>3, <2>1, <2>3, <3>1
    <2>4. QED
      BY <2>2, <2>3
  <1>7. QED
    BY <1>4, <1>5, <1>6

(* Dropping one element keeps a sequence free of repetition. *)
LEMMA RemoveAtInjective ==
  ASSUME NEW S, NEW s \in Seq(S), NEW k \in DOMAIN s, IsInjective(s)
  PROVE  IsInjective(RemoveAt(s, k))
  <1> DEFINE r == RemoveAt(s, k)
  <1>1. r \in Seq(S) /\ Len(r) = Len(s) - 1 /\ k \in 1 .. Len(s)
        /\ \A i \in 1 .. Len(s) - 1 : r[i] = IF i < k THEN s[i] ELSE s[i + 1]
    BY RemoveAtElements
  <1> HIDE DEF r
  <1>2. \A i, j \in 1 .. Len(s) : s[i] = s[j] => i = j
    BY DEF IsInjective
  <1>3. \A i, j \in 1 .. Len(r) : r[i] = r[j] => i = j
    BY <1>1, <1>2
  <1>4. IsInjective(r)
    BY <1>1, <1>3 DEF IsInjective
  <1>5. QED
    BY <1>4 DEF r

(* Appending an element that is not there keeps a sequence free of repetition. *)
LEMMA AppendInjectiveSeq ==
  ASSUME NEW S, NEW s \in Seq(S), NEW x \in S, IsInjective(s), x \notin Range(s)
  PROVE  IsInjective(Append(s, x))
  <1>1. \A i \in 1 .. Len(s) : s[i] # x
    BY DEF Range
  <1>2. \A i, j \in 1 .. Len(s) : s[i] = s[j] => i = j
    BY DEF IsInjective
  <1>3. DOMAIN Append(s, x) = 1 .. Len(s) + 1
    OBVIOUS
  <1>4. \A i, j \in 1 .. Len(s) + 1 : Append(s, x)[i] = Append(s, x)[j] => i = j
    BY <1>1, <1>2
  <1>5. QED
    BY <1>3, <1>4 DEF IsInjective

(* Range grows by what is appended. *)
LEMMA AppendRange ==
  ASSUME NEW S, NEW s \in Seq(S), NEW x \in S
  PROVE  Range(Append(s, x)) = Range(s) \cup {x}
  <1>1. DOMAIN Append(s, x) = 1 .. Len(s) + 1 /\ DOMAIN s = 1 .. Len(s) /\ Len(s) \in Nat
    OBVIOUS
  <1>2. \A i \in 1 .. Len(s) : Append(s, x)[i] = s[i]
    OBVIOUS
  <1>3. Append(s, x)[Len(s) + 1] = x
    OBVIOUS
  <1>4. QED
    BY <1>1, <1>2, <1>3 DEF Range

(* A function on 1 .. n is a sequence of length n. *)
LEMMA FunctionIsSeq ==
  ASSUME NEW S, NEW n \in Nat, NEW f \in [1 .. n -> S]
  PROVE  f \in Seq(S) /\ Len(f) = n
  OBVIOUS

(* Range shrinks by what is removed when nothing is repeated. *)
LEMMA RemoveAtRange ==
  ASSUME NEW S, NEW s \in Seq(S), NEW k \in DOMAIN s, IsInjective(s)
  PROVE  Range(RemoveAt(s, k)) = Range(s) \ {s[k]}
  <1> DEFINE r == RemoveAt(s, k)
  <1>1. r \in Seq(S) /\ Len(r) = Len(s) - 1 /\ k \in 1 .. Len(s) /\ Len(s) \in Nat
        /\ \A i \in 1 .. Len(s) - 1 : r[i] = IF i < k THEN s[i] ELSE s[i + 1]
    BY RemoveAtElements
  <1> HIDE DEF r
  <1>2. DOMAIN s = 1 .. Len(s) /\ DOMAIN r = 1 .. Len(s) - 1
    BY <1>1
  <1>3. \A i, j \in 1 .. Len(s) : s[i] = s[j] => i = j
    BY <1>2 DEF IsInjective
  <1>4. ASSUME NEW i \in 1 .. Len(s) - 1
        PROVE  r[i] \in Range(s) /\ r[i] # s[k]
    BY <1>1, <1>2, <1>3 DEF Range
  <1>5. ASSUME NEW j \in 1 .. Len(s), j # k
        PROVE  \E i \in 1 .. Len(s) - 1 : r[i] = s[j]
    <2>1. CASE j < k
      BY <1>1, <2>1
    <2>2. CASE ~(j < k)
      <3>1. j - 1 \in 1 .. Len(s) - 1 /\ ~(j - 1 < k) /\ (j - 1) + 1 = j
        BY <1>1, <1>5, <2>2
      <3>2. r[j - 1] = s[j]
        BY <1>1, <3>1
      <3>3. QED
        BY <3>1, <3>2
    <2>3. QED
      BY <2>1, <2>2
  <1>6. Range(r) \subseteq Range(s) \ {s[k]}
    BY <1>2, <1>4 DEF Range
  <1>7. Range(s) \ {s[k]} \subseteq Range(r)
    BY <1>2, <1>5 DEF Range
  <1>8. QED
    BY <1>6, <1>7 DEF r

-----------------------------------------------------------------------------
(***************************************************************************)
(* The two ways a vector changes.                                          *)
(***************************************************************************)

(* A hook that is not there can be inserted. *)
LEMMA InsertGood ==
  ASSUME plugins \in [Events -> Vector], RegistryWellFormed,
         NEW h \in Hook, ~IsHooked(h)
  PROVE  /\ Insert(h) \in [Events -> Vector]
         /\ \A e \in Events : WellFormed(Insert(h)[e])
  <1> DEFINE e == h.event  n == h.plugin  i == h.priority
             v == plugins[e]
             order == IF n \in Range(v.order) THEN v.order ELSE Append(v.order, n)
             level == Append(v.hooks[n][i], h.handler)
             hooks == [v.hooks EXCEPT ![n][i] = level]
             w == [order |-> order, hooks |-> hooks]
  <1>1. e \in Events /\ n \in Plugins /\ i \in Priorities /\ h.handler \in Handlers
    BY DEF Hook
  <1>2. v.order \in Seq(Plugins) /\ v.hooks \in [Plugins -> [Priorities -> Seq(Handlers)]]
    BY <1>1 DEF Vector
  <1>3. Insert(h) = [plugins EXCEPT ![e] = w]
    BY DEF Insert, Store, Level
  <1>4. v.hooks[n][i] \in Seq(Handlers) /\ h.handler \notin Range(v.hooks[n][i])
    BY <1>1, <1>2 DEF IsHooked, Level
  <1>5. WellFormed(v)
    BY <1>1 DEF RegistryWellFormed
  <1>6. order \in Seq(Plugins) /\ IsInjective(order) /\ Range(order) = Range(v.order) \cup {n}
    <2>1. CASE n \in Range(v.order)
      BY <1>2, <1>5, <2>1 DEF WellFormed
    <2>2. CASE n \notin Range(v.order)
      BY <1>1, <1>2, <1>5, <2>2, AppendInjectiveSeq, AppendRange DEF WellFormed
    <2>3. QED
      BY <2>1, <2>2
  <1>7. level \in Seq(Handlers) /\ IsInjective(level)
    BY <1>1, <1>4, <1>5, AppendInjectiveSeq DEF WellFormed
  <1> HIDE DEF order, level
  <1>8. hooks \in [Plugins -> [Priorities -> Seq(Handlers)]]
    BY <1>1, <1>2, <1>7
  <1>9. \A m \in Plugins, j \in Priorities :
          hooks[m][j] = IF m = n /\ j = i THEN level ELSE v.hooks[m][j]
    BY <1>1, <1>2
  <1> HIDE DEF hooks
  <1>10. w \in Vector
    BY <1>6, <1>8 DEF Vector
  <1>11. WellFormed(w)
    <2>1. IsInjective(w.order)
      BY <1>6
    <2>2. ASSUME NEW m \in Plugins, NEW j \in Priorities
          PROVE  /\ IsInjective(w.hooks[m][j])
                 /\ w.hooks[m][j] # <<>> => m \in Range(w.order)
      BY <1>5, <1>6, <1>7, <1>9 DEF WellFormed
    <2>3. QED
      BY <2>1, <2>2 DEF WellFormed
  <1> HIDE DEF w, v, e, n, i
  <1>12. QED
    BY <1>1, <1>3, <1>10, <1>11 DEF RegistryWellFormed

(* A hook that is there can be deleted. *)
LEMMA DeleteGood ==
  ASSUME plugins \in [Events -> Vector], RegistryWellFormed,
         NEW h \in Hook, IsHooked(h)
  PROVE  /\ Delete(h) \in [Events -> Vector]
         /\ \A e \in Events : WellFormed(Delete(h)[e])
  <1> DEFINE e == h.event  n == h.plugin  i == h.priority
             v == plugins[e]
             k == CHOOSE x \in DOMAIN v.hooks[n][i] : v.hooks[n][i][x] = h.handler
             level == RemoveAt(v.hooks[n][i], k)
             hooks == [v.hooks EXCEPT ![n][i] = level]
             w == [order |-> v.order, hooks |-> hooks]
  <1>1. e \in Events /\ n \in Plugins /\ i \in Priorities /\ h.handler \in Handlers
    BY DEF Hook
  <1>2. v.order \in Seq(Plugins) /\ v.hooks \in [Plugins -> [Priorities -> Seq(Handlers)]]
    BY <1>1 DEF Vector
  <1>3. Delete(h) = [plugins EXCEPT ![e] = w]
    BY DEF Delete, Store, Level
  <1>3a. v.hooks[n][i] \in Seq(Handlers)
    BY <1>1, <1>2
  <1>4. v.hooks[n][i] \in Seq(Handlers) /\ k \in DOMAIN v.hooks[n][i]
    <2>2. \E x \in DOMAIN v.hooks[n][i] : v.hooks[n][i][x] = h.handler
      BY DEF IsHooked, Level, Range
    <2>3. QED
      BY <1>3a, <2>2
  <1>5. WellFormed(v)
    BY <1>1 DEF RegistryWellFormed
  <1>6. v.hooks[n][i] # <<>>
    <2>1. DOMAIN v.hooks[n][i] # {}
      BY <1>4
    <2>2. DOMAIN v.hooks[n][i] = 1 .. Len(v.hooks[n][i])
      BY <1>3a
    <2>3. QED
      BY <2>1, <2>2, EmptySeq
  <1> HIDE DEF k
  <1>7. level \in Seq(Handlers) /\ IsInjective(level)
    BY <1>1, <1>4, <1>5, RemoveAtElements, RemoveAtInjective DEF WellFormed
  <1> HIDE DEF level
  <1>8. hooks \in [Plugins -> [Priorities -> Seq(Handlers)]]
    BY <1>1, <1>2, <1>7
  <1>9. \A m \in Plugins, j \in Priorities :
          hooks[m][j] = IF m = n /\ j = i THEN level ELSE v.hooks[m][j]
    BY <1>1, <1>2
  <1> HIDE DEF hooks
  <1>10. w \in Vector
    BY <1>2, <1>8 DEF Vector
  <1>11. WellFormed(w)
    BY <1>1, <1>5, <1>6, <1>7, <1>9 DEF WellFormed
  <1> HIDE DEF w, v, e, n, i
  <1>12. QED
    BY <1>1, <1>3, <1>10, <1>11 DEF RegistryWellFormed

-----------------------------------------------------------------------------
(***************************************************************************)
(* The inductive invariant: the types and the shape of the vectors.  Each  *)
(* needs the other, for only a hook that is there has a place to delete.   *)
(***************************************************************************)
IInv == TypeOK /\ RegistryWellFormed

(* A call of add_hook or remove_hook, direct or from the scheduler, leaves   *)
(* vectors and queue as they should be and touches no vector that is locked. *)
LEMMA HookCalls ==
  ASSUME IInv, NEW h \in Hook, add_hook(h) \/ remove_hook(h)
  PROVE  /\ plugins' \in [Events -> Vector]
         /\ RegistryWellFormed'
         /\ next_frame_tasks' \in Seq(Task)
         /\ \A e \in Events : Locked(e) => plugins'[e] = plugins[e]
  <1>1. plugins \in [Events -> Vector] /\ RegistryWellFormed /\ next_frame_tasks \in Seq(Task)
    BY DEF IInv, TypeOK
  <1>2. CASE Locked(h.event)
    <2>1. UNCHANGED plugins
      BY <1>2 DEF add_hook, remove_hook
    <2>2. \E op \in {"add_hook", "remove_hook"} : Defer(op, h)
      BY <1>2 DEF add_hook, remove_hook
    <2>3. next_frame_tasks' \in Seq(Task)
      BY <1>1, <2>2, AppendProperties DEF Defer, Task
    <2>4. RegistryWellFormed'
      BY <1>1, <2>1 DEF RegistryWellFormed
    <2>5. QED
      BY <1>1, <2>1, <2>3, <2>4
  <1>3. CASE ~Locked(h.event)
    <2>1. UNCHANGED next_frame_tasks
      BY <1>3 DEF add_hook, remove_hook
    <2>2. \/ UNCHANGED plugins
          \/ ~IsHooked(h) /\ plugins' = Insert(h)
          \/ IsHooked(h) /\ plugins' = Delete(h)
      BY <1>3 DEF add_hook, remove_hook, AddRaises, RemoveRaises
    <2>3. CASE UNCHANGED plugins
      BY <1>1, <2>1, <2>3 DEF RegistryWellFormed
    <2>4. CASE ~IsHooked(h) /\ plugins' = Insert(h)
      <3>1. plugins' \in [Events -> Vector] /\ \A e \in Events : WellFormed(plugins'[e])
        BY <1>1, <2>4, InsertGood
      <3>2. RegistryWellFormed'
        BY <3>1 DEF RegistryWellFormed
      <3>3. \A e \in Events : e # h.event => plugins'[e] = plugins[e]
        BY <1>1, <2>4 DEF Insert, Store
      <3>4. QED
        BY <1>1, <1>3, <2>1, <3>1, <3>2, <3>3
    <2>5. CASE IsHooked(h) /\ plugins' = Delete(h)
      <3>1. plugins' \in [Events -> Vector] /\ \A e \in Events : WellFormed(plugins'[e])
        BY <1>1, <2>5, DeleteGood
      <3>2. RegistryWellFormed'
        BY <3>1 DEF RegistryWellFormed
      <3>3. \A e \in Events : e # h.event => plugins'[e] = plugins[e]
        BY <1>1, <2>5 DEF Delete, Store
      <3>4. QED
        BY <1>1, <1>3, <2>1, <3>1, <3>2, <3>3
    <2>6. QED
      BY <2>2, <2>3, <2>4, <2>5
  <1>4. QED
    BY <1>2, <1>3

(* The innermost dispatch of a thread can be replaced or dropped, and a new one *)
(* started, without leaving the type of the stack.                              *)
LEMMA StackOps ==
  ASSUME stack \in [Threads -> Seq(Frame)], NEW t \in Threads
  PROVE  /\ \A e \in Events : Push(t, e) \in [Threads -> Seq(Frame)]
         /\ stack[t] # <<>> =>
              /\ Top(t) \in Frame
              /\ Pop(t) \in [Threads -> Seq(Frame)]
              /\ \A f \in Frame : SetTop(t, f) \in [Threads -> Seq(Frame)]
  <1>1. stack[t] \in Seq(Frame)
    OBVIOUS
  <1>2. ASSUME NEW e \in Events
        PROVE  Push(t, e) \in [Threads -> Seq(Frame)]
    <2>1. [event |-> e, at |-> <<0, 0, 0>>, running |-> FALSE] \in Frame
      BY DEF Frame
    <2>2. QED
      BY <1>1, <2>1, AppendProperties DEF Push
  <1>3. ASSUME stack[t] # <<>>
        PROVE  /\ Top(t) \in Frame
               /\ Pop(t) \in [Threads -> Seq(Frame)]
               /\ \A f \in Frame : SetTop(t, f) \in [Threads -> Seq(Frame)]
    <2>1. Len(stack[t]) \in Nat \ {0}
      BY <1>1, <1>3, EmptySeq
    <2>2. Top(t) \in Frame
      BY <1>1, <2>1 DEF Top
    <2>3. SubSeq(stack[t], 1, Len(stack[t]) - 1) \in Seq(Frame)
      BY <1>1, <2>1
    <2>4. \A f \in Frame : [stack[t] EXCEPT ![Len(stack[t])] = f] \in Seq(Frame)
      BY <1>1, <2>1, ExceptSeq
    <2>5. QED
      BY <2>2, <2>3, <2>4 DEF Pop, SetTop
  <1>4. QED
    BY <1>2, <1>3

(* Positions are triples of numbers. *)
LEMMA PositionsType ==
  ASSUME NEW v \in Vector
  PROVE  Positions(v) \subseteq Nat \X Nat \X Nat
  <1>1. SUFFICES ASSUME NEW i \in Priorities, NEW j \in DOMAIN v.order,
                        NEW k \in DOMAIN v.hooks[v.order[j]][i]
                 PROVE  <<i, j, k>> \in Nat \X Nat \X Nat
    BY DEF Positions
  <1>2. i \in Nat
    BY ConstantsAssumption DEF Priorities
  <1>3. v.order \in Seq(Plugins) /\ v.hooks \in [Plugins -> [Priorities -> Seq(Handlers)]]
    BY DEF Vector
  <1>4. j \in Nat /\ v.order[j] \in Plugins
    BY <1>3
  <1>5. v.hooks[v.order[j]][i] \in Seq(Handlers)
    BY <1>3, <1>4
  <1>6. k \in Nat
    BY <1>5
  <1>7. QED
    BY <1>2, <1>4, <1>6

(* Every step keeps the inductive invariant and the locked vectors. *)
LEMMA Step ==
  ASSUME IInv, [RegistryNext]_vars
  PROVE  /\ IInv'
         /\ \A e \in Events : Locked(e) => plugins'[e] = plugins[e]
  <1> DEFINE Held == \A e \in Events : Locked(e) => plugins'[e] = plugins[e]
  <1>0. /\ plugins \in [Events -> Vector] /\ RegistryWellFormed
        /\ stack \in [Threads -> Seq(Frame)]
        /\ phase \in {"idle", "tasks", "frame"}
        /\ next_frame_tasks \in Seq(Task)
        /\ frame_tasks \in Seq(Task)
    BY DEF IInv, TypeOK
  <1>1. ASSUME NEW t \in Threads, NEW h \in Hookable,
               PluginAddsHook(t, h) \/ PluginRemovesHook(t, h)
        PROVE  IInv' /\ Held
    <2>1. h \in Hook
      BY ConstantsAssumption
    <2>2. add_hook(h) \/ remove_hook(h)
      BY <1>1 DEF PluginAddsHook, PluginRemovesHook
    <2>3. UNCHANGED <<stack, phase, frame_tasks>>
      BY <1>1 DEF PluginAddsHook, PluginRemovesHook
    <2>4. QED
      BY <1>0, <2>1, <2>2, <2>3, HookCalls DEF IInv, TypeOK
  <1>2. ASSUME stack' \in [Threads -> Seq(Frame)], phase' \in {"idle", "tasks", "frame"},
               UNCHANGED <<plugins, next_frame_tasks, frame_tasks>>
        PROVE  IInv' /\ Held
    BY <1>0, <1>2 DEF IInv, TypeOK, RegistryWellFormed
  <1>3. ASSUME NEW t \in Threads, NEW e \in Events, StartDispatch(t, e)
        PROVE  IInv' /\ Held
    BY <1>0, <1>2, <1>3, StackOps DEF StartDispatch
  <1>4. ASSUME NEW t \in Threads, CallNext(t)
        PROVE  IInv' /\ Held
    <2>1. PICK x \in Remaining(Top(t)) :
                 stack' = SetTop(t, [Top(t) EXCEPT !.at = x, !.running = TRUE])
      BY <1>4 DEF CallNext
    <2>2. stack[t] # <<>> /\ Top(t) \in Frame
      BY <1>0, <1>4, StackOps DEF CallNext
    <2>3. x \in Nat \X Nat \X Nat
      BY <1>0, <2>1, <2>2, PositionsType DEF Remaining, Frame
    <2>4. [Top(t) EXCEPT !.at = x, !.running = TRUE] \in Frame
      BY <2>2, <2>3 DEF Frame
    <2>5. stack' \in [Threads -> Seq(Frame)]
      BY <1>0, <2>1, <2>2, <2>4, StackOps
    <2>6. QED
      BY <1>0, <1>2, <1>4, <2>5 DEF CallNext
  <1>5. ASSUME NEW t \in Threads, HandlerContinues(t)
        PROVE  IInv' /\ Held
    <2>1. stack[t] # <<>> /\ Top(t) \in Frame
      BY <1>0, <1>5, StackOps DEF HandlerContinues
    <2>2. [Top(t) EXCEPT !.running = FALSE] \in Frame
      BY <2>1 DEF Frame
    <2>3. stack' \in [Threads -> Seq(Frame)]
      BY <1>0, <1>5, <2>1, <2>2, StackOps DEF HandlerContinues
    <2>4. QED
      BY <1>0, <1>2, <1>5, <2>3 DEF HandlerContinues
  <1>6. ASSUME NEW t \in Threads, HandlerStops(t) \/ FinishDispatch(t)
        PROVE  IInv' /\ Held
    BY <1>0, <1>2, <1>6, StackOps DEF HandlerStops, FinishDispatch
  <1>7. ASSUME BeginFrame
        PROVE  IInv' /\ Held
    BY <1>0, <1>2, <1>7 DEF BeginFrame
  <1>8. ASSUME RunTask
        PROVE  IInv' /\ Held
    <2>0. frame_tasks # <<>>
      BY <1>8 DEF RunTask
    <2>1. Head(frame_tasks) \in Task /\ Tail(frame_tasks) \in Seq(Task)
      BY <1>0, <2>0, HeadTailProperties
    <2>2. add_hook(Head(frame_tasks).hook) \/ remove_hook(Head(frame_tasks).hook)
      BY <1>8 DEF RunTask
    <2>3. Head(frame_tasks).hook \in Hook
      BY <2>1 DEF Task
    <2>4. UNCHANGED <<stack, phase>> /\ frame_tasks' = Tail(frame_tasks)
      BY <1>8 DEF RunTask
    <2>5. QED
      BY <1>0, <2>1, <2>2, <2>3, <2>4, HookCalls DEF IInv, TypeOK
  <1>9. ASSUME DispatchFrame
        PROVE  IInv' /\ Held
    BY <1>0, <1>2, <1>9, StackOps, ConstantsAssumption DEF DispatchFrame
  <1>10. ASSUME TransferNextFrameTasks
         PROVE  IInv' /\ Held
    <2>1. frame_tasks' \in Seq(Task) /\ next_frame_tasks' \in Seq(Task)
      BY <1>0, <1>10, ConcatProperties DEF TransferNextFrameTasks
    <2>2. UNCHANGED <<plugins, stack>> /\ phase' = "idle"
      BY <1>10 DEF TransferNextFrameTasks
    <2>3. QED
      BY <1>0, <2>1, <2>2 DEF IInv, TypeOK, RegistryWellFormed
  <1>11. ASSUME NEW t \in Threads, RunCommands(t)
         PROVE  IInv' /\ Held
    <2>1. stack[t] # <<>> /\ Top(t) \in Frame
      BY <1>0, <1>11, StackOps DEF RunCommands
    <2>2. <<NumPriorities, 0, 0>> \in Nat \X Nat \X Nat
      BY ConstantsAssumption
    <2>3. [Top(t) EXCEPT !.at = <<NumPriorities, 0, 0>>, !.running = TRUE] \in Frame
      BY <2>1, <2>2 DEF Frame
    <2>4. stack' \in [Threads -> Seq(Frame)]
      BY <1>0, <1>11, <2>1, <2>3, StackOps DEF RunCommands
    <2>5. QED
      BY <1>0, <1>2, <1>11, <2>4 DEF RunCommands
  <1>12. CASE UNCHANGED vars
    BY <1>0, <1>2, <1>12 DEF vars
  <1>13. QED
    BY <1>1, <1>3, <1>4, <1>5, <1>6, <1>7, <1>8, <1>9, <1>10, <1>11, <1>12
    DEF RegistryNext, DispatchStep, FrameStep

(* The bound on calls that are put off takes steps away and adds none. *)
LEMMA BoundedIsRegistry == Spec => RegistrySpec
  <1>1. [Next]_vars => [RegistryNext]_vars
    BY DEF Next, RegistryNext
  <1>2. QED
    BY <1>1, PTL DEF Spec, RegistrySpec

(* An empty registry is well formed. *)
LEMMA RegistryStarts == Init => IInv
  <1> SUFFICES ASSUME Init PROVE IInv
    OBVIOUS
  <1>1. EmptyVector \in Vector
    BY EmptySeq DEF EmptyVector, Vector
  <1>2. WellFormed(EmptyVector)
    BY DEF WellFormed, EmptyVector, IsInjective
  <1>3. QED
    BY <1>1, <1>2, EmptySeq DEF Init, IInv, TypeOK, RegistryWellFormed

(* The inductive invariant holds in every behaviour. *)
LEMMA Invariance == RegistrySpec => []IInv
  <1>1. Init => IInv
    BY RegistryStarts
  <1>2. IInv /\ [RegistryNext]_vars => IInv'
    BY Step
  <1>3. QED
    BY <1>1, <1>2, PTL DEF RegistrySpec

-----------------------------------------------------------------------------
(* The variables always have their types. *)
THEOREM TypeCorrect == Spec => []TypeOK
  <1>1. IInv => TypeOK
    BY DEF IInv
  <1>2. QED
    BY <1>1, BoundedIsRegistry, Invariance, PTL

(* However calls of add_hook and remove_hook of any number of threads are      *)
(* interleaved, put off and run, no vector ever holds a hook twice or lists a  *)
(* plugin twice, and a plugin with a hook is always listed.                    *)
THEOREM RegistryStaysWellFormed == Spec => []RegistryWellFormed
  <1>1. IInv => RegistryWellFormed
    BY DEF IInv
  <1>2. QED
    BY <1>1, BoundedIsRegistry, Invariance, PTL

(* No step of any thread changes the vector of an event that some thread is in *)
(* the middle of dispatching.                                                  *)
THEOREM DispatchedVectorsHoldStill == Spec => VectorsHoldStill
  <1> DEFINE A == \A t \in Threads : \A d \in DOMAIN stack[t] :
                    plugins'[stack[t][d].event] = plugins[stack[t][d].event]
  <1>1. IInv /\ [RegistryNext]_vars => [A]_vars
    <2> SUFFICES ASSUME IInv, [RegistryNext]_vars PROVE A
      OBVIOUS
    <2> SUFFICES ASSUME NEW t \in Threads, NEW d \in DOMAIN stack[t]
                 PROVE  plugins'[stack[t][d].event] = plugins[stack[t][d].event]
      OBVIOUS
    <2>1. stack[t] \in Seq(Frame)
      BY DEF IInv, TypeOK
    <2>2. stack[t][d].event \in Events
      <3>1. stack[t][d] \in Frame
        BY <2>1
      <3>2. QED
        BY <3>1 DEF Frame
    <2>3. Locked(stack[t][d].event)
      BY DEF Locked
    <2>4. QED
      BY <2>2, <2>3, Step
  <1>2. QED
    BY <1>1, BoundedIsRegistry, Invariance, PTL DEF RegistrySpec, VectorsHoldStill

-----------------------------------------------------------------------------
(***************************************************************************)
(* The walk of the vector implements the walk of a snapshot.               *)
(***************************************************************************)

(* The parts of a position of a vector. *)
LEMMA PositionParts ==
  ASSUME NEW v \in Vector, NEW x \in Positions(v)
  PROVE  /\ x \in Nat \X Nat \X Nat
         /\ x[1] \in Priorities
         /\ x[2] \in DOMAIN v.order
         /\ v.order[x[2]] \in Plugins
         /\ v.hooks[v.order[x[2]]][x[1]] \in Seq(Handlers)
         /\ x[3] \in DOMAIN v.hooks[v.order[x[2]]][x[1]]
         /\ v.hooks[v.order[x[2]]][x[1]][x[3]] \in Handlers
         /\ x = <<x[1], x[2], x[3]>>
  <1>1. PICK i \in Priorities, j \in DOMAIN v.order :
               x \in {<<i, j, k>> : k \in DOMAIN v.hooks[v.order[j]][i]}
    BY DEF Positions
  <1>2. PICK k \in DOMAIN v.hooks[v.order[j]][i] : x = <<i, j, k>>
    BY <1>1
  <1>3. v.order \in Seq(Plugins) /\ v.hooks \in [Plugins -> [Priorities -> Seq(Handlers)]]
    BY DEF Vector
  <1>4. v.order[j] \in Plugins
    BY <1>3
  <1>5. v.hooks[v.order[j]][i] \in Seq(Handlers)
    BY <1>3, <1>4
  <1>6. v.hooks[v.order[j]][i][k] \in Handlers
    BY <1>5
  <1>7. x[1] = i /\ x[2] = j /\ x[3] = k /\ x = <<x[1], x[2], x[3]>>
    BY <1>2
  <1>8. x \in Nat \X Nat \X Nat
    BY PositionsType
  <1>9. QED
    BY <1>4, <1>5, <1>6, <1>7, <1>8

(* A plugin, a priority and the place of a handler in that level make a position. *)
LEMMA PositionMade ==
  ASSUME NEW v, NEW i \in Priorities, NEW j \in DOMAIN v.order,
         NEW k \in DOMAIN v.hooks[v.order[j]][i]
  PROVE  <<i, j, k>> \in Positions(v)
  <1> DEFINE Places(a, b) == {<<a, b, c>> : c \in DOMAIN v.hooks[v.order[b]][a]}
  <1>1. <<i, j, k>> \in Places(i, j)
    OBVIOUS
  <1>2. Places(i, j) \in {Places(a, b) : a \in Priorities, b \in DOMAIN v.order}
    <2> HIDE DEF Places
    <2> QED
      OBVIOUS
  <1>3. Positions(v) = UNION {Places(a, b) : a \in Priorities, b \in DOMAIN v.order}
    BY DEF Positions
  <1> HIDE DEF Places
  <1>4. QED
    BY <1>1, <1>2, <1>3

(* Before orders the positions of a vector, those of a dispatch that starts all *)
(* come after its first position.                                               *)
LEMMA BeforeOrders ==
  ASSUME NEW x \in Nat \X Nat \X Nat, NEW y \in Nat \X Nat \X Nat,
         NEW z \in Nat \X Nat \X Nat
  PROVE  /\ ~Before(x, x)
         /\ Before(x, y) /\ Before(y, z) => Before(x, z)
         /\ Before(x, y) => x[1] <= y[1]
  <1>1. /\ x[1] \in Nat /\ x[2] \in Nat /\ x[3] \in Nat
        /\ y[1] \in Nat /\ y[2] \in Nat /\ y[3] \in Nat
        /\ z[1] \in Nat /\ z[2] \in Nat /\ z[3] \in Nat
    OBVIOUS
  <1>2. ~Before(x, x)
    BY <1>1 DEF Before
  <1>3. Before(x, y) /\ Before(y, z) => Before(x, z)
    BY <1>1 DEF Before
  <1>4. Before(x, y) => x[1] <= y[1]
    BY <1>1 DEF Before
  <1>5. QED
    BY <1>2, <1>3, <1>4

(* In a well-formed vector two positions never name the same registration. *)
LEMMA OnePlacePerHook ==
  ASSUME NEW v \in Vector, WellFormed(v),
         NEW x \in Positions(v), NEW y \in Positions(v),
         RegistrationAt(v, x) = RegistrationAt(v, y)
  PROVE  x = y
  <1>1. /\ v.order[x[2]] = v.order[y[2]]
        /\ x[1] = y[1]
        /\ v.hooks[v.order[x[2]]][x[1]][x[3]] = v.hooks[v.order[y[2]]][y[1]][y[3]]
    BY DEF RegistrationAt
  <1>2. x[2] = y[2]
    BY <1>1, PositionParts DEF WellFormed, IsInjective
  <1>3. IsInjective(v.hooks[v.order[x[2]]][x[1]])
    BY PositionParts DEF WellFormed
  <1>4. x[3] = y[3]
    BY <1>1, <1>2, <1>3, PositionParts DEF IsInjective
  <1>5. QED
    BY <1>1, <1>2, <1>4, PositionParts

(* The registrations of a well-formed vector are the hooks in its levels. *)
LEMMA HooksInForce ==
  ASSUME NEW v \in Vector, WellFormed(v)
  PROVE  {RegistrationAt(v, x) : x \in Positions(v)} =
           {r \in Promise!Registration : r.handler \in Range(v.hooks[r.plugin][r.priority])}
  <1>1. ASSUME NEW x \in Positions(v)
        PROVE  /\ RegistrationAt(v, x) \in Promise!Registration
               /\ RegistrationAt(v, x).handler
                    \in Range(v.hooks[RegistrationAt(v, x).plugin][RegistrationAt(v, x).priority])
    BY PositionParts DEF RegistrationAt, Promise!Registration, Range, Priorities
  <1>2. ASSUME NEW r \in Promise!Registration, r.handler \in Range(v.hooks[r.plugin][r.priority])
        PROVE  \E x \in Positions(v) : r = RegistrationAt(v, x)
    <2>1. r.plugin \in Plugins /\ r.handler \in Handlers /\ r.priority \in Priorities
      BY DEF Promise!Registration, Priorities
    <2>2. PICK k \in DOMAIN v.hooks[r.plugin][r.priority] :
                 v.hooks[r.plugin][r.priority][k] = r.handler
      BY <1>2 DEF Range
    <2>3. v.hooks[r.plugin][r.priority] \in Seq(Handlers)
      BY <2>1 DEF Vector
    <2>4. v.hooks[r.plugin][r.priority] # <<>>
      BY <2>2, <2>3, EmptySeq
    <2>5. PICK j \in DOMAIN v.order : v.order[j] = r.plugin
      BY <2>1, <2>4 DEF WellFormed, Range
    <2>6. <<r.priority, j, k>> \in Positions(v)
      BY <2>1, <2>2, <2>5, PositionMade
    <2>7. r = [plugin |-> r.plugin, handler |-> r.handler, priority |-> r.priority]
      BY DEF Promise!Registration
    <2>8. RegistrationAt(v, <<r.priority, j, k>>) = r
      BY <2>2, <2>5, <2>7 DEF RegistrationAt
    <2>9. QED
      BY <2>6, <2>8
  <1>3. QED
    BY <1>1, <1>2
-----------------------------------------------------------------------------
(***************************************************************************)
(* How the abstract variables follow the stack and the vectors.            *)
(***************************************************************************)

(* The dispatches of the abstract specification. *)
AbstractFrames == [event: Events, todo: SUBSET Promise!Registration, running: BOOLEAN]

(* A dispatch is abstracted to a dispatch of the abstract specification. *)
LEMMA FramesAreCalls ==
  ASSUME IInv, NEW f \in Frame
  PROVE  /\ AbstractCall(f) \in AbstractFrames
         /\ Remaining(f) \subseteq Positions(plugins[f.event])
         /\ Registrations(f.event, Positions(plugins[f.event])) \subseteq Promise!Registration
  <1>1. f.event \in Events /\ f.running \in BOOLEAN
    BY DEF Frame
  <1>2. plugins[f.event] \in Vector /\ WellFormed(plugins[f.event])
    BY <1>1 DEF IInv, TypeOK, RegistryWellFormed
  <1>3. Remaining(f) \subseteq Positions(plugins[f.event])
    BY DEF Remaining
  <1>4. Registrations(f.event, Positions(plugins[f.event])) \subseteq Promise!Registration
    BY <1>2, HooksInForce DEF Registrations
  <1>5. Registrations(f.event, Remaining(f)) \subseteq Promise!Registration
    BY <1>3, <1>4 DEF Registrations
  <1>6. QED
    BY <1>1, <1>3, <1>4, <1>5 DEF AbstractCall, AbstractFrames

(* The dispatches of a thread are abstracted one by one. *)
LEMMA CallsOfAThread ==
  ASSUME IInv, NEW t \in Threads
  PROVE  /\ AbstractCalls[t] \in Seq(AbstractFrames)
         /\ Len(AbstractCalls[t]) = Len(stack[t])
         /\ \A d \in 1 .. Len(stack[t]) : AbstractCalls[t][d] = AbstractCall(stack[t][d])
         /\ AbstractCalls[t] = <<>> <=> stack[t] = <<>>
  <1>1. stack[t] \in Seq(Frame) /\ Len(stack[t]) \in Nat
        /\ DOMAIN stack[t] = 1 .. Len(stack[t])
    BY LenProperties DEF IInv, TypeOK
  <1>2. AbstractCalls[t] = [d \in 1 .. Len(stack[t]) |-> AbstractCall(stack[t][d])]
    BY <1>1 DEF AbstractCalls
  <1>3. \A d \in 1 .. Len(stack[t]) : AbstractCall(stack[t][d]) \in AbstractFrames
    BY <1>1, FramesAreCalls
  <1>4. AbstractCalls[t] \in [1 .. Len(stack[t]) -> AbstractFrames]
    BY <1>2, <1>3
  <1>5. AbstractCalls[t] \in Seq(AbstractFrames) /\ Len(AbstractCalls[t]) = Len(stack[t])
    BY <1>1, <1>4, FunctionIsSeq
  <1>6. AbstractCalls[t] = <<>> <=> stack[t] = <<>>
    BY <1>1, <1>5, EmptySeq
  <1>7. QED
    BY <1>2, <1>5, <1>6

(* A step that leaves the vectors alone leaves what a dispatch stands for alone. *)
LEMMA SameVectors ==
  ASSUME UNCHANGED plugins
  PROVE  /\ UNCHANGED AbstractHooks
         /\ \A f \in Frame : AbstractCall(f)' = AbstractCall(f)
  BY DEF AbstractHooks, AbstractCall, Registrations, Remaining, Positions, RegistrationAt,
         Before

(* The abstract variables after a step that leaves the vectors alone. *)
LEMMA CallsAfter ==
  ASSUME IInv, UNCHANGED plugins, stack' \in [Threads -> Seq(Frame)]
  PROVE  AbstractCalls' =
           [t \in Threads |-> [d \in DOMAIN stack'[t] |-> AbstractCall(stack'[t][d])]]
  <1>1. AbstractCalls' =
          [t \in Threads |-> [d \in DOMAIN stack'[t] |->
             [event |-> stack'[t][d].event,
              todo |-> Registrations(stack'[t][d].event, Remaining(stack'[t][d])),
              running |-> stack'[t][d].running]]]
    BY DEF AbstractCalls, AbstractCall, Registrations, Remaining, Positions, RegistrationAt,
           Before
  <1>2. QED
    BY <1>1 DEF AbstractCall

(* A dispatch that starts has the whole vector before it. *)
LEMMA PushDispatches ==
  ASSUME IInv, UNCHANGED plugins, NEW t \in Threads, NEW e \in Events, stack' = Push(t, e)
  PROVE  Promise!Dispatch(t, e)
  <1> DEFINE f == [event |-> e, at |-> <<0, 0, 0>>, running |-> FALSE]
             c == [event |-> e, todo |-> AbstractHooks[e], running |-> FALSE]
  <1>1. stack \in [Threads -> Seq(Frame)] /\ f \in Frame
    BY DEF IInv, TypeOK, Frame
  <1>2. plugins[e] \in Vector
    BY DEF IInv, TypeOK
  <1>3. Remaining(f) = Positions(plugins[e])
    <2>1. ASSUME NEW x \in Positions(plugins[e])
          PROVE  Before(<<0, 0, 0>>, x)
      <3>1. x \in Nat \X Nat \X Nat /\ x[2] \in DOMAIN plugins[e].order
        BY <1>2, PositionParts
      <3>2. x[2] \in 1 .. Len(plugins[e].order)
        BY <1>2, <3>1 DEF Vector
      <3>3. x[1] \in Nat /\ x[2] \in Nat /\ x[2] > 0
        BY <3>1, <3>2
      <3>4. QED
        BY <3>3 DEF Before
    <2>2. QED
      BY <2>1 DEF Remaining
  <1>4. AbstractCall(f) = c
    BY <1>3 DEF AbstractCall, AbstractHooks
  <1> HIDE DEF f, c
  <1>5. stack' = [stack EXCEPT ![t] = Append(stack[t], f)]
    BY DEF Push, f
  <1>6. stack' \in [Threads -> Seq(Frame)]
    BY <1>1, <1>5, AppendProperties
  <1>7. ASSUME NEW u \in Threads
        PROVE  AbstractCalls'[u] = IF u = t THEN Append(AbstractCalls[t], c) ELSE AbstractCalls[u]
    <2>1. AbstractCalls'[u] = [d \in DOMAIN stack'[u] |-> AbstractCall(stack'[u][d])]
      BY <1>6, CallsAfter
    <2>2. CASE u # t
      BY <1>1, <1>5, <2>1, <2>2 DEF AbstractCalls
    <2>3. CASE u = t
      <3>1. stack[t] \in Seq(Frame) /\ Len(stack[t]) \in Nat
            /\ DOMAIN stack[t] = 1 .. Len(stack[t])
        BY <1>1, LenProperties
      <3>2. stack'[t] = Append(stack[t], f)
        BY <1>1, <1>5
      <3>3. /\ DOMAIN stack'[t] = 1 .. Len(stack[t]) + 1
            /\ \A d \in 1 .. Len(stack[t]) : stack'[t][d] = stack[t][d]
            /\ stack'[t][Len(stack[t]) + 1] = f
        BY <1>1, <3>1, <3>2, AppendProperties
      <3>4. c \in AbstractFrames
        BY <1>1, <1>4, FramesAreCalls
      <3>5. /\ Append(AbstractCalls[t], c) \in Seq(AbstractFrames)
            /\ Len(Append(AbstractCalls[t], c)) = Len(stack[t]) + 1
            /\ \A d \in 1 .. Len(stack[t]) :
                 Append(AbstractCalls[t], c)[d] = AbstractCall(stack[t][d])
            /\ Append(AbstractCalls[t], c)[Len(stack[t]) + 1] = c
        BY <3>1, <3>4, CallsOfAThread, AppendProperties
      <3>6. Append(AbstractCalls[t], c)
              = [d \in 1 .. Len(stack[t]) + 1 |-> Append(AbstractCalls[t], c)[d]]
        BY <3>1, <3>5, LenProperties
      <3>7. \A d \in 1 .. Len(stack[t]) + 1 :
              Append(AbstractCalls[t], c)[d] = AbstractCall(stack'[t][d])
        BY <1>4, <3>1, <3>3, <3>5
      <3>8. QED
        BY <2>1, <2>3, <3>3, <3>6, <3>7
    <2>4. QED
      BY <2>2, <2>3
  <1>8. AbstractCalls' = [AbstractCalls EXCEPT ![t] = Append(@, c)]
    <2>1. AbstractCalls' = [u \in Threads |-> AbstractCalls'[u]]
      BY DEF AbstractCalls
    <2>2. DOMAIN AbstractCalls = Threads
      BY DEF AbstractCalls
    <2>3. QED
      BY <1>7, <2>1, <2>2
  <1>9. UNCHANGED AbstractHooks
    BY SameVectors
  <1>10. QED
    BY <1>8, <1>9 DEF Promise!Dispatch, c

(* The innermost dispatch and its abstraction. *)
LEMMA TopCall ==
  ASSUME IInv, NEW t \in Threads, stack[t] # <<>>
  PROVE  /\ Top(t) \in Frame
         /\ Len(stack[t]) \in Nat \ {0}
         /\ AbstractCalls[t] # <<>>
         /\ Promise!Top(t) = AbstractCall(Top(t))
  <1>1. stack \in [Threads -> Seq(Frame)]
    BY DEF IInv, TypeOK
  <1>2. stack[t] \in Seq(Frame) /\ Len(stack[t]) \in Nat \ {0}
    BY <1>1, EmptySeq
  <1>3. Top(t) \in Frame
    BY <1>1, StackOps
  <1>4. Promise!Top(t) = AbstractCall(Top(t))
    BY <1>2, CallsOfAThread DEF Promise!Top, Top
  <1>5. QED
    BY <1>2, <1>3, <1>4, CallsOfAThread

(* A change of the innermost dispatch is one of its abstraction. *)
LEMMA SetTopCalls ==
  ASSUME IInv, UNCHANGED plugins, NEW t \in Threads, stack[t] # <<>>,
         NEW f \in Frame, stack' = SetTop(t, f)
  PROVE  AbstractCalls' = [AbstractCalls EXCEPT ![t][Len(AbstractCalls[t])] = AbstractCall(f)]
  <1>1. stack \in [Threads -> Seq(Frame)]
    BY DEF IInv, TypeOK
  <1>2. stack' \in [Threads -> Seq(Frame)]
    BY <1>1, StackOps
  <1>3. stack[t] \in Seq(Frame) /\ Len(stack[t]) \in Nat \ {0}
        /\ DOMAIN stack[t] = 1 .. Len(stack[t])
    BY <1>1, TopCall, LenProperties
  <1>4. stack' = [stack EXCEPT ![t] = [stack[t] EXCEPT ![Len(stack[t])] = f]]
    BY DEF SetTop
  <1> DEFINE last == [AbstractCalls[t] EXCEPT ![Len(AbstractCalls[t])] = AbstractCall(f)]
  <1>5. ASSUME NEW u \in Threads
        PROVE  AbstractCalls'[u] = IF u = t THEN last ELSE AbstractCalls[u]
    <2>1. AbstractCalls'[u] = [d \in DOMAIN stack'[u] |-> AbstractCall(stack'[u][d])]
      BY <1>2, CallsAfter
    <2>2. CASE u # t
      BY <1>1, <1>4, <2>1, <2>2 DEF AbstractCalls
    <2>3. CASE u = t
      <3>1. stack'[t] = [stack[t] EXCEPT ![Len(stack[t])] = f]
        BY <1>1, <1>4
      <3>2. /\ DOMAIN stack'[t] = 1 .. Len(stack[t])
            /\ \A d \in 1 .. Len(stack[t]) :
                 stack'[t][d] = IF d = Len(stack[t]) THEN f ELSE stack[t][d]
        BY <1>3, <3>1
      <3>3. AbstractCalls[t] = [d \in 1 .. Len(stack[t]) |-> AbstractCall(stack[t][d])]
            /\ Len(AbstractCalls[t]) = Len(stack[t])
        BY <1>3, CallsOfAThread DEF AbstractCalls
      <3>4. last = [d \in 1 .. Len(stack[t]) |->
                      IF d = Len(stack[t]) THEN AbstractCall(f) ELSE AbstractCall(stack[t][d])]
        BY <3>3
      <3>5. \A d \in 1 .. Len(stack[t]) :
              AbstractCall(stack'[t][d])
                = IF d = Len(stack[t]) THEN AbstractCall(f) ELSE AbstractCall(stack[t][d])
        BY <3>2
      <3>6. QED
        BY <2>1, <2>3, <3>2, <3>4, <3>5
    <2>4. QED
      BY <2>2, <2>3
  <1>6. AbstractCalls' = [u \in Threads |-> AbstractCalls'[u]]
    BY DEF AbstractCalls
  <1>7. DOMAIN AbstractCalls = Threads
    BY DEF AbstractCalls
  <1>8. AbstractCalls' = [AbstractCalls EXCEPT ![t] = last]
    BY <1>5, <1>6, <1>7
  <1>9. QED
    BY <1>8

(* The end of the innermost dispatch is the end of its abstraction. *)
LEMMA PopCalls ==
  ASSUME IInv, UNCHANGED plugins, NEW t \in Threads, stack[t] # <<>>, stack' = Pop(t)
  PROVE  AbstractCalls' = Promise!Pop(t)
  <1>1. stack \in [Threads -> Seq(Frame)]
    BY DEF IInv, TypeOK
  <1>2. stack' \in [Threads -> Seq(Frame)]
    BY <1>1, StackOps
  <1>3. stack[t] \in Seq(Frame) /\ Len(stack[t]) \in Nat \ {0}
        /\ DOMAIN stack[t] = 1 .. Len(stack[t])
    BY <1>1, TopCall, LenProperties
  <1>4. stack' = [stack EXCEPT ![t] = SubSeq(stack[t], 1, Len(stack[t]) - 1)]
    BY DEF Pop
  <1> DEFINE rest == SubSeq(AbstractCalls[t], 1, Len(AbstractCalls[t]) - 1)
  <1>5. ASSUME NEW u \in Threads
        PROVE  AbstractCalls'[u] = IF u = t THEN rest ELSE AbstractCalls[u]
    <2>1. AbstractCalls'[u] = [d \in DOMAIN stack'[u] |-> AbstractCall(stack'[u][d])]
      BY <1>2, CallsAfter
    <2>2. CASE u # t
      BY <1>1, <1>4, <2>1, <2>2 DEF AbstractCalls
    <2>3. CASE u = t
      <3>1. stack'[t] = SubSeq(stack[t], 1, Len(stack[t]) - 1)
        BY <1>1, <1>4
      <3>2. /\ DOMAIN stack'[t] = 1 .. Len(stack[t]) - 1
            /\ \A d \in 1 .. Len(stack[t]) - 1 : stack'[t][d] = stack[t][d]
        BY <1>3, <3>1
      <3>3. /\ AbstractCalls[t] \in Seq(AbstractFrames)
            /\ Len(AbstractCalls[t]) = Len(stack[t])
            /\ \A d \in 1 .. Len(stack[t]) : AbstractCalls[t][d] = AbstractCall(stack[t][d])
        BY CallsOfAThread
      <3>4. rest = [d \in 1 .. Len(stack[t]) - 1 |-> AbstractCalls[t][d]]
        BY <1>3, <3>3
      <3>5. QED
        BY <1>3, <2>1, <2>3, <3>2, <3>3, <3>4
    <2>4. QED
      BY <2>2, <2>3
  <1>6. AbstractCalls' = [u \in Threads |-> AbstractCalls'[u]]
    BY DEF AbstractCalls
  <1>7. DOMAIN AbstractCalls = Threads
    BY DEF AbstractCalls
  <1>8. AbstractCalls' = [AbstractCalls EXCEPT ![t] = rest]
    BY <1>5, <1>6, <1>7
  <1>9. QED
    BY <1>8 DEF Promise!Pop

-----------------------------------------------------------------------------
(***************************************************************************)
(* Every step of the walk is a step of the promise, or none.               *)
(***************************************************************************)

(* A call of add_hook or remove_hook that is not put off and does not raise adds  *)
(* or drops one registration; one that is put off or raises changes nothing.      *)
LEMMA HookCallsKeepPromise ==
  ASSUME IInv, [RegistryNext]_vars, UNCHANGED stack, NEW h \in Hook, add_hook(h) \/ remove_hook(h)
  PROVE  [Promise!Next]_(Promise!svars)
  <1> DEFINE e == h.event
             r == [plugin |-> h.plugin, handler |-> h.handler, priority |-> h.priority]
             InForce(v) == {s \in Promise!Registration :
                              s.handler \in Range(v.hooks[s.plugin][s.priority])}
  <1>1. /\ plugins \in [Events -> Vector] /\ RegistryWellFormed
        /\ stack \in [Threads -> Seq(Frame)]
        /\ plugins' \in [Events -> Vector] /\ RegistryWellFormed'
        /\ \A a \in Events : Locked(a) => plugins'[a] = plugins[a]
    <2>1. IInv' /\ \A a \in Events : Locked(a) => plugins'[a] = plugins[a]
      BY Step
    <2>2. QED
      BY <2>1 DEF IInv, TypeOK
  <1>2. h.event \in Events /\ h.plugin \in Plugins /\ h.handler \in Handlers
        /\ h.priority \in Priorities
    BY DEF Hook
  <1>3. r \in Promise!Registration
    BY <1>2 DEF Promise!Registration, Priorities
  <1>4. UNCHANGED AbstractCalls
    <2>1. ASSUME NEW t \in Threads, NEW d \in DOMAIN stack[t]
          PROVE  AbstractCall(stack[t][d])' = AbstractCall(stack[t][d])
      <3>1. stack[t][d] \in Frame
        BY <1>1
      <3>2. stack[t][d].event \in Events /\ Locked(stack[t][d].event)
        BY <3>1 DEF Frame, Locked
      <3>3. plugins'[stack[t][d].event] = plugins[stack[t][d].event]
        BY <1>1, <3>2
      <3>4. QED
        BY <3>3 DEF AbstractCall, Registrations, Remaining, Positions, RegistrationAt, Before
    <2>2. QED
      BY <2>1 DEF AbstractCalls
  <1>5. AbstractHooks = [a \in Events |-> InForce(plugins[a])]
    <2>1. \A a \in Events : Registrations(a, Positions(plugins[a])) = InForce(plugins[a])
      BY <1>1, HooksInForce DEF RegistryWellFormed, Registrations
    <2>2. QED
      BY <2>1 DEF AbstractHooks
  <1>6. AbstractHooks' = [a \in Events |-> InForce(plugins'[a])]
    <2>1. \A a \in Events : WellFormed(plugins'[a])
      BY <1>1 DEF RegistryWellFormed
    <2>2. \A a \in Events :
            {RegistrationAt(plugins'[a], x) : x \in Positions(plugins'[a])} = InForce(plugins'[a])
      BY <1>1, <2>1, HooksInForce
    <2>3. AbstractHooks' =
            [a \in Events |-> {RegistrationAt(plugins'[a], x) : x \in Positions(plugins'[a])}]
      BY DEF AbstractHooks, Registrations, Positions, RegistrationAt
    <2>4. QED
      BY <2>2, <2>3
  <1>7. CASE UNCHANGED plugins
    BY <1>4, <1>5, <1>6, <1>7 DEF Promise!svars
  <1>8. ASSUME NEW v \in Vector, plugins' = [plugins EXCEPT ![e] = v]
        PROVE  /\ AbstractHooks' = [AbstractHooks EXCEPT ![e] = InForce(v)]
               /\ AbstractHooks[e] = InForce(plugins[e])
    BY <1>1, <1>2, <1>5, <1>6, <1>8
  <1>9. CASE ~IsHooked(h) /\ plugins' = Insert(h)
    <2> DEFINE v == plugins[e]
               level == Append(v.hooks[h.plugin][h.priority], h.handler)
               w == Insert(h)[e]
    <2>1. v \in Vector /\ v.hooks[h.plugin][h.priority] \in Seq(Handlers)
      BY <1>1, <1>2 DEF Vector
    <2>2. w \in Vector /\ Insert(h) = [plugins EXCEPT ![e] = w]
      BY <1>1, <1>2, <1>9 DEF Insert, Store
    <2>3. w.hooks = [v.hooks EXCEPT ![h.plugin][h.priority] = level]
      BY <1>1, <1>2 DEF Insert, Store, Level
    <2>4. Range(level) = Range(v.hooks[h.plugin][h.priority]) \cup {h.handler}
      BY <1>2, <2>1, AppendRange
    <2>5. h.handler \notin Range(v.hooks[h.plugin][h.priority])
      BY <1>9 DEF IsHooked, Level
    <2> HIDE DEF level, w
    <2>6. \A n \in Plugins, i \in Priorities :
            w.hooks[n][i] = IF n = h.plugin /\ i = h.priority THEN level ELSE v.hooks[n][i]
      BY <1>2, <2>1, <2>3 DEF Vector
    <2>7. InForce(w) = InForce(v) \cup {r} /\ r \notin InForce(v)
      <3>1. ASSUME NEW s \in Promise!Registration
            PROVE  s.handler \in Range(w.hooks[s.plugin][s.priority])
                     <=> s.handler \in Range(v.hooks[s.plugin][s.priority]) \/ s = r
        <4>1. s.plugin \in Plugins /\ s.priority \in Priorities
              /\ s = [plugin |-> s.plugin, handler |-> s.handler, priority |-> s.priority]
          BY DEF Promise!Registration, Priorities
        <4>2. CASE s.plugin = h.plugin /\ s.priority = h.priority
          BY <2>4, <2>6, <4>1, <4>2
        <4>3. CASE ~(s.plugin = h.plugin /\ s.priority = h.priority)
          BY <2>6, <4>1, <4>3
        <4>4. QED
          BY <4>2, <4>3
      <3>2. QED
        BY <1>3, <2>5, <3>1
    <2>8. Promise!Hook(e)
      BY <1>3, <1>4, <1>8, <1>9, <2>2, <2>7 DEF Promise!Hook
    <2>9. QED
      BY <1>2, <2>8 DEF Promise!Next
  <1>10. CASE IsHooked(h) /\ plugins' = Delete(h)
    <2> DEFINE v == plugins[e]
               old == v.hooks[h.plugin][h.priority]
               k == CHOOSE x \in DOMAIN old : old[x] = h.handler
               level == RemoveAt(old, k)
               w == Delete(h)[e]
    <2>1. v \in Vector /\ old \in Seq(Handlers) /\ IsInjective(old)
      BY <1>1, <1>2 DEF Vector, RegistryWellFormed, WellFormed
    <2>2. w \in Vector /\ Delete(h) = [plugins EXCEPT ![e] = w]
      BY <1>1, <1>2, <1>10 DEF Delete, Store
    <2>3. w.hooks = [v.hooks EXCEPT ![h.plugin][h.priority] = level]
      BY <1>1, <1>2 DEF Delete, Store, Level
    <2>4. h.handler \in Range(old)
      BY <1>10 DEF IsHooked, Level
    <2>5. k \in DOMAIN old /\ old[k] = h.handler
      BY <2>4 DEF Range
    <2> HIDE DEF k
    <2>6. Range(level) = Range(old) \ {h.handler}
      BY <2>1, <2>5, RemoveAtRange
    <2> HIDE DEF level, w
    <2>7. \A n \in Plugins, i \in Priorities :
            w.hooks[n][i] = IF n = h.plugin /\ i = h.priority THEN level ELSE v.hooks[n][i]
      BY <1>2, <2>1, <2>3 DEF Vector
    <2>8. InForce(w) = InForce(v) \ {r} /\ r \in InForce(v)
      <3>1. ASSUME NEW s \in Promise!Registration
            PROVE  s.handler \in Range(w.hooks[s.plugin][s.priority])
                     <=> s.handler \in Range(v.hooks[s.plugin][s.priority]) /\ s # r
        <4>1. s.plugin \in Plugins /\ s.priority \in Priorities
              /\ s = [plugin |-> s.plugin, handler |-> s.handler, priority |-> s.priority]
          BY DEF Promise!Registration, Priorities
        <4>2. CASE s.plugin = h.plugin /\ s.priority = h.priority
          BY <2>6, <2>7, <4>1, <4>2
        <4>3. CASE ~(s.plugin = h.plugin /\ s.priority = h.priority)
          BY <2>7, <4>1, <4>3
        <4>4. QED
          BY <4>2, <4>3
      <3>2. QED
        BY <1>3, <2>4, <3>1
    <2>9. Promise!Unhook(e)
      BY <1>3, <1>4, <1>8, <1>10, <2>2, <2>8 DEF Promise!Unhook
    <2>10. QED
      BY <1>2, <2>9 DEF Promise!Next
  <1>11. QED
    BY <1>7, <1>9, <1>10 DEF add_hook, remove_hook, AddRaises, RemoveRaises

(* An abstract dispatch with other handlers to call, and one that is running or not. *)
LEMMA ChangedCall ==
  ASSUME NEW a \in AbstractFrames, NEW U \in SUBSET Promise!Registration, NEW b \in BOOLEAN
  PROVE  /\ [a EXCEPT !.todo = U, !.running = b] = [event |-> a.event, todo |-> U, running |-> b]
         /\ [a EXCEPT !.running = b] = [event |-> a.event, todo |-> a.todo, running |-> b]
  <1> DEFINE x == [a EXCEPT !.todo = U, !.running = b]
             y == [a EXCEPT !.running = b]
  <1>1. x \in AbstractFrames /\ x.event = a.event /\ x.todo = U /\ x.running = b
    BY DEF AbstractFrames
  <1>2. y \in AbstractFrames /\ y.event = a.event /\ y.todo = a.todo /\ y.running = b
    BY DEF AbstractFrames
  <1> HIDE DEF x, y
  <1>3. x = [event |-> x.event, todo |-> x.todo, running |-> x.running]
    BY <1>1 DEF AbstractFrames
  <1>4. y = [event |-> y.event, todo |-> y.todo, running |-> y.running]
    BY <1>2 DEF AbstractFrames
  <1>5. x = [event |-> a.event, todo |-> U, running |-> b]
    BY <1>1, <1>3
  <1>6. y = [event |-> a.event, todo |-> a.todo, running |-> b]
    BY <1>2, <1>4
  <1>7. QED
    BY <1>5, <1>6 DEF x, y

(* The handler called next is one of the lowest priority left, and it leaves the *)
(* handlers that are still to be called.                                         *)
LEMMA CallNextCalls ==
  ASSUME IInv, NEW t \in Threads, CallNext(t)
  PROVE  Promise!Call(t)
  <1> DEFINE f == Top(t)
             v == plugins[f.event]
  <1>1. stack[t] # <<>> /\ ~f.running /\ UNCHANGED plugins
    BY DEF CallNext
  <1>2. PICK x \in Remaining(f) :
               /\ IsNext(f, x)
               /\ stack' = SetTop(t, [f EXCEPT !.at = x, !.running = TRUE])
    BY DEF CallNext
  <1> DEFINE g == [f EXCEPT !.at = x, !.running = TRUE]
             r == RegistrationAt(v, x)
  <1>3. f \in Frame /\ f.event \in Events /\ f.at \in Nat \X Nat \X Nat
    BY <1>1, TopCall DEF Frame
  <1>4. v \in Vector /\ WellFormed(v)
    BY <1>3 DEF IInv, TypeOK, RegistryWellFormed
  <1>5. x \in Positions(v) /\ Remaining(f) \subseteq Positions(v)
    BY <1>2 DEF Remaining
  <1>6. \A y \in Positions(v) : y \in Nat \X Nat \X Nat
    BY <1>4, PositionsType
  <1>7. g \in Frame /\ g.event = f.event /\ g.at = x /\ g.running = TRUE
    BY <1>3, <1>5, <1>6 DEF Frame
  <1>8. Remaining(g) = Remaining(f) \ {x}
    <2>1. ASSUME NEW y \in Positions(v)
          PROVE  Before(x, y) <=> Before(f.at, y) /\ y # x
      <3>1. x \in Nat \X Nat \X Nat /\ y \in Nat \X Nat \X Nat
        BY <1>5, <1>6
      <3>2. Before(x, y) => Before(f.at, y) /\ y # x
        <4>1. Before(f.at, x)
          BY <1>2 DEF Remaining
        <4>2. QED
          BY <1>3, <3>1, <4>1, BeforeOrders
      <3>3. Before(f.at, y) /\ y # x => Before(x, y)
        BY <1>2 DEF IsNext, Remaining
      <3>4. QED
        BY <3>2, <3>3
    <2>2. QED
      BY <1>5, <1>7, <2>1 DEF Remaining
  <1> HIDE DEF g
  <1>9. AbstractCall(f).todo = {RegistrationAt(v, y) : y \in Remaining(f)}
    BY DEF AbstractCall, Registrations
  <1>10. AbstractCall(g).todo = {RegistrationAt(v, y) : y \in Remaining(f) \ {x}}
    BY <1>7, <1>8 DEF AbstractCall, Registrations
  <1>11. AbstractCall(g).todo = AbstractCall(f).todo \ {r}
    <2>1. \A y \in Remaining(f) : RegistrationAt(v, y) = r => y = x
      BY <1>4, <1>5, OnePlacePerHook
    <2>2. QED
      BY <1>9, <1>10, <2>1
  <1>12. AbstractCall(g) = [AbstractCall(f) EXCEPT !.todo = @ \ {r}, !.running = TRUE]
    <2>1. AbstractCall(g) = [event |-> g.event, todo |-> AbstractCall(g).todo,
                             running |-> g.running]
      BY DEF AbstractCall
    <2>2. AbstractCall(f) \in AbstractFrames /\ AbstractCall(f).event = f.event
      BY <1>3, FramesAreCalls DEF AbstractCall
    <2>3. AbstractCall(g).todo \in SUBSET Promise!Registration
      BY <1>7, FramesAreCalls DEF AbstractFrames
    <2>4. AbstractCall(g) = [event |-> f.event, todo |-> AbstractCall(g).todo, running |-> TRUE]
      BY <1>7, <2>1
    <2>5. AbstractCall(g) = [AbstractCall(f) EXCEPT !.todo = AbstractCall(g).todo, !.running = TRUE]
      <3> DEFINE U == AbstractCall(g).todo
      <3>1. U \in SUBSET Promise!Registration
        BY <2>3
      <3>2. AbstractCall(g) = [event |-> f.event, todo |-> U, running |-> TRUE]
        BY <2>4
      <3> HIDE DEF U
      <3>3. [AbstractCall(f) EXCEPT !.todo = U, !.running = TRUE]
              = [event |-> AbstractCall(f).event, todo |-> U, running |-> TRUE]
        <4>1. TRUE \in BOOLEAN
          OBVIOUS
        <4> HIDE DEF f
        <4>2. QED
          BY <2>2, <3>1, <4>1, ChangedCall, Zenon
      <3>4. QED
        BY <2>2, <3>2, <3>3 DEF U
    <2> HIDE DEF f, r
    <2>6. QED
      BY <1>11, <2>5
  <1>13. r \in AbstractCall(f).todo
    BY <1>2, <1>9
  <1>14. \A s \in AbstractCall(f).todo : r.priority <= s.priority
    <2>1. ASSUME NEW y \in Remaining(f)
          PROVE  x[1] <= y[1]
      <3>1. x \in Nat \X Nat \X Nat /\ y \in Nat \X Nat \X Nat
        BY <1>5, <1>6
      <3>2. y = x \/ Before(x, y)
        BY <1>2 DEF IsNext
      <3>3. CASE y = x
        BY <3>1, <3>3
      <3>4. CASE Before(x, y)
        BY <3>1, <3>4, BeforeOrders
      <3>5. QED
        BY <3>2, <3>3, <3>4
    <2>2. \A y : RegistrationAt(v, y).priority = y[1]
      BY DEF RegistrationAt
    <2>3. QED
      BY <1>9, <2>1, <2>2
  <1>15. AbstractCalls[t] # <<>> /\ Promise!Top(t) = AbstractCall(f)
    BY <1>1, TopCall
  <1>16. AbstractCalls' = [AbstractCalls EXCEPT ![t][Len(AbstractCalls[t])] = AbstractCall(g)]
    BY <1>1, <1>2, <1>7, SetTopCalls DEF g
  <1>17. AbstractCalls' = [AbstractCalls EXCEPT ![t][Len(AbstractCalls[t])] =
                             [Promise!Top(t) EXCEPT !.todo = @ \ {r}, !.running = TRUE]]
    BY <1>12, <1>15, <1>16
  <1>18. ~Promise!Top(t).running
    BY <1>1, <1>15 DEF AbstractCall
  <1>19. UNCHANGED AbstractHooks
    BY <1>1, SameVectors
  <1> HIDE DEF r, f
  <1>20. QED
    BY <1>13, <1>14, <1>15, <1>17, <1>18, <1>19 DEF Promise!Call

(* The commands are run when no handler is left, as plugin code that is not hooked. *)
LEMMA RunCommandsCallsOther ==
  ASSUME IInv, NEW t \in Threads, RunCommands(t)
  PROVE  Promise!CallOther(t)
  <1> DEFINE f == Top(t)
             g == [f EXCEPT !.at = <<NumPriorities, 0, 0>>, !.running = TRUE]
  <1>1. /\ stack[t] # <<>> /\ ~f.running /\ Remaining(f) = {} /\ UNCHANGED plugins
        /\ stack' = SetTop(t, g)
    BY DEF RunCommands
  <1>2. f \in Frame /\ plugins[f.event] \in Vector
    BY <1>1, TopCall DEF Frame, IInv, TypeOK
  <1>3. <<NumPriorities, 0, 0>> \in Nat \X Nat \X Nat
    BY ConstantsAssumption
  <1>4. g \in Frame /\ g.event = f.event /\ g.at = <<NumPriorities, 0, 0>> /\ g.running = TRUE
    BY <1>2, <1>3 DEF Frame
  <1>5. Remaining(g) = {}
    <2>1. ASSUME NEW x \in Positions(plugins[f.event])
          PROVE  ~Before(<<NumPriorities, 0, 0>>, x)
      <3>1. x[1] \in Priorities
        BY <1>2, PositionParts
      <3>2. x[1] \in Nat /\ x[1] < NumPriorities
        BY <3>1, ConstantsAssumption DEF Priorities
      <3>3. QED
        BY <3>2, ConstantsAssumption DEF Before
    <2>2. QED
      BY <1>4, <2>1 DEF Remaining
  <1> HIDE DEF g
  <1>6. AbstractCall(g) = [AbstractCall(f) EXCEPT !.running = TRUE]
    <2>1. AbstractCall(g) = [event |-> g.event, todo |-> AbstractCall(g).todo,
                             running |-> g.running]
      BY DEF AbstractCall
    <2>2. AbstractCall(f) \in AbstractFrames /\ AbstractCall(f).event = f.event
      BY <1>2, FramesAreCalls DEF AbstractCall
    <2>3. AbstractCall(g).todo = AbstractCall(f).todo
      BY <1>1, <1>4, <1>5 DEF AbstractCall
    <2>4. AbstractCall(g) = [event |-> f.event, todo |-> AbstractCall(f).todo, running |-> TRUE]
      BY <1>4, <2>1, <2>3
    <2>5. QED
      BY <2>2, <2>4, ChangedCall
  <1>7. AbstractCalls[t] # <<>> /\ Promise!Top(t) = AbstractCall(f)
    BY <1>1, TopCall
  <1>8. AbstractCalls' = [AbstractCalls EXCEPT ![t][Len(AbstractCalls[t])] = AbstractCall(g)]
    BY <1>1, <1>4, SetTopCalls
  <1>9. AbstractCalls' = [AbstractCalls EXCEPT ![t][Len(AbstractCalls[t])].running = TRUE]
    BY <1>6, <1>7, <1>8 DEF Promise!Top
  <1>10. ~Promise!Top(t).running /\ Promise!Top(t).todo = {}
    BY <1>1, <1>7 DEF AbstractCall, Registrations
  <1>11. UNCHANGED AbstractHooks
    BY <1>1, SameVectors
  <1>12. QED
    BY <1>7, <1>9, <1>10, <1>11 DEF Promise!CallOther

(* A handler that returns ends its call, and the dispatch when it stops it. *)
LEMMA HandlersReturn ==
  ASSUME IInv, NEW t \in Threads, HandlerContinues(t) \/ HandlerStops(t)
  PROVE  Promise!Return(t)
  <1> DEFINE f == Top(t)
             g == [f EXCEPT !.running = FALSE]
  <1>1. stack[t] # <<>> /\ f.running /\ UNCHANGED plugins
    BY DEF HandlerContinues, HandlerStops
  <1>2. f \in Frame
    BY <1>1, TopCall
  <1>3. g \in Frame /\ g.event = f.event /\ g.at = f.at /\ g.running = FALSE
    BY <1>2 DEF Frame
  <1>4. AbstractCalls[t] # <<>> /\ Promise!Top(t) = AbstractCall(f)
    BY <1>1, TopCall
  <1>5. Promise!Top(t).running
    BY <1>1, <1>4 DEF AbstractCall
  <1>6. UNCHANGED AbstractHooks
    BY <1>1, SameVectors
  <1>7. CASE HandlerStops(t)
    <2>1. stack' = Pop(t)
      BY <1>7 DEF HandlerStops
    <2>2. AbstractCalls' = Promise!Pop(t)
      BY <1>1, <2>1, PopCalls
    <2>3. QED
      BY <1>4, <1>5, <1>6, <2>2 DEF Promise!Return
  <1>8. CASE HandlerContinues(t)
    <2>1. stack' = SetTop(t, g)
      BY <1>8 DEF HandlerContinues
    <2> HIDE DEF g
    <2>2. AbstractCalls' = [AbstractCalls EXCEPT ![t][Len(AbstractCalls[t])] = AbstractCall(g)]
      BY <1>1, <1>3, <2>1, SetTopCalls
    <2>3. Remaining(g) = Remaining(f)
      BY <1>3 DEF Remaining
    <2>4. AbstractCall(g) = [AbstractCall(f) EXCEPT !.running = FALSE]
      <3>1. AbstractCall(g) = [event |-> g.event, todo |-> AbstractCall(g).todo,
                               running |-> g.running]
        BY DEF AbstractCall
      <3>2. AbstractCall(f) \in AbstractFrames /\ AbstractCall(f).event = f.event
        BY <1>2, FramesAreCalls DEF AbstractCall
      <3>3. AbstractCall(g).todo = AbstractCall(f).todo
        BY <1>3, <2>3 DEF AbstractCall
      <3>4. AbstractCall(g) = [event |-> f.event, todo |-> AbstractCall(f).todo, running |-> FALSE]
        BY <1>3, <3>1, <3>3
      <3>5. QED
        BY <3>2, <3>4, ChangedCall
    <2>5. AbstractCalls' = [AbstractCalls EXCEPT ![t][Len(AbstractCalls[t])].running = FALSE]
      BY <1>4, <2>2, <2>4 DEF Promise!Top
    <2>6. QED
      BY <1>4, <1>5, <1>6, <2>5 DEF Promise!Return
  <1>9. QED
    BY <1>7, <1>8

(* A dispatch ends when no handler is left. *)
LEMMA FinishDispatchFinishes ==
  ASSUME IInv, NEW t \in Threads, FinishDispatch(t)
  PROVE  Promise!Finish(t)
  <1>1. /\ stack[t] # <<>> /\ ~Top(t).running /\ Remaining(Top(t)) = {} /\ UNCHANGED plugins
        /\ stack' = Pop(t)
    BY DEF FinishDispatch
  <1>2. AbstractCalls[t] # <<>> /\ Promise!Top(t) = AbstractCall(Top(t))
    BY <1>1, TopCall
  <1>3. ~Promise!Top(t).running /\ Promise!Top(t).todo = {}
    BY <1>1, <1>2 DEF AbstractCall, Registrations
  <1>4. AbstractCalls' = Promise!Pop(t)
    BY <1>1, PopCalls
  <1>5. UNCHANGED AbstractHooks
    BY <1>1, SameVectors
  <1>6. QED
    BY <1>2, <1>3, <1>4, <1>5 DEF Promise!Finish

(* Nobody is inside of a dispatch and nothing is hooked in the beginning. *)
LEMMA InitKeepsPromise == Init => Promise!Init
  <1> SUFFICES ASSUME Init PROVE Promise!Init
    OBVIOUS
  <1>1. AbstractCalls = [t \in Threads |-> <<>>]
    BY DEF Init, AbstractCalls
  <1>2. \A e \in Events : Positions(plugins[e]) = {}
    BY DEF Init, EmptyVector, Positions
  <1>3. AbstractHooks = [e \in Events |-> {}]
    BY <1>2 DEF AbstractHooks, Registrations
  <1>4. QED
    BY <1>1, <1>3 DEF Promise!Init

(* Each step is a step of the promise or changes nothing it speaks of. *)
LEMMA StepKeepsPromise ==
  ASSUME IInv, [RegistryNext]_vars
  PROVE  [Promise!Next]_(Promise!svars)
  <1>1. ASSUME NEW t \in Threads, NEW h \in Hookable,
               PluginAddsHook(t, h) \/ PluginRemovesHook(t, h)
        PROVE  [Promise!Next]_(Promise!svars)
    <2>1. h \in Hook
      BY ConstantsAssumption
    <2>2. UNCHANGED stack /\ (add_hook(h) \/ remove_hook(h))
      BY <1>1 DEF PluginAddsHook, PluginRemovesHook
    <2>3. QED
      BY <2>1, <2>2, HookCallsKeepPromise
  <1>2. ASSUME NEW t \in Threads, NEW e \in Events, StartDispatch(t, e)
        PROVE  Promise!Next
    <2>1. Promise!Dispatch(t, e)
      BY <1>2, PushDispatches DEF StartDispatch
    <2>2. QED
      BY <2>1 DEF Promise!Next
  <1>3. ASSUME NEW t \in Threads, DispatchStep(t)
        PROVE  Promise!Next
    <2>1. Promise!Call(t) \/ Promise!CallOther(t) \/ Promise!Return(t) \/ Promise!Finish(t)
      BY <1>3, CallNextCalls, RunCommandsCallsOther, HandlersReturn, FinishDispatchFinishes
      DEF DispatchStep
    <2>2. QED
      BY <2>1 DEF Promise!Next
  <1>4. ASSUME UNCHANGED <<plugins, stack>>
        PROVE  UNCHANGED Promise!svars
    <2>1. UNCHANGED AbstractHooks
      BY <1>4, SameVectors
    <2>2. UNCHANGED AbstractCalls
      BY <1>4 DEF AbstractCalls, AbstractCall, Registrations, Remaining, Positions,
                  RegistrationAt, Before
    <2>3. QED
      BY <2>1, <2>2 DEF Promise!svars
  <1>5. CASE BeginFrame \/ TransferNextFrameTasks
    BY <1>4, <1>5 DEF BeginFrame, TransferNextFrameTasks
  <1>6. CASE RunTask
    <2>1. frame_tasks # <<>> /\ UNCHANGED stack
          /\ (add_hook(Head(frame_tasks).hook) \/ remove_hook(Head(frame_tasks).hook))
      BY <1>6 DEF RunTask
    <2>2. Head(frame_tasks) \in Task
      BY <2>1, HeadTailProperties DEF IInv, TypeOK
    <2>3. Head(frame_tasks).hook \in Hook
      BY <2>2 DEF Task
    <2>4. QED
      BY <2>1, <2>3, HookCallsKeepPromise
  <1>7. CASE DispatchFrame
    <2>1. Promise!Dispatch(Main, FrameEvent)
      BY <1>7, PushDispatches, ConstantsAssumption DEF DispatchFrame
    <2>2. QED
      BY <2>1, ConstantsAssumption DEF Promise!Next
  <1>8. CASE UNCHANGED vars
    BY <1>4, <1>8 DEF vars
  <1>9. QED
    BY <1>1, <1>2, <1>3, <1>5, <1>6, <1>7, <1>8 DEF RegistryNext, FrameStep

(* A walk implements the walk of a snapshot with any number of calls put off. *)
LEMMA RegistryKeepsPromise == RegistrySpec => KeepsPromise
  <1>1. IInv /\ [RegistryNext]_vars => [Promise!Next]_(Promise!svars)
    BY StepKeepsPromise
  <1>2. QED
    BY <1>1, InitKeepsPromise, Invariance, PTL DEF RegistrySpec, KeepsPromise, Promise!Spec

(* The walk of the vector under the read lock implements the walk of a snapshot:   *)
(* a dispatch calls what was hooked when it started, each handler once, lowest     *)
(* priority first, whatever hooks and unhooks other code asks for meanwhile.       *)
THEOREM DispatchKeepsPromise == Spec => KeepsPromise
  <1>1. QED
    BY RegistryKeepsPromise, BoundedIsRegistry, PTL

=============================================================================

-------------------------- MODULE SnapshotDispatch --------------------------
(***************************************************************************)
(* What a dispatch promises to plugin authors, without the vector and its  *)
(* lock: the handlers it will call are settled when it starts.  Each of    *)
(* them is called once, in ascending priority, unless one of them stops    *)
(* the dispatch.  Hooks may come and go at any moment; they matter to      *)
(* later dispatches only.                                                  *)
(***************************************************************************)
EXTENDS Naturals, Sequences

CONSTANTS Threads, Events, Plugins, Handlers, NumPriorities

Registration ==
  [plugin: Plugins, handler: Handlers, priority: 0 .. NumPriorities - 1]

VARIABLES
  hooks,  \* per event: the registrations in force
  calls   \* per thread: the dispatches it is inside of, innermost last

svars == <<hooks, calls>>

Top(t) == calls[t][Len(calls[t])]

Pop(t) == [calls EXCEPT ![t] = SubSeq(@, 1, Len(@) - 1)]

Init ==
  /\ hooks = [e \in Events |-> {}]
  /\ calls = [t \in Threads |-> <<>>]

Hook(e) ==
  /\ UNCHANGED calls
  /\ \E r \in Registration \ hooks[e] : hooks' = [hooks EXCEPT ![e] = @ \cup {r}]

Unhook(e) ==
  /\ UNCHANGED calls
  /\ \E r \in hooks[e] : hooks' = [hooks EXCEPT ![e] = @ \ {r}]

\* The snapshot: todo is what is hooked now.
Dispatch(t, e) ==
  /\ calls' = [calls EXCEPT ![t] =
                 Append(@, [event |-> e, todo |-> hooks[e], running |-> FALSE])]
  /\ UNCHANGED hooks

Call(t) ==
  /\ calls[t] # <<>>
  /\ ~Top(t).running
  /\ \E r \in Top(t).todo :
       /\ \A s \in Top(t).todo : r.priority <= s.priority
       /\ calls' = [calls EXCEPT ![t][Len(calls[t])] =
                      [Top(t) EXCEPT !.todo = @ \ {r}, !.running = TRUE]]
  /\ UNCHANGED hooks

\* At its end a dispatch may run plugin code that is not hooked.
CallOther(t) ==
  /\ calls[t] # <<>>
  /\ ~Top(t).running
  /\ Top(t).todo = {}
  /\ calls' = [calls EXCEPT ![t][Len(calls[t])].running = TRUE]
  /\ UNCHANGED hooks

Return(t) ==
  /\ calls[t] # <<>>
  /\ Top(t).running
  /\ calls' \in {[calls EXCEPT ![t][Len(calls[t])].running = FALSE], Pop(t)}
  /\ UNCHANGED hooks

Finish(t) ==
  /\ calls[t] # <<>>
  /\ ~Top(t).running
  /\ Top(t).todo = {}
  /\ calls' = Pop(t)
  /\ UNCHANGED hooks

Next ==
  \/ \E e \in Events : Hook(e) \/ Unhook(e)
  \/ \E t \in Threads, e \in Events : Dispatch(t, e)
  \/ \E t \in Threads : Call(t) \/ CallOther(t) \/ Return(t) \/ Finish(t)

Spec == Init /\ [][Next]_svars

=============================================================================

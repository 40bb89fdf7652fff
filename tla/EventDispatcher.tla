--------------------------- MODULE EventDispatcher ---------------------------
(***************************************************************************)
(* The hook registry of shinqlx and the dispatch of events to it.          *)
(*                                                                         *)
(* Every event has a dispatcher that keeps its hooks in a vector of plugin *)
(* entries behind a read-write lock.  dispatch() holds the read lock while *)
(* it walks the vector and calls the handlers, one priority level after    *)
(* the other.  A handler is plugin code: while it runs it may dispatch     *)
(* further events, hook and unhook.  Other Python threads do the same      *)
(* between any two of its steps.  add_hook() and remove_hook() only try    *)
(* the write lock; when a dispatch of the event is under way anywhere they *)
(* queue themselves for the next frame and return as if they had           *)
(* succeeded.  The main thread runs the queued calls at the start of the   *)
(* frame after the one that moves them into the scheduler.                 *)
(*                                                                         *)
(* The bodies of add_hook and remove_hook hold the interpreter lock from   *)
(* try_write to the end, so each is one step, as long as comparing two     *)
(* handlers runs no Python code.                                           *)
(***************************************************************************)
EXTENDS Naturals, SequencesExt

CONSTANTS
  Threads,        \* Python threads, the game's main thread among them
  Main,           \* the thread that runs the engine and handle_frame
  Events,         \* the events that have a dispatcher
  FrameEvent,     \* the event dispatched by every handle_frame
  CommandEvents,  \* the events whose dispatch tries the registered commands at its end
  Plugins,        \* plugin names
  Handlers,       \* handler callables
  NumPriorities,  \* priority levels of a dispatcher (5 in the code)
  Hookable,       \* the hooks plugin code ever asks for
  MaxDepth,       \* bound: nested dispatches, per thread
  MaxCalls,       \* bound: dispatches under way at a time, of all threads
  MaxTasks        \* bound: deferred calls pending at a time

Priorities == 0 .. NumPriorities - 1

Hook == [event: Events, plugin: Plugins, handler: Handlers, priority: Priorities]

ASSUME ConstantsAssumption ==
  /\ Main \in Threads
  /\ FrameEvent \in Events
  /\ CommandEvents \subseteq Events
  /\ NumPriorities \in Nat \ {0}
  /\ Hookable \subseteq Hook
  /\ MaxDepth \in [Threads -> Nat]
  /\ MaxCalls \in Nat /\ MaxTasks \in Nat

VARIABLES
  plugins,          \* per event: the plugin entries in order, and their handlers
  stack,            \* per thread: the dispatches it is inside of, innermost last
  phase,            \* where the main thread is in handle_frame
  next_frame_tasks, \* the SimpleQueue that next_frame functions are put into
  frame_tasks       \* the scheduler the main thread runs

vars == <<plugins, stack, phase, next_frame_tasks, frame_tasks>>

Task == [op: {"add_hook", "remove_hook"}, hook: Hook]

Vector == [order: Seq(Plugins), hooks: [Plugins -> [Priorities -> Seq(Handlers)]]]

\* A dispatch: the position of the handler called last, and whether it is running.
Frame == [event: Events, at: Nat \X Nat \X Nat, running: BOOLEAN]

Top(t) == stack[t][Len(stack[t])]

Pop(t) == [stack EXCEPT ![t] = SubSeq(@, 1, Len(@) - 1)]

Push(t, e) ==
  [stack EXCEPT ![t] = Append(@, [event |-> e, at |-> <<0, 0, 0>>, running |-> FALSE])]

SetTop(t, f) == [stack EXCEPT ![t][Len(stack[t])] = f]

-----------------------------------------------------------------------------
(***************************************************************************)
(* The order handlers are called in: by priority, then plugin entry, then  *)
(* age of the hook.  A position names a handler of the vector.             *)
(***************************************************************************)
Positions(r) ==
  UNION {{<<i, j, k>> : k \in DOMAIN r.hooks[r.order[j]][i]} :
           i \in Priorities, j \in DOMAIN r.order}

\* Mutant: the plugin entries in order, each with its priorities.
BeforeByPlugin(x, y) ==
  \/ x[2] < y[2]
  \/ x[2] = y[2] /\ x[1] < y[1]
  \/ x[2] = y[2] /\ x[1] = y[1] /\ x[3] < y[3]

Before(x, y) ==
  \/ x[1] < y[1]
  \/ x[1] = y[1] /\ x[2] < y[2]
  \/ x[1] = y[1] /\ x[2] = y[2] /\ x[3] < y[3]

Remaining(f) == {x \in Positions(plugins[f.event]) : Before(f.at, x)}

IsNext(f, x) ==
  /\ x \in Remaining(f)
  /\ \A y \in Remaining(f) : y = x \/ Before(x, y)

-----------------------------------------------------------------------------
(***************************************************************************)
(* The read lock of an event is held by every dispatch of it that some     *)
(* thread is inside of.  try_write fails exactly then.                     *)
(***************************************************************************)
\* Mutant: the client_command dispatcher gives the lock up before handle_input.
LockedByHandlers(e) ==
  \E t \in Threads : \E d \in DOMAIN stack[t] :
    stack[t][d].event = e /\ stack[t][d].at[1] < NumPriorities

Locked(e) == \E t \in Threads : \E d \in DOMAIN stack[t] : stack[t][d].event = e

Level(h) == plugins[h.event].hooks[h.plugin][h.priority]

IsHooked(h) == h.handler \in Range(Level(h))

\* Mutant: only a direct call looks for the hook, a deferred one does not.
AddRaisesOutsideFrames(h) == IsHooked(h) /\ phase = "idle"

AddRaises(h) == IsHooked(h)

RemoveRaises(h) == ~IsHooked(h)

Store(h, order, level) ==
  [plugins EXCEPT ![h.event] =
     [order |-> order,
      hooks |-> [plugins[h.event].hooks EXCEPT ![h.plugin][h.priority] = level]]]

\* The first hook of a plugin adds its entry at the end.
Insert(h) ==
  LET order == plugins[h.event].order
  IN Store(h,
           IF h.plugin \in Range(order) THEN order ELSE Append(order, h.plugin),
           Append(Level(h), h.handler))

\* A level holds a handler at most once, so retain drops one.  The entry stays.
Delete(h) ==
  Store(h,
        plugins[h.event].order,
        RemoveAt(Level(h), CHOOSE k \in DOMAIN Level(h) : Level(h)[k] = h.handler))

Defer(op, h) == next_frame_tasks' = Append(next_frame_tasks, [op |-> op, hook |-> h])

add_hook(h) ==
  \/ /\ Locked(h.event)
     /\ Defer("add_hook", h)
     /\ UNCHANGED plugins
  \/ /\ ~Locked(h.event)
     /\ plugins' = IF AddRaises(h) THEN plugins ELSE Insert(h)
     /\ UNCHANGED next_frame_tasks

remove_hook(h) ==
  \/ /\ Locked(h.event)
     /\ Defer("remove_hook", h)
     /\ UNCHANGED plugins
  \/ /\ ~Locked(h.event)
     /\ plugins' = IF RemoveRaises(h) THEN plugins ELSE Delete(h)
     /\ UNCHANGED next_frame_tasks

-----------------------------------------------------------------------------
(***************************************************************************)
(* Plugin code: a running handler, a function on a thread of its own, a    *)
(* task a plugin scheduled, which the main thread runs between others, or  *)
(* what a console command of the engine runs between frames.               *)
(***************************************************************************)
RunsPluginCode(t) ==
  IF stack[t] = <<>> THEN t # Main \/ phase # "frame" ELSE Top(t).running

PluginAddsHook(t, h) ==
  /\ RunsPluginCode(t)
  /\ add_hook(h)
  /\ UNCHANGED <<stack, phase, frame_tasks>>

PluginRemovesHook(t, h) ==
  /\ RunsPluginCode(t)
  /\ remove_hook(h)
  /\ UNCHANGED <<stack, phase, frame_tasks>>

\* An engine hook on the main thread, or a call of plugin code that triggers an event.
StartDispatch(t, e) ==
  /\ e # FrameEvent
  /\ RunsPluginCode(t)
  /\ Len(stack[t]) < MaxDepth[t]
  /\ stack' = Push(t, e)
  /\ UNCHANGED <<plugins, phase, next_frame_tasks, frame_tasks>>

CallNext(t) ==
  /\ stack[t] # <<>>
  /\ ~Top(t).running
  /\ \E x \in Remaining(Top(t)) :
       /\ IsNext(Top(t), x)
       /\ stack' = SetTop(t, [Top(t) EXCEPT !.at = x, !.running = TRUE])
  /\ UNCHANGED <<plugins, phase, next_frame_tasks, frame_tasks>>

\* The client_command dispatcher keeps the lock while handle_input runs the commands.
\* They are plugin code like a handler, at a position behind all of them.
RunCommands(t) ==
  /\ stack[t] # <<>>
  /\ ~Top(t).running
  /\ Top(t).event \in CommandEvents
  /\ Top(t).at[1] < NumPriorities
  /\ Remaining(Top(t)) = {}
  /\ stack' = SetTop(t, [Top(t) EXCEPT !.at = <<NumPriorities, 0, 0>>, !.running = TRUE])
  /\ UNCHANGED <<plugins, phase, next_frame_tasks, frame_tasks>>

\* None, RET_NONE, RET_STOP_EVENT, an exception or an unknown value: the loop goes on.
HandlerContinues(t) ==
  /\ stack[t] # <<>>
  /\ Top(t).running
  /\ stack' = SetTop(t, [Top(t) EXCEPT !.running = FALSE])
  /\ UNCHANGED <<plugins, phase, next_frame_tasks, frame_tasks>>

\* RET_STOP, RET_STOP_ALL, or a value that handle_return passes on: dispatch returns.
HandlerStops(t) ==
  /\ stack[t] # <<>>
  /\ Top(t).running
  /\ stack' = Pop(t)
  /\ UNCHANGED <<plugins, phase, next_frame_tasks, frame_tasks>>

FinishDispatch(t) ==
  /\ stack[t] # <<>>
  /\ ~Top(t).running
  /\ Remaining(Top(t)) = {}
  /\ stack' = Pop(t)
  /\ UNCHANGED <<plugins, phase, next_frame_tasks, frame_tasks>>

-----------------------------------------------------------------------------
(***************************************************************************)
(* handle_frame on the main thread: run the due tasks, dispatch the frame  *)
(* event, then move what was queued meanwhile into the scheduler.          *)
(***************************************************************************)
BeginFrame ==
  /\ phase = "idle"
  /\ stack[Main] = <<>>
  /\ phase' = "tasks"
  /\ UNCHANGED <<plugins, stack, next_frame_tasks, frame_tasks>>

\* Mutant: a task that raises stays in the scheduler.
RunTaskUntilItSucceeds ==
  /\ phase = "tasks"
  /\ stack[Main] = <<>>
  /\ frame_tasks # <<>>
  /\ LET task == Head(frame_tasks)
     IN \/ task.op = "add_hook" /\ ~AddRaises(task.hook) /\ add_hook(task.hook)
        \/ task.op = "remove_hook" /\ ~RemoveRaises(task.hook) /\ remove_hook(task.hook)
  /\ frame_tasks' = Tail(frame_tasks)
  /\ UNCHANGED <<stack, phase>>

\* The scheduler drops a task before it runs it; when the task raises, the error is
\* logged and handle_frame runs the scheduler again.
RunTask ==
  /\ phase = "tasks"
  /\ stack[Main] = <<>>
  /\ frame_tasks # <<>>
  /\ frame_tasks' = Tail(frame_tasks)
  /\ LET task == Head(frame_tasks)
     IN \/ task.op = "add_hook" /\ add_hook(task.hook)
        \/ task.op = "remove_hook" /\ remove_hook(task.hook)
  /\ UNCHANGED <<stack, phase>>

DispatchFrame ==
  /\ phase = "tasks"
  /\ stack[Main] = <<>>
  /\ frame_tasks = <<>>
  /\ stack' = Push(Main, FrameEvent)
  /\ phase' = "frame"
  /\ UNCHANGED <<plugins, next_frame_tasks, frame_tasks>>

\* Mutant: the queue is scheduled as one task instead of task by task.
TransferQueueAsOneTask ==
  /\ phase = "frame"
  /\ stack[Main] = <<>>
  /\ frame_tasks' = Append(frame_tasks, next_frame_tasks)
  /\ next_frame_tasks' = <<>>
  /\ phase' = "idle"
  /\ UNCHANGED <<plugins, stack>>

TransferNextFrameTasks ==
  /\ phase = "frame"
  /\ stack[Main] = <<>>
  /\ frame_tasks' = frame_tasks \o next_frame_tasks
  /\ next_frame_tasks' = <<>>
  /\ phase' = "idle"
  /\ UNCHANGED <<plugins, stack>>

-----------------------------------------------------------------------------
EmptyVector == [order |-> <<>>, hooks |-> [p \in Plugins |-> [i \in Priorities |-> <<>>]]]

Init ==
  /\ plugins = [e \in Events |-> EmptyVector]
  /\ stack = [t \in Threads |-> <<>>]
  /\ phase = "idle"
  /\ next_frame_tasks = <<>>
  /\ frame_tasks = <<>>

DispatchStep(t) ==
  \/ CallNext(t) \/ RunCommands(t)
  \/ HandlerContinues(t) \/ HandlerStops(t)
  \/ FinishDispatch(t)

FrameStep == BeginFrame \/ RunTask \/ DispatchFrame \/ TransferNextFrameTasks

\* The registry, with any number of calls put off.
RegistryNext ==
  \/ \E t \in Threads, h \in Hookable : PluginAddsHook(t, h) \/ PluginRemovesHook(t, h)
  \/ \E t \in Threads, e \in Events : StartDispatch(t, e)
  \/ \E t \in Threads : DispatchStep(t)
  \/ FrameStep

RegistrySpec == Init /\ [][RegistryNext]_vars

\* The same with bounds on them, and on dispatches, for which plugin code waits.
HasRoomFor(h) ==
  Locked(h.event) => Len(next_frame_tasks) + Len(frame_tasks) < MaxTasks

MayDispatch == Cardinality(UNION {{t} \X DOMAIN stack[t] : t \in Threads}) < MaxCalls

Next ==
  \/ \E t \in Threads, h \in Hookable :
       HasRoomFor(h) /\ (PluginAddsHook(t, h) \/ PluginRemovesHook(t, h))
  \/ \E t \in Threads, e \in Events : MayDispatch /\ StartDispatch(t, e)
  \/ \E t \in Threads : DispatchStep(t)
  \/ FrameStep

Spec == Init /\ [][Next]_vars

(***************************************************************************)
(* Handlers return, whatever they did before (a handler that loops forever *)
(* hangs the server), and the engine runs frame after frame, so each step  *)
(* of the main loop that keeps becoming possible is taken.                 *)
(***************************************************************************)
Fairness ==
  /\ \A t \in Threads : WF_vars(CallNext(t) \/ FinishDispatch(t))
  /\ \A t \in Threads : \A d \in 1 .. MaxDepth[t] :
       SF_vars(Len(stack[t]) = d /\ (HandlerContinues(t) \/ HandlerStops(t)))
  /\ SF_vars(FrameStep)

FairSpec == Spec /\ Fairness

-----------------------------------------------------------------------------
(***************************************************************************)
(* The vector and the walks of it, as what they promise.                   *)
(***************************************************************************)
RegistrationAt(r, x) ==
  [plugin |-> r.order[x[2]],
   handler |-> r.hooks[r.order[x[2]]][x[1]][x[3]],
   priority |-> x[1]]

Registrations(e, positions) == {RegistrationAt(plugins[e], x) : x \in positions}

AbstractHooks == [e \in Events |-> Registrations(e, Positions(plugins[e]))]

AbstractCall(f) ==
  [event |-> f.event, todo |-> Registrations(f.event, Remaining(f)), running |-> f.running]

AbstractCalls ==
  [t \in Threads |-> [d \in DOMAIN stack[t] |-> AbstractCall(stack[t][d])]]

Promise == INSTANCE SnapshotDispatch WITH hooks <- AbstractHooks, calls <- AbstractCalls

-----------------------------------------------------------------------------
(* The types of the variables. *)
TypeOK ==
  /\ plugins \in [Events -> Vector]
  /\ stack \in [Threads -> Seq(Frame)]
  /\ phase \in {"idle", "tasks", "frame"}
  /\ next_frame_tasks \in Seq(Task)
  /\ frame_tasks \in Seq(Task)

(* Whatever mix of immediate and deferred add_hook and remove_hook calls of   *)
(* any threads built it, the vector of an event has one entry per plugin, an  *)
(* entry for every plugin with a hook, and no handler twice at a priority, so *)
(* no dispatch calls a hook twice.                                            *)
WellFormed(v) ==
  /\ IsInjective(v.order)
  /\ \A n \in Plugins, i \in Priorities :
       /\ IsInjective(v.hooks[n][i])
       /\ v.hooks[n][i] # <<>> => n \in Range(v.order)

RegistryWellFormed == \A e \in Events : WellFormed(plugins[e])

(* While some thread is inside a dispatch of an event no step of any thread   *)
(* changes its vector: the iterators of dispatch stay valid.                  *)
VectorsHoldStill ==
  [][\A t \in Threads : \A d \in DOMAIN stack[t] :
       plugins'[stack[t][d].event] = plugins[stack[t][d].event]]_vars

(* The walk of the vector under the read lock behaves as a walk of a snapshot *)
(* taken when the dispatch started, interleaved with anything at all.         *)
KeepsPromise == Promise!Spec

(* A hook or unhook that was put off reaches the scheduler and is run there,  *)
(* also when an earlier one in the queue raises.                              *)
QueuesDrain ==
  /\ next_frame_tasks # <<>> ~> next_frame_tasks = <<>>
  /\ frame_tasks # <<>> ~> frame_tasks = <<>>

=============================================================================

--------------------------- MODULE CommandRegistry ---------------------------
(***************************************************************************)
(* The command registry (shinqlx.COMMANDS), what plugins do to it, and the *)
(* inputs that walk it.                                                    *)
(*                                                                         *)
(* handle_input holds the read lock of the registry while it tries the     *)
(* commands an input answers to.  Each is announced by the command event   *)
(* and then run: both are plugin code, which may register, unregister,     *)
(* unload a plugin, or trigger another input; other threads do the same    *)
(* between any two steps.  add_command and remove_command look whether the *)
(* command is registered first, and only then whether the lock is free: a  *)
(* call made while some input is under way is put off to the next frame,   *)
(* where it looks again.  (The hook registry does it the other way round.) *)
(*                                                                         *)
(* A plugin keeps a list of its commands, which unloading goes by.  A      *)
(* command stands for its names, its handler and the instance it belongs   *)
(* to: two that agree in names and handler are the same command here.      *)
(***************************************************************************)
EXTENDS Naturals, Sequences, Functions

CONSTANTS
  Threads,        \* Python threads, the game's main thread among them
  Main,           \* the thread that runs the engine and handle_frame
  Instances,      \* plugin instances, one for every construction
  Commands,       \* commands, by names and handler
  Owner,          \* the instance a command belongs to
  Inputs,         \* what players type
  Answering,      \* per input: the commands that name, channel and permission let answer
  NumPriorities,  \* priority levels (5 in the code)
  Offered,        \* the commands and priorities plugin code ever registers
  Unloaders,      \* bound: the threads that unload plugins
  MaxDepth,       \* bound: nested inputs, per thread
  MaxTasks,       \* bound: calls put off at a time, but for those of an unload
  MaxList         \* bound: entries of a plugin's command list

Priorities == 1 .. NumPriorities

ASSUME RegistryAssumption ==
  /\ Main \in Threads
  /\ Owner \in [Commands -> Instances]
  /\ Answering \in [Inputs -> SUBSET Commands]
  /\ NumPriorities \in Nat \ {0}
  /\ Offered \subseteq Commands \X Priorities
  /\ Unloaders \subseteq Threads
  /\ MaxDepth \in [Threads -> Nat]
  /\ MaxTasks \in Nat /\ MaxList \in Nat

VARIABLES
  commands,         \* the registry: per priority, the commands in order
  listed,           \* per instance: Plugin.commands
  status,           \* per instance: how far its life has gone
  inputs,           \* per thread: the inputs it is inside of, innermost last
  purge,            \* per thread: the unload it is inside of
  phase,            \* where the main thread is in handle_frame
  next_frame_tasks, \* the SimpleQueue that next_frame functions are put into
  frame_tasks,      \* the scheduler the main thread runs
  last,             \* history: the last call for a command that raised nothing
  overtaken,        \* history: commands called for at once while a call was put off
  strays            \* history: registered commands that no unload knows of

frameVars == <<phase, next_frame_tasks, frame_tasks>>
pluginVars == <<listed, status, purge>>
histories == <<last, overtaken, strays>>
vars == <<commands, inputs, frameVars, pluginVars, histories>>

Task == [op: {"add_command", "remove_command"}, cmd: Commands, priority: Priorities]

\* An input: the position tried last, and what is going on there.  had and tried are
\* histories: the registry it found when it began, and the commands tried so far.
Frame ==
  [input: Inputs, at: Nat \X Nat, stage: {"walking", "asking", "running"},
   had: [Priorities -> Seq(Commands)], tried: Seq([at: Nat \X Nat, cmd: Commands])]

NoPurge == [instance |-> "none"]

Top(t) == inputs[t][Len(inputs[t])]

Pop(t) == [inputs EXCEPT ![t] = SubSeq(@, 1, Len(@) - 1)]

SetTop(t, f) == [inputs EXCEPT ![t][Len(inputs[t])] = f]

-----------------------------------------------------------------------------
Registered(c) == \E i \in Priorities : c \in Range(commands[i])

\* The read lock is held by every input some thread is inside of.
Locked == \E t \in Threads : inputs[t] # <<>>

Pending(op, c) ==
  \E q \in {frame_tasks, next_frame_tasks} :
    \E k \in DOMAIN q : q[k].op = op /\ q[k].cmd = c

PutOff(c) == Pending("add_command", c) \/ Pending("remove_command", c)

Alive(g) == status[g] \in {"constructing", "loaded"}

\* Nothing will look at the list of the instance again.
BehindUnload(g) == ~Alive(g) \/ \E t \in Threads : purge[t].instance = g

\* Mutant: the priority of a put-off call is counted from 0.
DeferFromZero(op, c, i) ==
  next_frame_tasks' = Append(next_frame_tasks, [op |-> op, cmd |-> c, priority |-> i - 1])

Defer(op, c, i) ==
  next_frame_tasks' = Append(next_frame_tasks, [op |-> op, cmd |-> c, priority |-> i])

UpdateStrays(more) == strays' = {c \in strays \cup more : Registered(c)'}

\* A call that raised nothing.
Succeeded(op, c) ==
  /\ last' = [last EXCEPT ![c] = op]
  /\ overtaken' = IF PutOff(c) /\ ~Locked THEN overtaken \cup {c}
                  ELSE IF PutOff(c) THEN overtaken ELSE overtaken \ {c}

\* Mutant: a call that was put off is not checked again.
AddRaisesOutsideFrames(c) == Registered(c) /\ phase # "tasks"

AddRaises(c) == Registered(c)

add_command(c, i) ==
  \/ /\ AddRaises(c)
     /\ UNCHANGED <<commands, next_frame_tasks>>
  \/ /\ ~AddRaises(c)
     /\ Locked
     /\ Defer("add_command", c, i)
     /\ UNCHANGED commands
  \/ /\ ~AddRaises(c)
     /\ ~Locked
     /\ commands' = [commands EXCEPT ![i] = Append(@, c)]
     /\ UNCHANGED next_frame_tasks

\* Vec::retain: the commands but c, in their order.
Retained(s, c) ==
  LET kept[k \in 0 .. Len(s)] ==
        IF k = 0 THEN <<>>
        ELSE IF s[k] = c THEN kept[k - 1] ELSE Append(kept[k - 1], s[k])
  IN kept[Len(s)]

Without(c) == [i \in Priorities |-> Retained(commands[i], c)]

\* Mutant: the command is taken out at once, whoever walks the registry.
remove_commandAtOnce(c) ==
  /\ commands' = Without(c)
  /\ UNCHANGED next_frame_tasks

\* Mutant: the lock is tried before the registry is searched, as remove_hook does.
remove_commandLockFirst(c) ==
  \/ /\ Locked
     /\ Defer("remove_command", c, 1)
     /\ UNCHANGED commands
  \/ /\ ~Locked
     /\ commands' = Without(c)
     /\ UNCHANGED next_frame_tasks

remove_command(c) ==
  \/ /\ ~Registered(c)
     /\ UNCHANGED <<commands, next_frame_tasks>>
  \/ /\ Registered(c)
     /\ Locked
     /\ Defer("remove_command", c, 1)
     /\ UNCHANGED commands
  \/ /\ Registered(c)
     /\ ~Locked
     /\ commands' = Without(c)
     /\ UNCHANGED next_frame_tasks

-----------------------------------------------------------------------------
(***************************************************************************)
(* Plugin code: a running command or a handler of the command event, a     *)
(* function on a thread of its own, a task, a handler of another event.    *)
(***************************************************************************)
RunsPluginCode(t) ==
  /\ purge[t] = NoPurge
  /\ inputs[t] # <<>> => Top(t).stage # "walking"

HasRoom == Locked => Len(next_frame_tasks) + Len(frame_tasks) < MaxTasks

\* Plugin.add_command: the list first; an error of the registry leaves it there.
PluginAddsCommand(t, c, i) ==
  /\ RunsPluginCode(t)
  /\ status[Owner[c]] # "absent"
  /\ HasRoom
  /\ Len(listed[Owner[c]]) < MaxList
  /\ listed' = [listed EXCEPT ![Owner[c]] = Append(@, c)]
  /\ add_command(c, i)
  /\ IF AddRaises(c) THEN UNCHANGED <<last, overtaken>> ELSE Succeeded("add_command", c)
  /\ UpdateStrays(IF BehindUnload(Owner[c]) /\ ~Registered(c) THEN {c} ELSE {})
  /\ UNCHANGED <<inputs, status, purge, phase, frame_tasks>>

\* Plugin.remove_command: nothing happens to a command that is not on the list, and an
\* error of the registry keeps it there.
PluginRemovesCommand(t, c) ==
  /\ RunsPluginCode(t)
  /\ c \in Range(listed[Owner[c]])
  /\ HasRoom
  /\ remove_command(c)
  /\ IF Registered(c)
     THEN /\ listed' = [listed EXCEPT ![Owner[c]] = Retained(@, c)]
          /\ Succeeded("remove_command", c)
     ELSE UNCHANGED <<listed, last, overtaken>>
  /\ UpdateStrays({})
  /\ UNCHANGED <<inputs, status, purge, phase, frame_tasks>>

-----------------------------------------------------------------------------
(***************************************************************************)
(* Instances come and go.  The constructor and the handlers of the unload  *)
(* event are plugin code like any other; code of an instance outlives it.  *)
(***************************************************************************)
Construct(t, g) ==
  /\ RunsPluginCode(t)
  /\ status[g] = "absent"
  /\ status' = [status EXCEPT ![g] = "constructing"]
  /\ UNCHANGED <<commands, listed, purge, inputs, frameVars, histories>>

\* When the constructor raises, nobody keeps the list.
EndConstruct(g) ==
  /\ status[g] = "constructing"
  /\ UNCHANGED <<commands, listed, purge, inputs, frameVars, last, overtaken>>
  /\ \/ /\ status' = [status EXCEPT ![g] = "loaded"]
        /\ UNCHANGED strays
     \/ /\ status' = [status EXCEPT ![g] = "gone"]
        /\ UpdateStrays(Range(listed[g]))

\* try_unload_plugin, after the hooks: the list is copied, and gone through.
Unload(t, g) ==
  /\ t \in Unloaders
  /\ RunsPluginCode(t)
  /\ status[g] = "loaded"
  /\ purge' = [purge EXCEPT ![t] = [instance |-> g, todo |-> listed[g]]]
  /\ UNCHANGED <<commands, listed, status, inputs, frameVars, histories>>

\* Mutant: the first command that cannot be removed ends the unload's work.
PurgeCommandUntilError(t) ==
  /\ purge[t] # NoPurge
  /\ purge[t].todo # <<>>
  /\ LET c == Head(purge[t].todo)
     IN /\ remove_command(c)
        /\ purge' = [purge EXCEPT ![t].todo = IF Registered(c) THEN Tail(@) ELSE <<>>]
        /\ IF Registered(c) THEN Succeeded("remove_command", c)
                            ELSE UNCHANGED <<last, overtaken>>
  /\ UpdateStrays({})
  /\ UNCHANGED <<listed, status, inputs, phase, frame_tasks>>

\* An error of remove_command is logged.
PurgeCommand(t) ==
  /\ purge[t] # NoPurge
  /\ purge[t].todo # <<>>
  /\ LET c == Head(purge[t].todo)
     IN /\ remove_command(c)
        /\ purge' = [purge EXCEPT ![t].todo = Tail(@)]
        /\ IF Registered(c) THEN Succeeded("remove_command", c)
                            ELSE UNCHANGED <<last, overtaken>>
  /\ UpdateStrays({})
  /\ UNCHANGED <<listed, status, inputs, phase, frame_tasks>>

EndPurge(t) ==
  /\ purge[t] # NoPurge
  /\ purge[t].todo = <<>>
  /\ status' = [status EXCEPT ![purge[t].instance] = "gone"]
  /\ purge' = [purge EXCEPT ![t] = NoPurge]
  /\ UNCHANGED <<commands, listed, inputs, frameVars, histories>>

-----------------------------------------------------------------------------
(***************************************************************************)
(* handle_input: by priority, then by age, the commands that answer.       *)
(***************************************************************************)
Positions(registry) == UNION {{i} \X DOMAIN registry[i] : i \in Priorities}

At(registry, x) == registry[x[1]][x[2]]

Before(x, y) == x[1] < y[1] \/ (x[1] = y[1] /\ x[2] < y[2])

\* Where the commands are that answer to an input.
Answers(registry, i) == {x \in Positions(registry) : At(registry, x) \in Answering[i]}

Remaining(f) == {x \in Answers(commands, f.input) : Before(f.at, x)}

\* A client command, a chat message or a console command of the engine on the main
\* thread, or a call of plugin code that amounts to one.
StartInput(t, i) ==
  /\ RunsPluginCode(t)
  /\ Len(inputs[t]) < MaxDepth[t]
  /\ inputs' = [inputs EXCEPT ![t] =
                  Append(@, [input |-> i, at |-> <<0, 0>>, stage |-> "walking",
                             had |-> commands, tried |-> <<>>])]
  /\ UNCHANGED <<commands, frameVars, pluginVars, histories>>

\* The next command is announced: the command event is dispatched.
TryNext(t) ==
  /\ inputs[t] # <<>>
  /\ Top(t).stage = "walking"
  /\ \E x \in Remaining(Top(t)) :
       /\ \A y \in Remaining(Top(t)) : y = x \/ Before(x, y)
       /\ inputs' = SetTop(t, [Top(t) EXCEPT !.at = x, !.stage = "asking",
                                             !.tried = Append(@, [at |-> x, cmd |-> At(commands, x)])])
  /\ UNCHANGED <<commands, frameVars, pluginVars, histories>>

Resumes(t) == purge[t] = NoPurge /\ inputs[t] # <<>>

\* The event is not denied, and the command runs.
CommandAllowed(t) ==
  /\ Resumes(t)
  /\ Top(t).stage = "asking"
  /\ inputs' = SetTop(t, [Top(t) EXCEPT !.stage = "running"])
  /\ UNCHANGED <<commands, frameVars, pluginVars, histories>>

\* RET_NONE, RET_STOP_EVENT, RET_USAGE, or an unknown value: the loop goes on.
CommandContinues(t) ==
  /\ Resumes(t)
  /\ Top(t).stage = "running"
  /\ inputs' = SetTop(t, [Top(t) EXCEPT !.stage = "walking"])
  /\ UNCHANGED <<commands, frameVars, pluginVars, histories>>

\* The event is denied; or the command answers RET_STOP, RET_STOP_ALL, or raises.
InputStopped(t) ==
  /\ Resumes(t)
  /\ Top(t).stage # "walking"
  /\ inputs' = Pop(t)
  /\ UNCHANGED <<commands, frameVars, pluginVars, histories>>

InputEnds(t) ==
  /\ inputs[t] # <<>>
  /\ Top(t).stage = "walking"
  /\ Remaining(Top(t)) = {}
  /\ inputs' = Pop(t)
  /\ UNCHANGED <<commands, frameVars, pluginVars, histories>>

-----------------------------------------------------------------------------
(***************************************************************************)
(* handle_frame on the main thread.  Handlers of the frame event run in    *)
(* phase "frame".                                                          *)
(***************************************************************************)
MainIsFree == inputs[Main] = <<>> /\ purge[Main] = NoPurge

BeginFrame ==
  /\ MainIsFree
  /\ phase = "idle"
  /\ phase' = "tasks"
  /\ UNCHANGED <<commands, inputs, next_frame_tasks, frame_tasks, pluginVars, histories>>

\* A task that raises is dropped.  A put-off add_command may find its instance gone, or
\* the command off the list by now.
RunTask ==
  /\ MainIsFree
  /\ phase = "tasks"
  /\ frame_tasks # <<>>
  /\ frame_tasks' = Tail(frame_tasks)
  /\ LET task == Head(frame_tasks)
         c == task.cmd
     IN \/ /\ task.op = "add_command"
           /\ add_command(c, task.priority)
           /\ UpdateStrays(IF ~Registered(c) /\ (BehindUnload(Owner[c])
                                                   \/ c \notin Range(listed[Owner[c]]))
                           THEN {c} ELSE {})
        \/ /\ task.op = "remove_command"
           /\ remove_command(c)
           /\ UpdateStrays({})
  /\ UNCHANGED <<inputs, phase, pluginVars, last, overtaken>>

TasksDone ==
  /\ MainIsFree
  /\ phase = "tasks"
  /\ frame_tasks = <<>>
  /\ phase' = "frame"
  /\ UNCHANGED <<commands, inputs, next_frame_tasks, frame_tasks, pluginVars, histories>>

TransferNextFrameTasks ==
  /\ MainIsFree
  /\ phase = "frame"
  /\ frame_tasks' = frame_tasks \o next_frame_tasks
  /\ next_frame_tasks' = <<>>
  /\ phase' = "idle"
  /\ UNCHANGED <<commands, inputs, pluginVars, histories>>

-----------------------------------------------------------------------------
Init ==
  /\ commands = [i \in Priorities |-> <<>>]
  /\ listed = [g \in Instances |-> <<>>]
  /\ status = [g \in Instances |-> "absent"]
  /\ inputs = [t \in Threads |-> <<>>]
  /\ purge = [t \in Threads |-> NoPurge]
  /\ phase = "idle"
  /\ next_frame_tasks = <<>>
  /\ frame_tasks = <<>>
  /\ last = [c \in Commands |-> "remove_command"]
  /\ overtaken = {}
  /\ strays = {}

PluginStep(t) ==
  \/ \E c \in Commands : PluginRemovesCommand(t, c)
  \/ \E x \in Offered : PluginAddsCommand(t, x[1], x[2])
  \/ \E g \in Instances : Construct(t, g) \/ Unload(t, g)
  \/ PurgeCommand(t) \/ EndPurge(t)

InputStep(t) ==
  \/ \E i \in Inputs : StartInput(t, i)
  \/ TryNext(t) \/ CommandAllowed(t) \/ CommandContinues(t)
  \/ InputStopped(t) \/ InputEnds(t)

FrameStep == BeginFrame \/ RunTask \/ TasksDone \/ TransferNextFrameTasks

Next ==
  \/ \E t \in Threads : PluginStep(t) \/ InputStep(t)
  \/ \E g \in Instances : EndConstruct(g)
  \/ FrameStep

Spec == Init /\ [][Next]_vars

-----------------------------------------------------------------------------
(* The types of the variables. *)
TypeOK ==
  /\ commands \in [Priorities -> Seq(Commands)]
  /\ listed \in [Instances -> Seq(Commands)]
  /\ status \in [Instances -> {"absent", "constructing", "loaded", "gone"}]
  /\ inputs \in [Threads -> Seq(Frame)]
  /\ purge \in [Threads -> {NoPurge} \cup [instance: Instances, todo: Seq(Commands)]]
  /\ phase \in {"idle", "tasks", "frame"}
  /\ next_frame_tasks \in Seq(Task)
  /\ frame_tasks \in Seq(Task)
  /\ last \in [Commands -> {"add_command", "remove_command"}]
  /\ overtaken \subseteq Commands
  /\ strays \subseteq Commands

(* "Commands are unique by (command.name, command.handler)", across all       *)
(* priorities, whatever mix of direct and put-off calls of any threads built  *)
(* the registry: no input runs a command twice.                               *)
CommandsUnique ==
  /\ \A i \in Priorities : IsInjective(commands[i])
  /\ \A i, j \in Priorities : i # j => Range(commands[i]) \cap Range(commands[j]) = {}

(* An input tries the commands that were registered when it began, in their   *)
(* order, each once and leaving out none, whatever is registered,             *)
(* unregistered and unloaded meanwhile: also a command whose plugin is gone   *)
(* by then.                                                                   *)
TriesWhatItFound ==
  \A t \in Threads : \A d \in DOMAIN inputs[t] :
    LET f == inputs[t][d]
        found == Answers(f.had, f.input)
    IN /\ \A k \in DOMAIN f.tried :
            f.tried[k].at \in found /\ f.tried[k].cmd = At(f.had, f.tried[k].at)
       /\ \A j, k \in DOMAIN f.tried : j < k => Before(f.tried[j].at, f.tried[k].at)
       /\ \A x \in found : x \in Remaining(f) \/ \E k \in DOMAIN f.tried : f.tried[k].at = x

(* Of several calls for a command that raised nothing the last one counts,    *)
(* once nothing is put off, though calls are put off and look at the registry *)
(* both when they are made and when they run; unless one was made at once     *)
(* while an earlier one was still put off, and so overtook it.                *)
LastCallCounts ==
  \A c \in Commands :
    ~PutOff(c) /\ c \notin overtaken => (Registered(c) <=> last[c] = "add_command")

(* Unloading purges: a registered command of an instance that is not there    *)
(* any more is about to be unregistered by a call its unload put off, unless  *)
(* the unload could not know of it: it was registered during or after the     *)
(* unload, at once or by a call put off earlier, which an unregistration made *)
(* before that cannot find; a put-off call ran when the list had lost the     *)
(* command; or the constructor raised.                                        *)
UnloadPurgesCommands ==
  \A c \in Commands : Registered(c) =>
    \/ Alive(Owner[c])
    \/ Pending("remove_command", c)
    \/ c \in strays

=============================================================================

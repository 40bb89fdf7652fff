--------------------------- MODULE PluginLifecycle ---------------------------
(***************************************************************************)
(* Loading, unloading and reloading plugins on top of the hook registry.   *)
(*                                                                         *)
(* Every construction of a plugin makes a new instance (a generation) with *)
(* handlers of its own, for bound methods of different instances are not   *)
(* equal.  The instance keeps a list of the hooks it asked for, and unload *)
(* calls remove_hook for each entry of that list.  The list is changed at  *)
(* once, the registry perhaps a frame later.                               *)
(*                                                                         *)
(* Loading runs the constructor, and unloading the handlers of the unload  *)
(* event, so neither is one step: other threads come in between, and the   *)
(* constructor or the handler may dispatch events, load and unload itself. *)
(* So every thread has a stack of jobs next to its stack of dispatches.    *)
(***************************************************************************)
EXTENDS EventDispatcher

CONSTANTS
  UnloadEvent,
  Loaders,     \* bound: the threads that load and unload
  Generation,  \* the instance a handler belongs to
  MaxGen,      \* bound: constructions of one plugin
  MaxList      \* bound: entries of a hook list

Gens == 1 .. MaxGen

ASSUME LifecycleAssumption ==
  /\ UnloadEvent \in Events
  /\ Loaders \subseteq Threads
  /\ MaxGen \in Nat /\ MaxList \in Nat
  /\ Generation \in [Handlers -> Gens]

VARIABLES
  built,    \* per plugin: the constructions so far
  loaded,   \* Plugin._loaded_plugins: the generation in force, 0 if there is none
  hooks,    \* per instance: its hook list
  jobs,     \* per thread: the loads, unloads and reloads it is inside of, innermost last
  strays    \* history: registered hooks that an unload does not, or did not, know of

lifecycleVars == <<built, loaded, hooks, jobs>>

allVars == <<vars, lifecycleVars, strays>>

\* depth tells the dispatches of a job from those it was called from.
Jobs ==
  [stage: {"unloading"}, plugin: Plugins, reload: BOOLEAN, depth: Nat]
    \cup [stage: {"purging"}, plugin: Plugins, reload: BOOLEAN, depth: Nat,
          gen: Gens, todo: Seq(Hook)]
    \cup [stage: {"constructing"}, plugin: Plugins, depth: Nat, gen: Gens]

Job(t) == jobs[t][Len(jobs[t])]

EnterJob(t, j) == jobs' = [jobs EXCEPT ![t] = Append(@, j)]

SetJob(t, j) == jobs' = [jobs EXCEPT ![t][Len(jobs[t])] = j]

LeaveJob(t) == jobs' = [jobs EXCEPT ![t] = SubSeq(@, 1, Len(@) - 1)]

\* The thread runs the code of its innermost job, not a handler called underneath.
Busy(t) == jobs[t] # <<>> /\ Len(stack[t]) = Job(t).depth

AtJob(t, stage) == Busy(t) /\ Job(t).stage = stage

Gen(h) == Generation[h.handler]

Constructing(n, g) ==
  \E t \in Threads : \E j \in Range(jobs[t]) :
    j.stage = "constructing" /\ j.plugin = n /\ j.gen = g

Alive(n, g) == loaded[n] = g \/ Constructing(n, g)

Purging(n, g) ==
  \E t \in Threads : \E j \in Range(jobs[t]) :
    j.stage = "purging" /\ j.plugin = n /\ j.gen = g

BehindUnload(h) == ~Alive(h.plugin, Gen(h)) \/ Purging(h.plugin, Gen(h))

\* The hooks of a loaded instance that generation g of the plugin pushes out unpurged.
Displaced(n, g) ==
  IF loaded[n] \in {0, g} THEN {} ELSE Range(hooks[n][loaded[n]])

UpdateStrays(more) == strays' = {h \in strays \cup more : IsHooked(h)'}

-----------------------------------------------------------------------------
(***************************************************************************)
(* Plugin.add_hook and Plugin.remove_hook, by the constructor or by any    *)
(* code of an instance that was ever constructed: a thread, a handler or a *)
(* scheduled function of an instance outlives its unload.                  *)
(***************************************************************************)
RunsInstance(t, h) ==
  IF Busy(t) THEN AtJob(t, "constructing") /\ Job(t).plugin = h.plugin /\ Job(t).gen = Gen(h)
  ELSE Gen(h) <= built[h.plugin]

InstanceAddsHook(t, h) ==
  /\ RunsInstance(t, h)
  /\ Len(hooks[h.plugin][Gen(h)]) < MaxList
  /\ HasRoomFor(h)
  /\ PluginAddsHook(t, h)
  /\ hooks' = IF Locked(h.event) \/ ~AddRaises(h)
              THEN [hooks EXCEPT ![h.plugin][Gen(h)] = Append(@, h)] ELSE hooks
  /\ UpdateStrays(IF BehindUnload(h) THEN {h} ELSE {})
  /\ UNCHANGED <<built, loaded, jobs>>

\* Vec::retain: the entries but h, in their order.
Retained(s, h) ==
  LET kept[k \in 0 .. Len(s)] ==
        IF k = 0 THEN <<>>
        ELSE IF s[k] = h THEN kept[k - 1] ELSE Append(kept[k - 1], s[k])
  IN kept[Len(s)]

InstanceRemovesHook(t, h) ==
  /\ RunsInstance(t, h)
  /\ HasRoomFor(h)
  /\ PluginRemovesHook(t, h)
  /\ hooks' = IF Locked(h.event) \/ ~RemoveRaises(h)
              THEN [hooks EXCEPT ![h.plugin][Gen(h)] = Retained(@, h)]
              ELSE hooks
  /\ UpdateStrays({})
  /\ UNCHANGED <<built, loaded, jobs>>

-----------------------------------------------------------------------------
BeginUnload(t, n, reload) ==
  /\ StartDispatch(t, UnloadEvent)
  /\ EnterJob(t, [stage |-> "unloading", plugin |-> n, reload |-> reload,
                  depth |-> Len(stack[t])])
  /\ UNCHANGED <<built, loaded>>

Construction(n, depth) ==
  [stage |-> "constructing", plugin |-> n, depth |-> depth, gen |-> built[n] + 1]

Construct(n) ==
  /\ built[n] < MaxGen
  /\ built' = [built EXCEPT ![n] = @ + 1]

BeginConstruct(t, n) ==
  /\ Construct(n)
  /\ EnterJob(t, Construction(n, Len(stack[t])))
  /\ UNCHANGED <<vars, loaded>>

\* A constructor is plugin code, at its own depth; the rest of a load or unload is not.
RunsConstructorOrHandler(t) ==
  /\ RunsPluginCode(t)
  /\ Busy(t) => AtJob(t, "constructing")

MayBegin(t) == t \in Loaders /\ RunsConstructorOrHandler(t)

\* Loading a plugin that is loaded reloads it; reloading one that is not loads it.
LoadOrReload(t, n) ==
  /\ MayBegin(t)
  /\ IF loaded[n] # 0 THEN BeginUnload(t, n, TRUE) ELSE BeginConstruct(t, n)
  /\ UNCHANGED <<hooks, strays>>

Unload(t, n) ==
  /\ MayBegin(t)
  /\ loaded[n] # 0
  /\ BeginUnload(t, n, FALSE)
  /\ UNCHANGED <<hooks, strays>>

\* After an unload, with or without an error, reload_plugin goes on to load, and the
\* file or the import may fail it before the constructor runs.
EndUnload(t) ==
  \/ /\ Job(t).reload
     /\ Construct(Job(t).plugin)
     /\ SetJob(t, Construction(Job(t).plugin, Job(t).depth))
  \/ /\ LeaveJob(t)
     /\ UNCHANGED built

Purge(t, n, g, list) ==
  SetJob(t, [stage |-> "purging", plugin |-> n, reload |-> Job(t).reload,
             depth |-> Job(t).depth, gen |-> g, todo |-> list])

\* Mutant: the plugin is still taken to be loaded after the dispatch.
BeginPurgeUnchecked(t) ==
  /\ AtJob(t, "unloading")
  /\ LET n == Job(t).plugin
     IN Purge(t, n, loaded[n], IF loaded[n] = 0 THEN <<>> ELSE hooks[n][loaded[n]])
  /\ UNCHANGED <<vars, built, loaded, hooks, strays>>

\* The unload event has been dispatched; the hook list is copied, if the plugin is
\* still loaded.
BeginPurge(t) ==
  /\ AtJob(t, "unloading")
  /\ LET n == Job(t).plugin
     IN \/ /\ loaded[n] # 0
           /\ Purge(t, n, loaded[n], hooks[n][loaded[n]])
           /\ UNCHANGED built
        \/ /\ loaded[n] = 0
           /\ EndUnload(t)
  /\ UNCHANGED <<vars, loaded, hooks, strays>>

\* Mutant: a hook whose event is being dispatched is left to the plugin.
PurgeUnlockedHook(t) ==
  /\ AtJob(t, "purging")
  /\ Job(t).todo # <<>>
  /\ IF Locked(Head(Job(t).todo).event) THEN UNCHANGED <<plugins, next_frame_tasks>>
                                        ELSE remove_hook(Head(Job(t).todo))
  /\ SetJob(t, [Job(t) EXCEPT !.todo = Tail(@)])
  /\ UpdateStrays({})
  /\ UNCHANGED <<stack, phase, frame_tasks, built, loaded, hooks>>

\* Mutant: the hook is taken out of the vector whoever walks it.
PurgeHookAtOnce(t) ==
  /\ AtJob(t, "purging")
  /\ Job(t).todo # <<>>
  /\ LET h == Head(Job(t).todo) IN plugins' = IF RemoveRaises(h) THEN plugins ELSE Delete(h)
  /\ SetJob(t, [Job(t) EXCEPT !.todo = Tail(@)])
  /\ UpdateStrays({})
  /\ UNCHANGED <<stack, phase, next_frame_tasks, frame_tasks, built, loaded, hooks>>

\* An error of remove_hook is logged.
PurgeHook(t) ==
  /\ AtJob(t, "purging")
  /\ Job(t).todo # <<>>
  /\ remove_hook(Head(Job(t).todo))
  /\ SetJob(t, [Job(t) EXCEPT !.todo = Tail(@)])
  /\ UpdateStrays({})
  /\ UNCHANGED <<stack, phase, frame_tasks, built, loaded, hooks>>

\* What is dropped is the instance loaded by now; a racing reload may have replaced
\* the one that was purged.
EndPurge(t) ==
  /\ AtJob(t, "purging")
  /\ Job(t).todo = <<>>
  /\ loaded' = [loaded EXCEPT ![Job(t).plugin] = 0]
  /\ EndUnload(t)
  /\ UNCHANGED <<vars, hooks>>
  /\ UpdateStrays(Displaced(Job(t).plugin, Job(t).gen))

\* Nobody looks whether a racing load has finished first.
Constructed(t) ==
  /\ AtJob(t, "constructing")
  /\ loaded' = [loaded EXCEPT ![Job(t).plugin] = Job(t).gen]
  /\ LeaveJob(t)
  /\ UNCHANGED <<vars, built, hooks>>
  /\ UpdateStrays(Displaced(Job(t).plugin, Job(t).gen))

\* The constructor raises.  What it hooked stays hooked.
ConstructorFails(t) ==
  /\ AtJob(t, "constructing")
  /\ LeaveJob(t)
  /\ UNCHANGED <<vars, built, loaded, hooks>>
  /\ UpdateStrays(Range(hooks[Job(t).plugin][Job(t).gen]))

-----------------------------------------------------------------------------
\* A deferred add_hook may find its instance gone, or the hook off the list by now.
RunsTask ==
  /\ ~Busy(Main)
  /\ RunTask
  /\ LET h == Head(frame_tasks).hook
     IN UpdateStrays(IF BehindUnload(h) \/ h \notin Range(hooks[h.plugin][Gen(h)])
                     THEN {h} ELSE {})
  /\ UNCHANGED lifecycleVars

OtherFrameStep ==
  /\ ~Busy(Main)
  /\ BeginFrame \/ DispatchFrame \/ TransferNextFrameTasks
  /\ UNCHANGED <<lifecycleVars, strays>>

OtherDispatchStep(t) ==
  /\ \/ ~Busy(t) /\ DispatchStep(t)
     \/ RunsConstructorOrHandler(t) /\ \E e \in Events \ {UnloadEvent} : StartDispatch(t, e)
  /\ UNCHANGED <<lifecycleVars, strays>>

LifecycleInit ==
  /\ Init
  /\ built = [n \in Plugins |-> 0]
  /\ loaded = [n \in Plugins |-> 0]
  /\ hooks = [n \in Plugins |-> [g \in Gens |-> <<>>]]
  /\ jobs = [t \in Threads |-> <<>>]
  /\ strays = {}

LifecycleNext ==
  \/ \E t \in Threads, h \in Hookable : InstanceAddsHook(t, h) \/ InstanceRemovesHook(t, h)
  \/ \E t \in Threads, n \in Plugins : LoadOrReload(t, n) \/ Unload(t, n)
  \/ \E t \in Threads :
       BeginPurge(t) \/ PurgeHook(t) \/ EndPurge(t) \/ Constructed(t) \/ ConstructorFails(t)
  \/ RunsTask
  \/ OtherFrameStep
  \/ \E t \in Threads : OtherDispatchStep(t)

LifecycleSpec == LifecycleInit /\ [][LifecycleNext]_allVars

-----------------------------------------------------------------------------
(* The types of the variables of this module. *)
LifecycleTypeOK ==
  /\ built \in [Plugins -> 0 .. MaxGen]
  /\ loaded \in [Plugins -> 0 .. MaxGen]
  /\ hooks \in [Plugins -> [Gens -> Seq(Hook)]]
  /\ jobs \in [Threads -> Seq(Jobs)]
  /\ strays \subseteq Hook

Pending(op, h) ==
  \E k \in DOMAIN (frame_tasks \o next_frame_tasks) :
    (frame_tasks \o next_frame_tasks)[k] = [op |-> op, hook |-> h]

(* Unloading purges: a hook of an instance that is neither loaded nor being   *)
(* constructed is about to be removed by a call its unload put off, unless    *)
(* the unload could not know of it: the hook was added during or after the    *)
(* purge, at once or by an add_hook put off earlier; a put-off add_hook ran   *)
(* when the list had lost the hook; the constructor raised; or a racing load  *)
(* or unload pushed the instance out.                                         *)
UnloadPurges ==
  \A h \in Hookable : IsHooked(h) =>
    \/ Alive(h.plugin, Gen(h))
    \/ Pending("remove_hook", h)
    \/ h \in strays

(* Everything loading and unloading do to the registry, on any thread and     *)
(* inside any handler, is what plugin code may do to it at that moment; what  *)
(* is proved of the registry holds under them too.                            *)
UsesTheRegistry == RegistrySpec

(* The documentation of Plugin.hooks, "a list of all the hooks this plugin    *)
(* has": once nothing is put off, the list of a loaded plugin and the         *)
(* registry agree.                                                            *)
ListTellsTheHooks ==
  \A n \in Plugins :
    loaded[n] # 0 /\ frame_tasks = <<>> /\ next_frame_tasks = <<>>
      /\ (\A t \in Threads : jobs[t] = <<>>) =>
      \A h \in Hookable : h.plugin = n /\ Gen(h) = loaded[n] =>
        (h \in Range(hooks[n][loaded[n]]) => IsHooked(h))

=============================================================================

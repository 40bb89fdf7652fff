# shinqlx in TLA+

shinqlx is a library that is loaded into the dedicated server of Quake Live. It
detours functions of the engine, embeds a Python interpreter, and lets Python
plugins see, change and stop what happens on the server: chat, commands, votes,
connections, stats. This directory holds specifications of the parts of it
where the order of things matters, the TLC configurations that check them on
small instances, and proofs about eight of them.

All paths below are relative to `src/src/`; `py/` stands for `src/src/ffi/python/`.

## 1. The system

### 1.1 Who runs when

* The **main thread** runs the engine. The engine calls into shinqlx through the
  detours of `hooks.rs`, these call the functions of `py/dispatchers.rs`, which
  attach to the interpreter and call the `handle_*` functions of `py/handlers.rs`.
* Every frame the engine calls `handle_frame` (`py/handlers.rs:3873`): it runs the
  tasks that are due, dispatches the `frame` event, and moves what was put into
  the `next_frame` queue into the scheduler.
* **Other Python threads** exist: functions decorated with `@shinqlx.thread`, and
  the thread of the stats listener. The interpreter lock can change hands
  between any two Python instructions, and Rust code that waits for the engine
  or a socket gives it up (`py.detach`).
* Plugin code can call anything at any time: hook, unhook, load and unload
  plugins, run console commands, which call back into the detours at once.

### 1.2 Components

| component | state | operations | depends on |
| --- | --- | --- | --- |
| event dispatchers (`py/events/`) | per event a vector of plugin entries, each with five lists of handlers, behind a read-write lock | `dispatch`, `add_hook`, `remove_hook` | the frame loop, for calls that are put off |
| frame loop (`py/handlers.rs`, `py/mod.rs`) | `next_frame_tasks` (a queue), `frame_tasks` (a scheduler) | `handle_frame`, `next_frame`, `delay` | dispatchers |
| plugins (`py/mod.rs`, `py/plugin.rs`) | `_loaded_plugins`, the hook and command lists of each instance | `load_plugin`, `unload_plugin`, `reload_plugin`, `Plugin.add_hook`, ... | dispatchers, command registry |
| client commands (`hooks.rs`, `py/handlers.rs`) | none that lasts; locals of a call | `execute_client_command` and the events a command stands for | dispatchers, command registry |
| command registry (`py/commands.rs`) | five lists of commands behind a read-write lock; a list per plugin | `add_command`, `remove_command`, `handle_input` | frame loop, `command` event, plugins |
| stats listener (`py/stats_listener.rs`) | `done`, `IN_PROGRESS`, a socket | `keep_receiving`, `stop`, handling of a message | frame loop, dispatchers, engine (`put`) |
| client connections (`py/dispatchers.rs`, `py/embed/kick.rs`) | `ALLOW_FREE_CLIENT`, a bit per client | connect, loaded, disconnect, kick | dispatchers, engine |
| votes and config strings (`py/handlers.rs`) | the caller kept in the `vote_started` dispatcher; the game's vote; configstrings | callvote, vote, `force_vote`, `set_configstring`, the end of a vote | dispatchers, engine |
| console output (`py/handlers.rs`) | `PRINT_REDIRECTION`, a buffer per redirector | `handle_console_print`, `redirect_print`, `flush` | dispatchers, channels |
| chat channels (`py/channels.rs`) | none | `split_long_lines`, `reply` | frame loop |
| start and restart (`py/mod.rs`, `commands.rs`) | `PYSHINQLX_INITIALIZED`, `IS_FIRST_GAME` | initialize, `late_init`, pyrestart | all of the above |

Player objects, game information, the Redis client, the engine
bindings, the embedded functions, the two command line tools and the minqlx shim
are listed in `PROJECT.json` with the reason they are left out.

### 1.3 What is hard about it, and what makes it correct

* **A registry that is walked while it is changed.** A dispatch iterates over the
  vector while handlers, and other threads between two of their instructions,
  hook and unhook. Correct means: a walk calls exactly the hooks there were when
  it began, in order of priority, once each, until one stops it.
* **Calls that are put off.** `add_hook` and `remove_hook` only try the lock. When
  it is taken they queue themselves for the next frame and report success. Correct
  means: the registry stays well formed in any mix of direct and put-off calls, and
  the queue drains also when a task raises.
* **Plugins that come and go inside their own handlers.** Correct means: what an
  instance hooked is unhooked when it is unloaded, as far as the unload can know it.
* **Answers of many handlers.** Handlers and commands can allow, deny or replace what
  a client sent, and the second event of a command must be about the replaced text.
* **Two clocks.** The stats listener reads what the game published some time ago, and
  its events run some frames later. Correct means: the order of the stream is kept,
  and undoing a switch by then still undoes the right one.
* **A word of bits without a lock.** Connecting and leaving clients are made visible to plugins
  by a bit that is loaded and stored in two steps, on any thread that kicks. Correct means:
  handlers can ask for the client they are told about, and a slot that stays free is not taken
  for a client.
* **State read long before it is used.** Votes are judged by configstrings that are set at the end
  of a chain of handlers; a kick looks at a slot that may have a newcomer afterwards. Correct means:
  who called a vote, which vote ends and who is dropped is what plugins were told.
* **One redirection for all.** Correct means: what is printed in a block reaches its channel, once,
  whole, and in the color it had.

`PROJECT.json` lists the hazards one by one, each at its line.

## 2. The modules

### `EventDispatcher`: registry, dispatch and frame loop

| model | code |
| --- | --- |
| `plugins[e]`: `order` and `hooks` | `EventDispatcher.plugins`, the vector of pairs of a name and five lists |
| `stack[t]` | the dispatches thread `t` is inside of; each holds the read lock of its event |
| `Frame.at`, `running` | the iterator of the loop, and whether a handler has been called and not returned |
| `phase` | where the main thread is in `handle_frame` |
| `next_frame_tasks`, `frame_tasks` | the `SimpleQueue` and the `sched.scheduler` of the package |
| `add_hook`, `remove_hook` | the bodies of the same name, with the deferral when `try_write` fails |
| `PluginAddsHook`, `PluginRemovesHook` | plugin code calling them: a handler, a thread, a task, a console command |
| `StartDispatch`, `CallNext`, `HandlerContinues`, `HandlerStops`, `FinishDispatch` | `dispatch`; the return codes are folded into "goes on" and "returns" |
| `RunCommands` | `handle_input` in the `client_command` dispatcher, with the lock still held |
| `BeginFrame`, `RunTask`, `DispatchFrame`, `TransferNextFrameTasks` | `handle_frame` |

`add_hook` and `remove_hook` are single steps: between `try_write` and the end they
run no Python code unless a handler compares itself with a Python `__eq__`, which
is left out (a hazard without a property). The lock is not a variable: it is
held exactly by the dispatches on the stacks. A priority outside the five and a missing
stats cvar raise before anything changes and are left out.

`RegistryNext` lets any number of calls be put off; `Next`, which TLC checks, adds the bounds
`HasRoomFor` and `MayDispatch` for plugin code. The proofs are about both: what holds under the first holds under
the second.

Tasks of plugins are not put into the queue. They run plugin code on the
main thread between two other tasks, and `RunsPluginCode` allows that anyway.

### `SnapshotDispatch`: what the registry promises

The abstract specification. An event has a set of registrations; a dispatch takes a
copy of it, calls one with the best priority after the other, and may return after
each; while a dispatch is under way its event's registrations stay. No order of plugin
entries, no positions, no lock, no queue. `EventDispatcher!KeepsPromise` maps the
registry to it: the copy is the set of registrations that are still in front of the
iterator.

### `PluginLifecycle`: loading, unloading, reloading

Extends `EventDispatcher`. Every construction makes a new instance, a *generation*,
with handlers of its own. `hooks[n][g]` is the hook list of an instance, `loaded` is
`_loaded_plugins`, `jobs[t]` the loads, unloads and reloads a thread is inside of, a stack beside
the stack of its dispatches; each job notes how many dispatches it was called from. `BeginUnload`
dispatches the `unload` event, `BeginPurge` copies the list, `PurgeHook` calls
`remove_hook` for one entry, `EndPurge` deletes the plugin whoever is loaded by then.
Between any two of these other threads go on. A constructor and the handlers of `unload`, of the
plugin that is unloaded or of another one, are plugin code (`RunsConstructorOrHandler`): on the same
thread they may hook, dispatch events, and load, unload and reload any plugin, the one in question
too, each a job on top of the one that waits. The code at the top of a plugin's file is taken to be
part of its constructor, and from the unload of a reload to the constructor is one step. `strays` is a history variable: registered hooks that no unload knows of, by the five ways the
comment of `UnloadPurges` names. `Retained` is `Vec::retain` of `Plugin.remove_hook`, as a recursive
function of the length, so that it can be proved about. Hooking and unhooking from plugin code
waits for room in the queue (`HasRoomFor`); the unhooking of an unload does not.

### `ClientCommand`: what becomes of a client command

One command at a time, from the engine to the engine: `Receive`, the loop over the
handlers (`HandlerReturns`), the commands (`CommandVetoed`, `CommandReturns`), then
`Announce` when the text stands for an event, the handlers of that, and `Answered`. The
text of a command is its kind and a body; which kind a text has is what the regular
expressions decide. `say` and `say_team` are one kind, for they differ in the channel.
`Requote` and `UpdateInfo` are what reformatting does to a body. An event that is not
dispatched now (no vote on, the same team, the same user info) is `PassOn`, chosen
freely. `calls` and `ran` are histories: what handlers answered, and what each command
an input was given to made of `pass_through`.

### `StatsListener`: the thread, the frames and the game

The thread takes one message at a time and goes through the stages of
`try_handle_zmq_msg`, giving up the interpreter lock between any two. `Put` is one
`next_frame` call. Players are looked up by the thread (`Found`), so they may be gone
when the event is dispatched. The game is external: it publishes match messages, moves
players (each move publishes a `PLAYER_SWITCHTEAM`), lets them join and leave. `put`
runs a console command, which moves a player who is connected and not in that team.
An error exit that needs a missing dispatcher is left out, also the one at line 804 that would leave
`IN_PROGRESS` set after a report. `entry[p]` is a history: the switch that brought `p` into the present team.
Assumptions: the game obeys `put`; a client slot is not given to somebody
else between the lookup and the dispatch (players are steam ids here).

### `CommandRegistry`: commands, plugins' lists and the inputs that walk them

`commands` is the five lists of the invoker, `listed[g]` the list of a plugin instance,
`inputs[t]` the calls of `handle_input` thread `t` is inside of, each holding the read lock.
`add_command` and `remove_command` are the functions of the same name: the registry is searched
first, the lock is tried afterwards, and a call that finds it taken is put off and searches again
when it runs. (Hooks do it the other way round, which is why this registry has a module of its
own.) `PluginAddsCommand` and `PluginRemovesCommand` are the methods of `Plugin`, with the list
before the registry in the first and after it in the second. `Unload`, `PurgeCommand` and
`EndPurge` are the part of `try_unload_plugin` that deals with commands. `TryNext` dispatches the
`command` event, after which the command runs, or the event is denied. What the answers mean for
the input is in `ClientCommand`; here they only go on or stop. `last`, `overtaken` and `strays`
are histories, `had` and `tried` of an input too: the registry it found when it began, and each
command it tried with the place it was at. `Retained` is `Vec::retain`, written as a function that
is recursive in the length, so that it can be proved about.

A call that is put off runs Python code between its failed `try_write` and its `put`
(`PyModule::from_code`); the model puts at once, so what another thread does between is
ordered before or after the call.

### `ClientConnections`: connect, loaded, drop, kick

`state` and `who` are the engine's slots, `allowed` the word `ALLOW_FREE_CLIENT`, `stack[t]` the
dispatcher calls a thread is inside of. A call goes through `Load`, `SetBit`, `HandlersReturn`,
`Load`, `ClearBit`, and then the engine's part, `FinishConnect` or `FinishDrop`; between any two of
these the other thread goes on. `Kick` and `ChangeMap` are made on any thread, and from inside
handlers. The engine is external: which client takes which slot, when it is primed, when a
zombie is freed, whether it refuses a client, and what a change of map does to clients: those that
are not bots keep their slot and load again, from "connected" through `ClientGetsGamestate` to
`EnterWorld`. `EnterWorld` reads the state and has the engine let the client in; while it does,
handlers of `player_spawn` run (stage "spawning"), and `EnteredWorld` decides by the state read
before whether to dispatch `player_loaded`. That the client has an entity is chosen freely. A slot that `shinqlx` drops twice is dropped once.
`told` is a history of the events of a connection, `maps` of its changes of map; `erased` and `revived` tell when another
thread's stale word undid a change, which is what the code's load and store allow; `hit` are the
connections that a disconnect meant for another one has ended.

Left out: the dispatchers before the interpreter is initialized, which do nothing, and
`client_connect` without `first_time`, as at a change of map, for which no plugin is asked. Reading
the state in `sv_cliententerworld` and the engine's setting it are one step: what a kick from another
thread does exactly between the two is left out. Handlers of `new_game`, and of the `player_spawn` of
a client that is active already, are plugin code at the bottom of the main thread.

### `Votes`: from callvote to vote_ended

`level`, `yes` and `ballots` are what the game holds, `cs` and `csYes` two of its configstrings,
`player` is the caller kept by the `vote_started` dispatcher. A call on a `stack` is at one place
of its chain: checked, caller cleared, taken by the level, string to be set, `vote_started`
handlers, count to be set. `ClientCallsVote` and `VoteCalledReturns` are the callvote branch of
`try_handle_client_command`, `Callvote`, `ClearsCaller`, `LevelTakesVote` are `Plugin.callvote` and
`CurrentLevel::callvote`, which run on any thread without the interpreter lock. `StringStopped`,
`StringAnnounced`, `VoteStartedReturns` and `StringCleared` are `set_configstring` for
`CS_VOTE_STRING`, with the handlers' choices; `TextSent` is the server command that announces a
result. The game's side (`GameStartsVote`, `GameCounts`, `GameEndsVote`) is external.
`LevelTakesVote` writes the game's memory while the main thread may read it: it is taken as one
step. A handler that empties the vote string amounts to one that stops it, and is left out. So is
`shinqlx.callvote` called by a plugin directly: it neither asks whether a vote is on nor clears the
caller, so what is said here of who called a vote is said of clients and of `Plugin.callvote`. The
no count and the time go the way of the yes count.

### `ConsoleOutput` and `ChatChannel`: where printed text goes

`PRINT_REDIRECTION` is the variable of that name, `print_buffer[r]` the buffer of a redirector,
`stack[t]` the blocks, prints and flushes a thread is inside of. A print waits for its handlers
before it looks at the redirection; a flush and the leaving of a block wait for the channel's
reply, which is plugin code and may print, enter blocks, and raise. `mine`, `overlapped`, `raised`
and `replies` are histories. What a channel's reply prints while its own block is being left goes to
that block's buffer, which nobody may flush any more. The model has that, but takes the text to belong
to no block (`mine`), so no property says where it ends up. A text is a whole line. That the engine prints the old text when a
handler has replaced it (`hooks.rs:386`) is of no account to these properties.

`ChatChannel` is the algorithm of `split_long_lines` and `ChatChannel.reply` over words; a word
has a length and the color tag it ends with. Both loops, of words into pieces and of pieces into
messages, add an item to the last group if it fits and begin another otherwise: `Packed`, a recursive
function, with the set of groups that fit as its parameter. `ConsoleOutput` extends it and applies it
to everything a channel is given, so that TLC checks its properties over all sequences of texts the
redirector can collect.

### MC modules

The `MC...` modules give the constants their values; every `.cfg` belongs to the one its run
names.

## 3. What the runs check

| run | configuration | properties | what it shows |
| --- | --- | --- | --- |
| `hooks` | `MCEventDispatcher.cfg` | `TypeOK`, `RegistryWellFormed`, `VectorsHoldStill`, `KeepsPromise`, `QueuesDrain` | the registry under two threads and across frames; what is put off reaches the scheduler and leaves it |
| `client_command` | `MCClientCommand.cfg` | `TypeOK`, `LastAnswerDecides`, `BlockedIsNotExecuted`, `LastCommandDecides`, `ExecutesWhatWasAgreed` | what the engine executes |
| `stop_event` | `StopEventStops.cfg` | `StopEventStopsTheEvent` | **violated**: see 5 |
| `plugins` | `MCPluginLifecycle.cfg` | `LifecycleTypeOK`, `UnloadPurges`, `UsesTheRegistry` | loads, unloads and reloads one inside another on one thread, and a second thread that loads |
| `hook_list` | `ListTellsTheHooks.cfg` | `ListTellsTheHooks` | **violated**: see 5 |
| `commands` | `MCCommandRegistry.cfg` | `TypeOK`, `CommandsUnique`, `TriesWhatItFound`, `LastCallCounts`, `UnloadPurgesCommands` | registering, unregistering and unloading while inputs walk the registry |
| `connections` | `MCClientConnections.cfg` | `TypeOK`, `HandlersSeeTheClient`, `BitsAreGivenBack`, `DropsWhomItAnnounced`, `LoadedOncePerMap` | clients that come, load, go and are kicked, also across a change of map, with every way two threads' words can cross |
| `votes` | `MCVotes.cfg` | `TypeOK`, `RightCaller`, `VotesTakeTurns`, `StringTellsTheVote`, `EndsWhatStarted` | votes of clients and plugins, alone, one inside another, and on two threads |
| `output` | `MCConsoleOutput.cfg` | `TypeOK`, `ReachesItsChannel`, `RedirectedOnce`, `NoRedirectionLeft`, `MessagesFit`, `ColorsCarry` | nested and parallel blocks, replies that raise, and the splitting of what they collect |
| `stats` | `MCStatsListener.cfg` | `TypeOK`, `EventsFollowTheStream`, `EndsStartedMatches`, `DeniedSwitchesAreUndone` | order and meaning of the events |
| `stats_arrive` | `MCStatsArrive.cfg` | `EveryMessageArrives` | the thread outlives every message |
| `stats_stop` | `StopEndsReceiving.cfg` | `StopEndsReceiving` | **violated**: see 5 |

Several properties hold with exceptions, and the exceptions are what the code does: a call made at
once overtakes one that was put off (`LastCallCounts`); a command can be registered behind an
unload's back (`UnloadPurgesCommands`); another thread's kick can erase or revive a bit, and can
hit a newcomer (`HandlersSeeTheClient`, `BitsAreGivenBack`, `DropsWhomItAnnounced`); calls for votes
that overlap, and handlers that stop a configstring, leave string and vote apart (`Votes`); a block
entered in or beside another takes its output, and a reply that raises leaves the redirection in
place (`ConsoleOutput`). Each exception is named in the property by a history variable or a
condition that only this case sets, so that nothing else can hide behind it.

`UsesTheRegistry` says that `PluginLifecycle`, with its variables hidden, is a
behaviour of the registry as plugin code may use it (`RegistrySpec`): so what is proved of the
registry, `KeepsPromise` with it, holds while plugins are loaded and unloaded.

### Bounds

* Registry: a main thread and a worker, two events (`frame` and one that tries
  commands), two plugins, two handlers, two priorities. Two plugins and two priorities are
  what it takes to tell the order by priority from the order by entry. Two calls may be put off at
  a time, so that one can undo the other. Two dispatches may be under way at a time: nested on the
  main thread (a handler that dispatches the event it handles), or one on each thread.
* Plugins: one plugin, up to two instances, three events, hook lists of one entry. Both instances hook
  a chat event and the first also `unload`. The main thread loads, unloads and reloads and has two
  dispatches under way at most, so that an unload can run in a handler of the chat or the unload event
  of another; the second thread only loads, while the plugin is not loaded (`MCNested`), which is
  enough for two loads to race. That it unloads too is covered by the theorem and not by this run.
* Commands: one instance with two commands that answer to the same word, two priorities, two
  threads with one input each; the main thread unloads; one call put off at a time besides those of
  the unload; lists of two entries, so that a list can name a command twice. Two put-off calls that
  both add one command need more room than that: `CommandsUnique` is then a matter of its theorem.
* Connections: two slots that are alike (symmetry), two connections, of which the first may be a bot's,
  a main thread that nests a call and a worker that kicks and changes the map. A slot can be reused by
  the second connection, or both can be under way. The second connection goes through one change of
  map, alone or beside a bot: it can load twice, and the change can come while it enters the world.
* Votes: one client, three votes, a main thread that nests a call and a worker that does not. Three
  votes are one whose string stays behind and two that then overlap.
* Output: two threads that nest three and two deep, two blocks, one flush within a block, three
  texts: one that is split and has a word longer than a message, one without color, one that
  ends in a color.
* Client command: two handlers per event, two commands, replacements that are a chat message with
  quotes, user info, and an empty string.
* Stats: one player, who dies by nobody's hand or their own, for no property relates two; two
  interchangeable teams (symmetry); three messages, two under fairness. Three messages are a start, a report and a second report, or a switch, its denial
  and another switch.

The bounds are constants (`MaxTasks`, `MaxCalls`, `MaxDepth`, `MaxGen`, `MaxList`, `MaxHandlers`,
`MaxCommands`, `MaxMessages`, `MaxConns`, `MayBeBots`, `MaxMaps`, `MaxVotes`, `MaxBlocks`, `MaxFlushes`, `Commands`, `Offered`,
`Inputs`, `Replacements`, `Published`, `Hookable`, `Loaders`, `Unloaders`).
Each caps a counter that the code leaves unbounded, in a guard of the action that would raise it.
`connections`, `votes` and `output` do not check for deadlock: their bounds on connections, votes and
texts are used up in the end.

### Fairness

`EventDispatcher!Fairness`: a thread that walks a registry goes on walking, handlers return (a
handler that never does hangs the server, and nothing can be promised then), and the engine runs
frame after frame. It is strong fairness for handlers, at each depth of nesting, since plugin code
takes their steps away for a while by dispatching something else, and for the steps of the frame
loop for the same reason. No fairness for plugin code.
`StatsListener!Fairness`: the thread polls with a timeout, and the interpreter lock is handed
round, so a step it can take it takes; frames go on. No fairness for the game or for `stop`.

## 4. What is proved

The modules `...Proofs` hold the theorems. They are about every value of the constants that
satisfies the assumption named in the module of the component: any threads, events, plugins, instances,
priorities, handlers, commands, slots, connections, votes, texts, and any nesting. The assumptions
only say what kind of thing a constant is (`Main \in Threads`, bounds are natural numbers, a
replacement is a command). Each module proves the `TypeOK` of its component.

Most components keep a stack of calls per thread, and a step changes what is on top of one of them.
So most of these modules have a lemma that says once what a push, a change of the top and a pop
leave of the rest, then one lemma per action, and the theorem that the invariant is kept puts them
together.

**The registry** (`EventDispatcherProofs`)

* `RegistryStaysWellFormed`: `RegistryWellFormed` is inductive together with `TypeOK`. The
  lemmas say what `Insert` and `Delete` do to one level: appending a handler that is not there
  and removing one keep it free of duplicates. A deferred call looks at the registry
  again when it runs, so it needs no hypothesis about when it was queued.
* `DispatchedVectorsHoldStill`: `VectorsHoldStill`. Only `add_hook` and `remove_hook` change a
  vector, and only when nobody is inside a dispatch of it.
* `DispatchKeepsPromise`: `KeepsPromise`, the refinement of `SnapshotDispatch`, needs both. A
  registration has one place in its vector (`OnePlacePerHook`), so calling the next place takes one
  registration from what is left and it is one of the best priority. Hooking and unhooking change
  the abstract hooks of one event by one registration, or not at all, and since that event is not
  locked no snapshot is concerned. Every action is one of `SnapshotDispatch` or a stutter.

**Plugins** (`PluginLifecycleProofs`, which extends the proofs of the registry)

* `PluginsUseTheRegistry`: `UsesTheRegistry`, another refinement. `LifecycleSound` adds to the types and
  the registry's invariant that lists and purges hold hooks that plugin code may ask for
  (`HooksSound`), and that the code of a load or unload runs only while the dispatch it was begun in
  waits for its handler (`JobSound`, of the innermost job and of those that wait for it): without that a purge could unhook at a moment at which
  plugin code cannot run. `LifecycleStepsAreRegistrySteps` goes through the actions.
  `PromiseKeptUnderPlugins` draws the conclusion: `KeepsPromise` for the behaviours of `LifecycleSpec`.
* `UnloadingPurges`: `UnloadPurges` says nothing of a plugin that is loaded, or of an unload under
  way, and is not inductive. `Tracked` says of each registered hook that its instance is alive and lists
  it, and that each purge of this instance, also one that waits for a job inside it, still has it to do; unless its removal is put off or it is a
  stray. That `Retained` keeps everything else is shown for every list, at a counterexample of
  least length.

**The stats listener** (`StatsListenerProofs`)

* `DeniedSwitchesStayUndone`: `DeniedSwitchesAreUndone` is not inductive. It needs
  that a queued `team_switch` names a published switch to a team that is not the old one
  (`QueuedMoves`), and that a player whose `entry` is a switch was put into its new team by it
  and is there now (`EntriesTell`). Then `put` to the old team, if it moves the player at all,
  starts a new entry; and if the player is in the old team already, or gone, the denied switch is
  not their entry.
* `EventsComeInOrder`, `OnlyStartedMatchesEnd`: all that was ever put, whether dispatched, scheduled
  or queued, is one sequence; frames move its elements on and only the thread appends to it. `Follows`
  relates that sequence to the messages taken so far and the stage of the thread: how far the
  present message has got (`Reached`), which events it has by now (`StatsPut`, `DeathsPut`), and that
  `IN_PROGRESS` says whether a match was started and not reported before the message that is next to
  have its say (`EndsPut`).

**Client commands** (`ClientCommandProofs`)

* `NothingBlockedIsExecuted`: `BlockedIsNotExecuted` only speaks of the end. `Unblocked` adds what
  holds on the way: nothing is executed before the end, and while handlers or commands
  run, or a dispatch is settled as anything but denied, nobody has answered RET_STOP_ALL.
* `TheLastCommandDecides`: `Judged` adds that `pass` is what the verdicts so far amount to
  (`Counted`). This needs that a veto or an exception is always the last verdict of an input;
  otherwise a chat command that passes would leave `pass` to an older verdict.
* `TheLastAnswerDecides`: `Outcome` looks at all answers at once, the code at one after the other.
  The lemma `OutcomeAppends` says that one more answer changes the outcome as `HandlerReturns`
  changes `result`. `OnHand` says which answer the forwarded text comes from, and `HasLast` that
  there is a last answer with a meaning when there is one at all.
* `OnlyTheAgreedIsExecuted`: `Agreement` carries the text from one event to the other: once the
  handlers of `client_command` are done, `updated` is what they agreed on, the event that follows is
  the one this text stands for, no other event has an answer, and what its handlers were shown first
  is that text in the form the engine would send it. It rests on the invariant of
  `TheLastAnswerDecides`, for what is executed is the outcome of the second event.

**The command registry** (`CommandRegistryProofs`). The invariant is `CInv`. A call is first shown to be one
of three things (`Does`): without effect, put off, or done; what follows is about `Does` and so holds of
direct calls, unloads and tasks alike.

* `InputsTryWhatTheyFound`: `InputsSound` adds that the registry is the one that every input under
  way found, since each holds the read lock, and that its position is the last place it tried.
* `NoCommandTwice`: needs that `Retained` keeps what is not removed, once and in its order
  (`RetainedParts`). That is a fact about a recursive function, for every sequence: it is shown for a
  counterexample of the least length there can be. That there is a least one (`LeastNumber`)
  follows from the library's theorem that finite sets are well-founded by inclusion.
* `TheLastCallCounts`: `QueueSound` says what a queue of put-off calls for a command looks like while
  none was overtaken: the calls that ask for what is so already come before those that ask for the
  opposite, and there is one of the latter exactly when the last call asked for that.
  `LastCallCounts` alone says nothing while a call is put off, and is not inductive.
* `UnloadPurgesTheRegistry`: `Tracked` says which list, unload or put-off call will see to a registered
  command: an instance that is alive lists it, and each unload of it that is under way still has it
  to do; unless its removal is put off, or it is a stray. The exceptions of the property are the
  places where a step would leave a command with neither.

**Client connections** (`ClientConnectionsProofs`). Every action pushes a call on the stack of one
thread, turns the top of one from a stage to the next, or pops it (`StackStepsHold`); each invariant is
a predicate on calls under way and is shown to be kept by the three.

* `BitsGivenBack`: with `LoadedHasNoBit`, `BitsAreGivenBack` is inductive. A word that a call holds
  between `load` and `store` may be stale; `revived` records when it was.
* `ClientsAreSeen`: needs that a client connects on the main thread at the bottom of its stack, into
  a slot that stays free and that nothing else on that stack is about (`ConnectsAlone`).
* `DropsHitWhomTheyAnnounced`: on the main thread nobody can take a slot between an announcement
  and its disconnect (`MainDrops`). For other threads goodbyes are counted: each call that drops
  a client adds its own (`EachAnnounces`), two add two (`BothAnnounce`), so a client that is gone
  while a call to drop it goes on was said goodbye by somebody else, or was hit (`GoneTwice`).
* `LoadedOnceForEveryMap`: `LoadedOncePerMap` allows one `player_loaded` for connecting and one for every
  change of map, and is not inductive. `LoadsAreCounted` also counts what is yet to come: the times a
  connection was told loaded, one more if it is entering the world, and one more if it is loading,
  are at most one more than its changes of map. With it go `ToldInOrder` (what the history of a connection
  looks like), `MembersInOrder` (a connection has one slot) and `CallsInOrder` (one that is being
  connected has no slot yet).

**Votes** (`VotesProofs`). The four properties speak of a few places of the chain only; `VInv` carries
what makes them hold from one place to the next.

* `TheRightCaller`: `CallerKept` says for each place of a call what the kept caller is, as long as the
  vote was not crossed by another: the client who called, nobody after a plugin's callvote has cleared
  it. A handler of `vote_called` may call a vote of its own before the client's goes on; `Frames`
  excludes the calls that wait for such a handler.
* `OneVoteAtATime`: `Lonely` says that of two calls under way at a time both are crossed, unless the one
  below waits for the handlers of `vote_called`; and `TurnsKept` that an announced vote that is not over
  is the one the game holds, or was crossed.
* `TheStringTells`: `StringKept` says that when the string is not that of the game's vote some call is
  about to set or clear it, or it was stopped or crossed; `CountKept` the same of the count.
* `EndedWasStarted`: `Told` says what a call that ends a vote has noted and will tell.

**Console output** (`ConsoleOutputProofs`). There is one redirection for all; `OutputInv` says whose it is.

* `PrintedIsReplied`: `Current` says that a block that nothing was entered in or beside is the last one
  of the only thread that is in any, and has the redirection until it is left; `Reaches`, that what was
  printed in it is with its channel or in its buffer, and with its channel once its end has begun.
* `NothingTwice`: `Fresh`, that a text the handlers of a print still have is in no buffer and no reply,
  and no two prints have the same one. A flush moves a buffer as a whole (`TakeMoves`).
* `OnlyErrorsLeaveRedirections`: `Redirected`, that the redirection belongs to an open block, or one
  whose reply raised.

* `MessagesAlwaysFit`, `ColorsAlwaysCarry`: facts about the functions of `ChatChannel`, for all lines, limits and
  lengths of words; of the state only the types are needed. `Packed` keeps every item and makes no
  group that does not fit but one of a single item (`PackedParts`), lines and words alike. The color
  a list of messages ends in is that of its second half when this starts with that of its first
  (`LastColorConcat`). The library's induction theorems take an operator as a parameter; in their
  place stand `CountingUp`, `AddingOn` and `Recursion`, induction and recursive definition up to
  a number as facts about sets and functions, which follow from `LeastNumber`: a set of numbers has a
  least one, since finite sets are well-founded by inclusion.

Every safety property the passing runs check is stated by a theorem. Liveness is out of the
prover's reach, as is `ENABLED`: `QueuesDrain` and `EveryMessageArrives` are only model-checked, and so
are the three runs that show a violation.

## 5. Where code and documentation disagree

* **RET_STOP_EVENT can be taken back** (`stop_event`). The documentation says it stops the
  event at the engine level and lets other handlers process it. A later handler that answers
  RET_STOP, or replaces the value, makes the dispatch return that instead.
* **The hook list can name a hook that is gone** (`hook_list`). Unhooking during a dispatch of
  the event changes the list at once and the registry a frame later, without an error even when
  there is nothing to unhook; hooking in between makes them disagree for good.
* **stop() does not stop the stats listener** (`stats_stop`). The loop never looks at `done`.

Three more were found while modelling, which no run of their own shows. A value that a
`set_configstring` handler returns for the vote string is lost, since the function answers None
after `vote_started` (`py/handlers.rs:5191`), although `py/events/set_configstring_dispatcher.rs:7-10`
recommends returning it; `Votes` models it. A text that a `console_print` handler returns is not
printed: `hooks.rs:386` only asks whether there is one. And the sources disagree on `player_loaded`: the comment
at `hooks.rs:254-256` takes a client to be primed only the first time it connects, while
`docs/events.rst` (PlayerLoadedDispatcher) and `py/events/player_loaded_dispatcher.rs:6-8` say that the
event also triggers when a map changes. Which is so depends on what the engine does to its clients, which is
outside of the repository. `ClientConnections` follows the documentation: clients load again and the
event may come again, but no more than once for each time.

## 6. Not modelled, and why

* **Start, restart and `late_init`.** A restart reloads the native module with
  `importlib.reload`. Whether its statics, its class objects and the references plugins hold are
  the old or new ones is decided by CPython and pyo3, not by code of this repository; a model of it
  would rest on assumptions that nothing here can confirm.
* **Player objects, game information.** A player is a snapshot of an engine structure, its setters go
  straight to the engine. That the snapshot can be stale is part of the modules that use it.
* **The events of `CS_SERVERINFO` and the round status** in `try_handle_set_configstring`: each compares
  an old and a new value of a configstring and dispatches one event; the only state of shinqlx in it
  is a round counter.
* **Redis client, RCON and stats tools**: input and output of external services.
* **Engine bindings**: detours, patches of machine code and accessors to structures of a closed engine.
* **The other embedded functions**: one engine call each.
* **Error exits that need a missing dispatcher or chat channel**, which a running server has. One of
  them has an effect: `handle_client_command` (`py/handlers.rs:605-609`) answers true, and the original
  text of a command is executed even if a handler has replaced it. It is listed as a hazard.
* **`shinqlx.callvote` called directly**, without `Plugin.callvote`.
* **`delay()`**, tasks of plugins, comparisons of handlers that run Python code, a slot that is
  reused between a stats message and its event, recipients of channels: see the modules above.

## 7. What is left to do

* `PluginLifecycle` and `CommandRegistry` composed into one unload.

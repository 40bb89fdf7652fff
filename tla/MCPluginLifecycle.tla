-------------------------- MODULE MCPluginLifecycle --------------------------
(***************************************************************************)
(* One plugin that hooks an event in each of its generations, and the      *)
(* unload event in the first.                                              *)
(***************************************************************************)
EXTENDS PluginLifecycle

CONSTANTS main, worker, p

MCThreads == {main, worker}
MCPlugins == {p}
MCHandlers == 1 .. MaxGen
MCGeneration == [h \in MCHandlers |-> h]

MCHooks(e, handlers) == [event: {e}, plugin: {p}, handler: handlers, priority: {0}]

MCHookable == MCHooks("chat", MCHandlers)

MCHooksUnload == MCHookable \cup MCHooks("unload", {1})

MCFlat == [t \in MCThreads |-> 1]

MCNested == [t \in MCThreads |-> IF t = main THEN 2 ELSE 0]

MCMainOnly == {main}

=============================================================================

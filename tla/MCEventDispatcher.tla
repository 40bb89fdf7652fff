-------------------------- MODULE MCEventDispatcher --------------------------
(***************************************************************************)
(* Two threads, two plugins, the frame event and one other event.          *)
(***************************************************************************)
EXTENDS EventDispatcher

CONSTANTS main, worker, p, q, h1, h2

MCThreads == {main, worker}
MCPlugins == {p, q}
MCHandlers == {h1, h2}

MCHook(e, n, h, i) == [event |-> e, plugin |-> n, handler |-> h, priority |-> i]

\* Handlers on the main thread dispatch again, those on the worker do not.
MCNested == [t \in MCThreads |-> IF t = main THEN 2 ELSE 1]

\* Two plugins hook the same event: whichever comes second may be called first.
MCHookable == {MCHook("client_command", p, h1, 1), MCHook("client_command", q, h2, 0)}

=============================================================================

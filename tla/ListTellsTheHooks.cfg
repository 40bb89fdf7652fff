SPECIFICATION LifecycleSpec
CONSTANTS
  main = main
  worker = worker
  p = p
  Threads <- MCThreads
  Main = main
  Events = {"frame", "chat", "unload"}
  FrameEvent = "frame"
  CommandEvents = {}
  UnloadEvent = "unload"
  Plugins <- MCPlugins
  Handlers <- MCHandlers
  NumPriorities = 1
  Hookable <- MCHookable
  Loaders <- MCMainOnly
  Generation <- MCGeneration
  MaxGen = 1
  MaxList = 2
  MaxDepth <- MCFlat
  MaxCalls = 2
  MaxTasks = 1
INVARIANT ListTellsTheHooks

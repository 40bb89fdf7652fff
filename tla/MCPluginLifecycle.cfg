SPECIFICATION LifecycleSpec
CONSTANTS
  main = main
  worker = worker
  p = p
  Threads <- MCThreads
  Main = main
  Events = {"frame", "chat", "unload"}
  FrameEvent = "frame"
  CommandEvents = {}
  UnloadEvent = "unload"
  Plugins <- MCPlugins
  Handlers <- MCHandlers
  NumPriorities = 1
  Hookable <- MCHooksUnload
  Loaders <- MCThreads
  Generation <- MCGeneration
  MaxGen = 2
  MaxList = 1
  MaxDepth <- MCNested
  MaxCalls = 2
  MaxTasks = 1
INVARIANTS LifecycleTypeOK UnloadPurges
PROPERTY UsesTheRegistry

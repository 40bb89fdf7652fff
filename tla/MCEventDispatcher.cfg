SPECIFICATION FairSpec
CONSTANTS
  main = main
  worker = worker
  p = p
  q = q
  h1 = h1
  h2 = h2
  Threads <- MCThreads
  Main = main
  Events = {"frame", "client_command"}
  FrameEvent = "frame"
  CommandEvents = {"client_command"}
  Plugins <- MCPlugins
  Handlers <- MCHandlers
  NumPriorities = 2
  Hookable <- MCHookable
  MaxDepth <- MCNested
  MaxCalls = 2
  MaxTasks = 2
INVARIANTS TypeOK RegistryWellFormed
PROPERTIES VectorsHoldStill KeepsPromise QueuesDrain

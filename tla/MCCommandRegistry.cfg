SPECIFICATION Spec
CONSTANTS
  main = main
  worker = worker
  plugin = plugin
  kick = kick
  ban = ban
  Threads <- MCThreads
  Main = main
  Instances <- MCInstances
  Commands <- MCCommands
  Owner <- MCOwner
  Inputs = {"!kick"}
  Answering <- MCAnswering
  NumPriorities = 2
  Offered <- MCOffered
  Unloaders = {main}
  MaxDepth <- MCDepth
  MaxTasks = 1
  MaxList = 2
INVARIANTS TypeOK CommandsUnique TriesWhatItFound LastCallCounts UnloadPurgesCommands

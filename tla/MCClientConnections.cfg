SPECIFICATION Spec
CONSTANTS
  main = main
  worker = worker
  slot0 = slot0
  slot1 = slot1
  Threads <- MCThreads
  Main = main
  Slots <- MCSlots
  MaxConns = 2
  MayBeBots = {1}
  MaxMaps <- MCMaps
  MaxDepth <- MCDepth
SYMMETRY SlotsAreAlike
CHECK_DEADLOCK FALSE
INVARIANTS TypeOK HandlersSeeTheClient BitsAreGivenBack DropsWhomItAnnounced LoadedOncePerMap

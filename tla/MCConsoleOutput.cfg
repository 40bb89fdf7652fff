SPECIFICATION Spec
CONSTANTS
  main = main
  worker = worker
  long = long
  plain = plain
  short = short
  Threads <- MCThreads
  Texts = {long, plain, short}
  Words <- MCWords
  Limit = 5
  MAX_MSG_LENGTH = 9
  MaxBlocks = 2
  MaxFlushes = 1
  MaxDepth <- MCDepth
CHECK_DEADLOCK FALSE
INVARIANTS TypeOK ReachesItsChannel RedirectedOnce NoRedirectionLeft MessagesFit ColorsCarry

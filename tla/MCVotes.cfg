SPECIFICATION Spec
CONSTANTS
  main = main
  worker = worker
  None = None
  Threads <- MCThreads
  Main = main
  Clients = {anna}
  MaxVotes = 3
  MaxDepth <- MCDepth
CHECK_DEADLOCK FALSE
INVARIANTS TypeOK RightCaller VotesTakeTurns StringTellsTheVote EndsWhatStarted

SPECIFICATION Spec
CONSTANTS
  a = a
  red = red
  blue = blue
  Players <- MCPlayers
  Teams <- MCTeams
  None = None
  Published <- MatchMessages
  MaxMessages = 2
INVARIANT StopEndsReceiving

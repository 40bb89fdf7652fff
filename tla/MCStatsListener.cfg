SPECIFICATION Spec
CONSTANTS
  a = a
  red = red
  blue = blue
  Players <- MCPlayers
  Teams <- MCTeams
  None = None
  Published <- MatchMessages
  MaxMessages = 3
SYMMETRY MCSymmetry
INVARIANTS TypeOK EventsFollowTheStream EndsStartedMatches DeniedSwitchesAreUndone

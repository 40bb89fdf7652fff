SPECIFICATION Spec
CONSTANTS
  Bodies <- MCBodies
  Requote <- MCRequote
  UpdateInfo <- MCUpdateInfo
  Commands <- MCCommands
  Replacements <- MCReplacements
  MaxHandlers = 2
  MaxCommands = 2
INVARIANT StopEventStopsTheEvent

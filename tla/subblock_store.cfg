CONSTANTS
  SubBlocks = {"b1", "b2", "b3"}
  Size <- MCSize
  MaxFileSize = 6
  MaxFiles = 3
  MaxBlockFile = 1
  MaxFailures = 2
  MaxRestarts = 1
  MaxPowerLosses = 1
SPECIFICATION Spec
INVARIANTS PlacesDisjoint ServesInFirstRun
PROPERTY RestartKeepsIndex
CHECK_DEADLOCK FALSE

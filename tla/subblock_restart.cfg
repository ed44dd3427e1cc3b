CONSTANTS
  SubBlocks = {"b1", "b2", "b3", "b4", "b5"}
  Size <- MCSize
  MaxFileSize = 10
  MaxFiles = 2
  MaxBlockFile = 0
  MaxFailures = 0
  MaxRestarts = 1
  MaxPowerLosses = 0
SPECIFICATION Spec
INVARIANT ServesWhatItKnows
CHECK_DEADLOCK FALSE

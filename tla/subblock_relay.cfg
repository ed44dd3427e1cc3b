CONSTANTS
  Nodes = {"a", "b", "c"}
  Links <- Star
  SubBlocks = {"s", "t"}
  Senders <- HandedTo
  Newcomers = {"c"}
  SETASKFOR_MAX_SZ = 0
  MAPASKFOR_MAX_SZ = 0
  MaxSends = 3
  MaxFailures = 1
  MaxDrops = 1
  MaxCrashes = 1
SPECIFICATION Spec
INVARIANTS OneRequestPerPeer AsksHolders
PROPERTY AnnouncedArrives
CHECK_DEADLOCK FALSE

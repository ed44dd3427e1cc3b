CONSTANTS
  Tree <- LeapTree
  Genesis = "g"
  NoBlock = NoBlock
  Suspects = {}
  MaxRestarts = 0
  MaxCrashes = 0
SPECIFICATION Spec
INVARIANT PopFindsPrevious
CHECK_DEADLOCK FALSE

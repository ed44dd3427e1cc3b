CONSTANTS
  MaxBlocks = 5
  MaxCrashes = 2
  MaxOutages = 1
  MaxErrors = 2
SPECIFICATION Spec
INVARIANTS IndexExact AcknowledgedKept OpensAfterStop
CHECK_DEADLOCK FALSE

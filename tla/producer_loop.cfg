CONSTANTS
  Schedule <- FourProducers
  Reps = 2
  Local = {"a", "b"}
  Future = 2
  MaxSlot = 7
  MaxReceived = 2
  MaxFailures = 1
  MaxSwitches = 1
SPECIFICATION Spec
INVARIANTS LoopArmed NoSlotMissed
PROPERTIES ShipsWhenDue ConfirmsOnce
CHECK_DEADLOCK FALSE

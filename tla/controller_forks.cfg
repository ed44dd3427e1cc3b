CONSTANTS
  Tree <- ForkTree
  Genesis = "g"
  NoBlock = NoBlock
  Suspects = {"b7", "d6"}
  MaxRestarts = 1
  MaxCrashes = 1
SPECIFICATION Spec
INVARIANTS NoFault StateFollowsHead HeadIsBest UnappliedNotApplied NoForkBelowLog
PROPERTIES SwitchOrRestore RestartKeepsHead
CHECK_DEADLOCK FALSE

CONSTANTS
  MaxTurns = 3
  MaxSteps = 3
  WithMark = TRUE
  None = None
  Calls = {0, 2}
  Outcomes = {"ok", "rejected"}
  Usages <- LongUsages
  FailAt <- Nowhere
  CancelAt <- Nowhere
  MaySlow = FALSE
  MayCrash = FALSE
SPECIFICATION FairSpec
INVARIANTS ShownCheckpointsExist
CHECK_DEADLOCK FALSE

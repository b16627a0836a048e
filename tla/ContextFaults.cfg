CONSTANTS
  MaxTurns = 2
  MaxSteps = 2
  WithMark = TRUE
  None = None
  Calls = {0, 1}
  Outcomes = {"ok", "rejected", "unsupported"}
  Usages <- SomeUsages
  FailAt <- Faulty
  CancelAt <- Cancellable
  MaySlow = FALSE
  MayCrash = TRUE
SPECIFICATION Spec
INVARIANTS Restorable CheckpointIdsIncrease
CHECK_DEADLOCK FALSE

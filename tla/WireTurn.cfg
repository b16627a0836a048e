CONSTANTS
  Script <- Step
  CancelAt = {"ready"}
  MayFail = TRUE
SPECIFICATION FairSpec
INVARIANTS RecordIsWhole
PROPERTIES KeepsTheLog TurnReturns
CHECK_DEADLOCK FALSE

CONSTANTS
  Script <- ShortStep
  CancelAt = {"ready", "storing"}
  MayFail = FALSE
SPECIFICATION FairSpec
PROPERTIES TurnReturns
CHECK_DEADLOCK FALSE

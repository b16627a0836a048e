CONSTANTS
  MaxTurns = 2
  MaxSteps = 3
  WithMark = TRUE
  None = None
  Calls = {0, 2}
  Outcomes = {"ok", "rejected"}
  Usages <- LongUsages
  FailAt <- Nowhere
  CancelAt <- Nowhere
  MaySlow = FALSE
  MayCrash = FALSE
SPECIFICATION FairSpec
INVARIANTS DmailWithinStep DmailLands CallsAnswered
PROPERTIES TurnEnds
CHECK_DEADLOCK FALSE

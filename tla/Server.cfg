CONSTANTS
  first = first
  second = second
  Conns <- Two
  Limit <- TwoNone
  MaxAsks = 1
  GivesUp = TRUE
  Nobody = Nobody
SPECIFICATION FairSpec
INVARIANTS PendingIsAwaited TakenIsServed
PROPERTIES LeavingEnds KeepsTheLease
CHECK_DEADLOCK FALSE

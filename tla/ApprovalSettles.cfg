CONSTANTS
  r1 = r1
  r2 = r2
  Requests = {r1, r2}
  Actions = {a1}
  MaxTurns = 2
  MaxSteps = 2
  Answers = {"approve", "reject"}
  MayCancel = FALSE
  MayShare = FALSE
  PatientClient = TRUE
  NoRequest = NoRequest
SPECIFICATION FairSpec
INVARIANTS IssuedOverWire
PROPERTIES EveryRequestSettles
CHECK_DEADLOCK FALSE

CONSTANTS
  r1 = r1
  r2 = r2
  Requests = {r1, r2}
  Actions = {a1}
  MaxTurns = 2
  MaxSteps = 2
  Answers = {"approve", "approve_for_session", "reject"}
  MayCancel = TRUE
  MayShare = FALSE
  PatientClient = FALSE
  NoRequest = NoRequest
SPECIFICATION Spec
SYMMETRY Symmetry
INVARIANTS IssuedOverWire
CHECK_DEADLOCK FALSE

SPECIFICATION FairShellSpec
CONSTANTS
  Backends = {"local", "ssh"}
  Scripts <- Careful
  Deaths <- ByExit
  Capacity = 1
  MaxChars = 3
  MayLose = TRUE
CHECK_DEADLOCK FALSE
INVARIANTS ReportIsTrue
PROPERTIES CallReturns

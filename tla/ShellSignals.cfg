SPECIFICATION FairShellSpec
CONSTANTS
  Backends = {"local"}
  Scripts <- Careful
  Deaths <- Signalled
  Capacity = 1
  MaxChars = 9
  MayLose = TRUE
CHECK_DEADLOCK FALSE
INVARIANT
  ExitIsTold

SPECIFICATION FairShellSpec
CONSTANTS
  Backends = {"local"}
  Scripts <- Unfinished
  Deaths <- ByExit
  Capacity = 1
  MaxChars = 9
  MayLose = TRUE
CHECK_DEADLOCK FALSE
INVARIANT
  OutputIsWhole

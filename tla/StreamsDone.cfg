SPECIFICATION FairSpec
CONSTANTS
  Dialects = {"kimi"}
  Shapes <- AllShapes
  DoneApart = FALSE
  MayBreak = FALSE
  Wide = {}
CHECK_DEADLOCK FALSE
INVARIANT AnswerIsKept

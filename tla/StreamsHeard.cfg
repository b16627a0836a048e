SPECIFICATION FairSpec
CONSTANTS
  Dialects = {"kimi", "legacy", "anthropic", "responses"}
  Shapes <- AllShapes
  DoneApart = TRUE
  MayBreak = TRUE
  Wide <- SecondBlock
CHECK_DEADLOCK FALSE
INVARIANTS
  AnswerIsKept
  StepGoesBack
PROPERTY StepEnds

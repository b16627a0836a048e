CONSTANTS
  Ids <- MCIds
  Texts <- MCTexts
  Words <- MCWords
  Statements <- MCStatements
  Iterations <- MCIterations
  MaxMoves = 3
  MaxStatements = 4
SPECIFICATION FairSpec
INVARIANTS WaysAreClear MovesAreLimited TurnsAreClosed
PROPERTIES FlowEnds
CHECK_DEADLOCK FALSE

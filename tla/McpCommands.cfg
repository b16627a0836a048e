CONSTANTS
  mail = mail
  wiki = wiki
  here = here
  there = there
  N = 2
  Names = {mail, wiki}
  Urls = {here, there}
  Lists <- SomeLists
  Commands <- SomeCommands
  None = None
SPECIFICATION FairSpec
INVARIANTS EditsHold ReportsHold
PROPERTIES CommandEnds
CHECK_DEADLOCK FALSE

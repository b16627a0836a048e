CONSTANTS
  put = 1
  add = 2
  patch = 3
  view = 4
  Calls = {1, 2, 3, 4}
  Jobs <- SomeJobs
  Hints = {"none", "image"}
  Magics = {"text", "image"}
  MaxSize = 3
  Texts <- SomeTexts
  Failures = {"read", "open", "write", "flush"}
  MaxLines = 2
  MaxLength = 2
  MaxBytes = 2
  Size <- Sizes
  Raw = Raw
  Mark = Mark
  Missing = Missing
SPECIFICATION FileSpec
INVARIANTS ReportedIsKept FilesAreAsTold
CHECK_DEADLOCK FALSE

SPECIFICATION Spec
CONSTANTS
  w1 = w1
  w2 = w2
  w3 = w3
  s1 = s1
  p1 = p1
  p2 = p2
  p3 = p3
  n1 = n1
  n2 = n2
  k1 = k1
  k2 = k2
  Clients = {w1, w2, w3, s1}
  Process <- ThreeProcesses
  Continues = {s1}
  Names = {n1, n2}
  Kids = {k1, k2}
  Inits = {k2}
  MaxRow = 3
  Apart = TRUE
  MayCrash = TRUE
SYMMETRY Alike
CHECK_DEADLOCK FALSE
INVARIANTS EventsAreOwn RowsAreTrue ContinuesLatest
PROPERTIES UsedIsKept

SPECIFICATION Spec
CONSTANTS
  w1 = w1
  w2 = w2
  w3 = w3
  s1 = s1
  p1 = p1
  p2 = p2
  p3 = p3
  n1 = n1
  n2 = n2
  k1 = k1
  k2 = k2
  Clients = {w1, w2}
  Process <- OneEach
  Continues = {}
  Names = {n1, n2}
  Kids = {}
  Inits = {}
  MaxRow = 3
  Apart = FALSE
  MayCrash = FALSE
CHECK_DEADLOCK FALSE
INVARIANT EventsAreOwn

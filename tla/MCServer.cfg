SPECIFICATION FairSpec
CONSTANTS
  c1 = c1
  c2 = c2
  c3 = c3
  Conns = {c1, c2}
  MaxRequests = 2
  Faults = TRUE
INVARIANTS ListExact
PROPERTIES Served StopEnds
CHECK_DEADLOCK FALSE

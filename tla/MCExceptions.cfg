SPECIFICATION Spec
CONSTANTS
  e1 = e1
  e2 = e2
  b1 = b1
  b2 = b2
  b3 = b3
  b4 = b4
  Codes = {e1, e2}
  Addresses = {b1, b2, b3, b4}
  MaxDepth = 3
INVARIANTS KnowsInnermost
PROPERTIES FinallyRuns NothingSwallowed
SYMMETRY Symmetry
CHECK_DEADLOCK FALSE

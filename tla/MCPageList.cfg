SPECIFICATION FairSpec
CONSTANTS
  a = a
  b = b
  c = c
  d = d
  Page = {a, b, c}
  MaxExtend = 2
  Faults = {"kill", "map"}
INVARIANTS Linked ForwardSafe
PROPERTIES StoresInOwnPages IsPageSeq CallsReturn
CHECK_DEADLOCK FALSE

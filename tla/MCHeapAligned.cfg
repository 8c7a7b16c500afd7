SPECIFICATION Spec
CONSTANTS
  r1 = r1
  r2 = r2
  r3 = r3
  r4 = r4
  r5 = r5
  r6 = r6
  Records = {r1, r2, r3}
  PageBytes = 2
  RecordBytes = 1
  MaxSlots = 4
  MaxCuts = 0
INVARIANTS LossBounded
SYMMETRY Symmetry
CHECK_DEADLOCK FALSE

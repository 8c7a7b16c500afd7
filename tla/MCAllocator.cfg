SPECIFICATION Spec
CONSTANTS
  MaxPages = 4
  BlockPages = 2
  Growth = 2
  Wrap = 3
  MaxReserve = 3
  MaxHandles = 3
  Words = {1}
  Modes = {"exist", "create", "clear"}
  Faults = {"kill", "map", "unmap"}
INVARIANTS FreeListSound NoPageLost GetFindsPage UseCountsExact
PROPERTIES HandsOutPagesOnce
CHECK_DEADLOCK FALSE

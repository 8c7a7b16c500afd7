SPECIFICATION Spec
CONSTANTS
  Creates <- MCCreates
  Contents <- MCContents
  Statements <- MCEmpty
  MaxRows = 2
  Faults = FALSE
INVARIANTS GetOnRow
CHECK_DEADLOCK FALSE

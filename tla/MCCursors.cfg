SPECIFICATION FairSpec
CONSTANTS
  Creates <- MCCreates
  Contents <- MCContents
  Statements <- MCStatements
  MaxRows = 2
  Faults = TRUE
INVARIANTS RowsExact AnswersRight
PROPERTIES IsWalk StatementEnds
CHECK_DEADLOCK FALSE

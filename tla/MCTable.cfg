SPECIFICATION FairSpec
CONSTANTS
  k1 = k1
  k2 = k2
  Keys = {k1, k2}
  Heaps = 2
  MaxNo = 5
  MaxCuts = 2
INVARIANTS TableExact KeysKept Doubled
PROPERTIES OkSettles StatementReturns
CHECK_DEADLOCK FALSE

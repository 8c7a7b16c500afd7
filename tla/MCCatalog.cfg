SPECIFICATION Spec
CONSTANTS
  a = a
  b = b
  c = c
  Names = {a, b, c}
  Hash <- MCHash
  MAP_START_CAPACITY = 2
  Heaps = 2
  MaxPools = 3
  MaxCuts = 2
INVARIANTS MapSound MapAgrees Copies SchemesKept PoolsAccounted
PROPERTIES OkSettles

SPECIFICATION FairSpec
CONSTANTS
  c1 = c1
  c2 = c2
  Clients <- MCClients
  Asks <- MCAsks
  MaxRequests <- MCMaxRequests
  MaxRows = 1
  Cells = 2
  Buffer = 2
INVARIANTS InStep
PROPERTIES HandledInOrder Answered Released
CHECK_DEADLOCK FALSE

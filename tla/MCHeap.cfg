SPECIFICATION FairSpec
CONSTANTS
  r1 = r1
  r2 = r2
  r3 = r3
  r4 = r4
  r5 = r5
  r6 = r6
  Records = {r1, r2, r3}
  PageBytes = 4
  RecordBytes = 3
  MaxSlots = 3
  MaxCuts = 2
INVARIANTS RoomReserved LossBounded ScanComplete
PROPERTIES IsRecordStore CallsReturn
CHECK_DEADLOCK FALSE

SPECIFICATION Spec
CONSTANTS
  BUSNUM_SIZE = 2
  MaxCount = 1
  CountCap = 3
  MboxSize = 3
  Queues = 2
  MaxOwed = 4
  RowSets <- SomeRows
INVARIANTS CountAccounted
PROPERTIES DeadLeft CloseNoticed RowsAnnounced
CHECK_DEADLOCK FALSE

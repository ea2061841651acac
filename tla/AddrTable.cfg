SPECIFICATION Spec
CONSTANTS
  EE_TYPE = 17
  ADD_SIZE = 2
  Start_ADD = 0
  COUNT_ADD = 1
  FLAG_ADD = 17
  ConfigDat <- SmallConfig
  SN <- ThreeReaders
  Attached <- AnyReaders
  WINDOW = 3
  MaxLosses = 3
INVARIANTS Recovered PolledUnique ConfigKept ConfigUsed
PROPERTY BootEnds
CHECK_DEADLOCK FALSE

SPECIFICATION Spec
CONSTANTS
  EE_TYPE = 1023
  ADD_SIZE = 80
  Start_ADD = 10
  COUNT_ADD = 1
  FLAG_ADD = 255
  ConfigDat <- RealConfig
  SN <- FortyReaders
  Attached <- AllReaders
  WINDOW = 80
  MaxLosses = 0
INVARIANT ConfigKept
CONSTRAINT InOrder
CHECK_DEADLOCK FALSE

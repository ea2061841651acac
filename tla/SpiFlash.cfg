SPECIFICATION Spec
CONSTANTS
  Bits = {0, 1}
  PageSize = 4
  Sectors = 3
  PROG = 2
  Marker = {1}
  MarkAt = 1
  MarkLen = 2
  Tested = {0, 1}
  CountAt = 3
  CountLen = 1
  Calls <- Ranges
  MaxCalls = 2
  MaxLosses = 1
  MaxFaults = 3
INVARIANTS WriteExact NeighboursKept FailsForCause DamageIsLocal UsedChipKept
CHECK_DEADLOCK FALSE

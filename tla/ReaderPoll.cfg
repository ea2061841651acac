SPECIFICATION Spec
CONSTANTS
  Readers = {1, 2}
  BUSNUM_SIZE = 3
  FIFO_DEPTH = 3
  OVERFLOW = 3
  MaxEvents = 2
  MaxWire = 6
  Cards = {c1}
  Answers = {"AA", "BB", "55", "CC"}
  Buses <- AllBuses
INVARIANTS TypeOK NoneTwice
PROPERTIES AckedIsStored NeverBackwards ClearedWhenSent PollEnds EventReported
CHECK_DEADLOCK FALSE

SPECIFICATION Spec
CONSTANTS
  Readers = {1, 2}
  BUSNUM_SIZE = 3
  FIFO_DEPTH = 3
  OVERFLOW = 4
  MaxEvents = 2
  MaxWire = 6
  Cards = {c1}
  Answers = {"AA", "BB"}
  Buses <- OnlyQuiet
INVARIANT ReportsAreReal

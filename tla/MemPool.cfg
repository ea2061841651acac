SPECIFICATION Spec
CONSTANTS
  MEMTBLSIZE = 6
  MEMBLKSIZE = 2
  U16 = 65536
  Sizes <- MCSizes
INVARIANTS
  NoOverlap
  TableMatchesLive
PROPERTY ImplementsPool

SPECIFICATION Spec
CONSTANTS
  MEMTBLSIZE = 6
  MsgGrp_SIZE = 2
  MaxEvents = 3
  MaxAnswers = 2
  Networks = {TRUE, FALSE}
INVARIANTS SentReal EachOnce
PROPERTIES EventSent NewestWritten

SPECIFICATION Spec
CONSTANTS
  MEMTBLSIZE = 6
  MsgGrp_SIZE = 2
  MaxEvents = 1
  MaxAnswers = 2
  Networks = {FALSE}
INVARIANT MailboxIntact

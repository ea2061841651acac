SPECIFICATION Spec
CONSTANTS
  SEQMOD = 3
  PACKET_SIZE = 3
  PACKET_1K_SIZE = 6
  WRITE_SIZE = 1
  FLASH_SIZE = 30
  MAX_ERRORS = 2
  TRIES = 3
  LastBlk = 4
  Files = {20, 26}
  Lossy = {"block", "eot", "close", "final"}
  MaxFiles = 2
  MaxLost = 1
  MaxTyped = 1
INVARIANTS ImageExact DownloadComplete SenderKnows
PROPERTY SessionEnds
CHECK_DEADLOCK FALSE

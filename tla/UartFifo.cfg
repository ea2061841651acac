SPECIFICATION Spec
CONSTANTS
  usTxBufSize = 3
  usRxBufSize = 2
  MaxLen = 3
  MaxSent = 6
  MaxReceived = 4
INVARIANTS TransmitExact ReceiveExact
PROPERTY Settles
CHECK_DEADLOCK FALSE

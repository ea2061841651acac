------------------------------ MODULE UartFifo ------------------------------
(***************************************************************************)
(* One serial port of bsp_uart_fifo.c: the transmit ring filled by         *)
(* UartSend, the receive ring emptied by UartGetChar, and UartIRQ between  *)
(* them and the USART.                                                     *)
(*                                                                         *)
(* A task and the interrupt share the rings.  What the code does between   *)
(* DISABLE_INT and ENABLE_INT is one step, and so is the interrupt; it may *)
(* come between any two other steps of the task.  USART_ITConfig is a read *)
(* and a write of the control register, outside the critical section.      *)
(*                                                                         *)
(* Bytes are numbered in the order in which they are queued, or arrive.    *)
(***************************************************************************)
EXTENDS Integers, Sequences

CONSTANTS
  usTxBufSize,  (* bytes in the transmit ring                              *)
  usRxBufSize,  (* bytes in the receive ring                               *)
  MaxLen,       (* longest message that is sent                            *)
  MaxSent,      (* bound: bytes sent in a behaviour                        *)
  MaxReceived   (* bound: bytes received in a behaviour                    *)

ASSUME RingShape ==
  /\ usTxBufSize \in Nat \ {0} /\ usRxBufSize \in Nat \ {0}
  /\ MaxLen \in 1..usTxBufSize
  /\ MaxSent \in Nat /\ MaxReceived \in Nat

VARIABLES
  (* the transmit ring *)
  pTxBuf, usTxWrite, usTxRead, usTxCount,
  (* the receive ring *)
  pRxBuf, usRxWrite, usRxRead, usRxCount,
  (* the USART: data and shift registers, and the interrupts enabled       *)
  tdr, shift, rdr, CR1,
  (* the task in UartSend: where it is, bytes left, its copy of CR1        *)
  sender, left, copy,
  (* the task in UartGetChar: where it is, the byte it holds               *)
  reader, byte,
  (* history: bytes queued, on the line, arrived, handed over; and whether *)
  (* the receive ring ever overflowed                                      *)
  queued, sent, arrived, got, overflow

tx == <<pTxBuf, usTxWrite, usTxRead, usTxCount>>
rx == <<pRxBuf, usRxWrite, usRxRead, usRxCount>>
send == <<sender, left, copy>>
get == <<reader, byte>>
vars == <<tx, rx, tdr, shift, rdr, CR1, send, get, queued, sent, arrived,
          got, overflow>>

Empty == 0

Init ==
  /\ pTxBuf = [k \in 0..(usTxBufSize - 1) |-> Empty]
  /\ pRxBuf = [k \in 0..(usRxBufSize - 1) |-> Empty]
  /\ usTxWrite = 0 /\ usTxRead = 0 /\ usTxCount = 0
  /\ usRxWrite = 0 /\ usRxRead = 0 /\ usRxCount = 0
  /\ tdr = Empty /\ shift = Empty /\ rdr = Empty
  /\ CR1 = {"RXNE"}
  /\ sender = "idle" /\ left = 0 /\ copy = {}
  /\ reader = "idle" /\ byte = Empty
  /\ queued = 0 /\ sent = <<>> /\ arrived = 0 /\ got = <<>>
  /\ overflow = FALSE

(* ++i >= size: back to the start.                                         *)
After(i, size) == IF i + 1 >= size THEN 0 ELSE i + 1

-----------------------------------------------------------------------------
(* UartSend, for each byte of the message.                                 *)

StartSend ==
  /\ sender = "idle"
  /\ left' \in 1..MaxLen /\ queued + left' <= MaxSent
  /\ sender' = "room"
  /\ UNCHANGED <<tx, rx, tdr, shift, rdr, CR1, copy, get, queued, sent,
                 arrived, got, overflow>>

(* Mutant: the ring may be filled beyond its size.                         *)
HasRoomOrFull == usTxCount <= usTxBufSize

(* The loop ends once the count, read with interrupts disabled, is below   *)
(* the size.                                                               *)
HasRoom == usTxCount < usTxBufSize

Room ==
  /\ sender = "room" /\ HasRoom
  /\ sender' = "put"
  /\ UNCHANGED <<tx, rx, tdr, shift, rdr, CR1, left, copy, get, queued, sent,
                 arrived, got, overflow>>

(* The byte goes into the ring before it is counted.                       *)
Put ==
  /\ sender = "put"
  /\ pTxBuf' = [pTxBuf EXCEPT ![usTxWrite] = queued + 1]
  /\ sender' = "advance"
  /\ UNCHANGED <<usTxWrite, usTxRead, usTxCount, rx, tdr, shift, rdr, CR1,
                 left, copy, get, queued, sent, arrived, got, overflow>>

Advance ==
  /\ sender = "advance"
  /\ usTxWrite' = After(usTxWrite, usTxBufSize)
  /\ usTxCount' = usTxCount + 1
  /\ queued' = queued + 1 /\ left' = left - 1
  /\ sender' = IF left > 1 THEN "room" ELSE "enable"
  /\ UNCHANGED <<pTxBuf, usTxRead, rx, tdr, shift, rdr, CR1, copy, get, sent,
                 arrived, got, overflow>>

(* USART_ITConfig(TXE, ENABLE): CR1 is read, then written.                 *)
ReadCR1 ==
  /\ sender = "enable"
  /\ copy' = CR1 /\ sender' = "write"
  /\ UNCHANGED <<tx, rx, tdr, shift, rdr, CR1, left, get, queued, sent,
                 arrived, got, overflow>>

WriteCR1 ==
  /\ sender = "write"
  /\ CR1' = copy \cup {"TXE"}
  /\ copy' = {} /\ sender' = "idle"
  /\ UNCHANGED <<tx, rx, tdr, shift, rdr, left, get, queued, sent, arrived,
                 got, overflow>>

-----------------------------------------------------------------------------
(* UartGetChar.                                                            *)

StartGet ==
  /\ reader = "idle" /\ usRxCount > 0
  /\ reader' = "take"
  /\ UNCHANGED <<tx, rx, tdr, shift, rdr, CR1, send, byte, queued, sent,
                 arrived, got, overflow>>

Take ==
  /\ reader = "take"
  /\ byte' = pRxBuf[usRxRead] /\ reader' = "drop"
  /\ UNCHANGED <<tx, rx, tdr, shift, rdr, CR1, send, queued, sent, arrived,
                 got, overflow>>

(* Mutant: the count is not taken down.                                    *)
DropUncounted ==
  /\ reader = "drop"
  /\ usRxRead' = After(usRxRead, usRxBufSize)
  /\ got' = Append(got, byte) /\ byte' = Empty /\ reader' = "idle"
  /\ UNCHANGED <<tx, pRxBuf, usRxWrite, usRxCount, tdr, shift, rdr, CR1, send,
                 queued, sent, arrived, overflow>>

Drop ==
  /\ reader = "drop"
  /\ usRxRead' = After(usRxRead, usRxBufSize)
  /\ usRxCount' = usRxCount - 1
  /\ got' = Append(got, byte) /\ byte' = Empty /\ reader' = "idle"
  /\ UNCHANGED <<tx, pRxBuf, usRxWrite, tdr, shift, rdr, CR1, send, queued,
                 sent, arrived, overflow>>

-----------------------------------------------------------------------------
(* UartIRQ.  A flag counts only while its interrupt is enabled.            *)

RXNE == rdr # Empty /\ "RXNE" \in CR1
TXE == tdr = Empty /\ "TXE" \in CR1
TC == tdr = Empty /\ shift = Empty /\ "TC" \in CR1

ReceiveInterrupt ==
  IF RXNE
  THEN /\ pRxBuf' = [pRxBuf EXCEPT ![usRxWrite] = rdr]
       /\ usRxWrite' = After(usRxWrite, usRxBufSize)
       /\ usRxCount' = IF usRxCount < usRxBufSize THEN usRxCount + 1
                       ELSE usRxCount
       /\ rdr' = Empty
       /\ overflow' = (overflow \/ usRxCount = usRxBufSize)
       /\ UNCHANGED usRxRead
  ELSE UNCHANGED <<rx, rdr, overflow>>

(* One byte from the ring to the USART.                                    *)
SendData ==
  /\ tdr' = pTxBuf[usTxRead]
  /\ usTxRead' = After(usTxRead, usTxBufSize)
  /\ usTxCount' = usTxCount - 1
  /\ UNCHANGED <<pTxBuf, usTxWrite, CR1>>

(* Mutant: the interrupt "transmission complete" stays on.                 *)
TransmitAlwaysOn ==
  \/ TXE /\ usTxCount = 0 /\ CR1' = (CR1 \ {"TXE"}) \cup {"TC"} /\ UNCHANGED <<tx, tdr>>
  \/ TXE /\ usTxCount # 0 /\ SendData
  \/ ~TXE /\ TC /\ usTxCount = 0 /\ UNCHANGED <<tx, tdr, CR1>>
  \/ ~TXE /\ TC /\ usTxCount # 0 /\ SendData
  \/ ~TXE /\ ~TC /\ UNCHANGED <<tx, tdr, CR1>>

TransmitInterrupt ==
  \/ TXE /\ usTxCount = 0 /\ CR1' = (CR1 \ {"TXE"}) \cup {"TC"} /\ UNCHANGED <<tx, tdr>>
  \/ TXE /\ usTxCount # 0 /\ SendData
  \/ ~TXE /\ TC /\ usTxCount = 0 /\ CR1' = CR1 \ {"TC"} /\ UNCHANGED <<tx, tdr>>
  \/ ~TXE /\ TC /\ usTxCount # 0 /\ SendData
  \/ ~TXE /\ ~TC /\ UNCHANGED <<tx, tdr, CR1>>

UartIRQ ==
  /\ RXNE \/ TXE \/ TC
  /\ ReceiveInterrupt /\ TransmitInterrupt
  /\ UNCHANGED <<shift, send, get, queued, sent, arrived, got>>

-----------------------------------------------------------------------------
(* The USART.                                                              *)

Shift ==
  /\ tdr # Empty /\ shift = Empty
  /\ shift' = tdr /\ tdr' = Empty
  /\ UNCHANGED <<tx, rx, rdr, CR1, send, get, queued, sent, arrived, got,
                 overflow>>

ShiftedOut ==
  /\ shift # Empty
  /\ sent' = Append(sent, shift) /\ shift' = Empty
  /\ UNCHANGED <<tx, rx, tdr, rdr, CR1, send, get, queued, arrived, got,
                 overflow>>

(* The interrupt is served before the next byte is complete (87 us).       *)
Arrives ==
  /\ rdr = Empty /\ arrived < MaxReceived
  /\ arrived' = arrived + 1 /\ rdr' = arrived + 1
  /\ UNCHANGED <<tx, rx, tdr, shift, CR1, send, get, queued, sent, got,
                 overflow>>

UartSend == StartSend \/ Room \/ Put \/ Advance \/ ReadCR1 \/ WriteCR1
UartGetChar == StartGet \/ Take \/ Drop
Usart == Shift \/ ShiftedOut

Next == UartSend \/ UartGetChar \/ UartIRQ \/ Usart \/ Arrives

(* The interrupt and the hardware are served; a task that has begun a call *)
(* goes on with it.                                                        *)
Spec ==
  /\ Init /\ [][Next]_vars
  /\ WF_vars(UartIRQ) /\ WF_vars(Usart)
  /\ WF_vars(Room \/ Put \/ Advance \/ ReadCR1 \/ WriteCR1)

-----------------------------------------------------------------------------
(* The bytes in a ring, oldest first.                                      *)
Ring(buf, from, count, size) == [k \in 1..count |-> buf[(from + k - 1) % size]]

One(b) == IF b = Empty THEN <<>> ELSE <<b>>

FirstN(n) == [k \in 1..n |-> k]

TypeOK ==
  /\ pTxBuf \in [0..(usTxBufSize - 1) -> 0..MaxSent]
  /\ pRxBuf \in [0..(usRxBufSize - 1) -> 0..MaxReceived]
  /\ usTxWrite \in 0..(usTxBufSize - 1) /\ usTxRead \in 0..(usTxBufSize - 1)
  /\ usRxWrite \in 0..(usRxBufSize - 1) /\ usRxRead \in 0..(usRxBufSize - 1)
  /\ usTxCount \in 0..usTxBufSize /\ usRxCount \in 0..usRxBufSize
  /\ tdr \in 0..MaxSent /\ shift \in 0..MaxSent /\ rdr \in 0..MaxReceived
  /\ CR1 \subseteq {"RXNE", "TXE", "TC"} /\ copy \subseteq {"RXNE", "TXE", "TC"}
  /\ sender \in {"idle", "room", "put", "advance", "enable", "write"}
  /\ reader \in {"idle", "take", "drop"}
  /\ left \in 0..MaxLen /\ byte \in 0..MaxReceived
  /\ queued \in 0..MaxSent /\ arrived \in 0..MaxReceived
  /\ overflow \in BOOLEAN

(* The interrupt may come between any two steps of UartSend, and no byte   *)
(* is lost, sent twice or out of order: the line, the registers and the    *)
(* ring hold exactly the bytes queued so far, in order.                    *)
TransmitExact ==
  sent \o One(shift) \o One(tdr)
    \o Ring(pTxBuf, usTxRead, usTxCount, usTxBufSize) = FirstN(queued)

(* Unless the ring overflows, UartGetChar hands over exactly the bytes     *)
(* that arrived, in order: they are handed over, in the ring or in the     *)
(* data register.                                                          *)
ReceiveExact ==
  overflow \/
    got \o Ring(pRxBuf, usRxRead, usRxCount, usRxBufSize) \o One(rdr)
      = FirstN(arrived)

(* Although CR1 is changed by the task and by the interrupt, what is       *)
(* queued is sent, and then the transmit interrupts are switched off and   *)
(* stay off: the interrupt does not come for ever.                         *)
Settles ==
  <>[](sender = "idle" => sent = FirstN(queued) /\ CR1 = {"RXNE"})

=============================================================================

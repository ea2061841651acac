--------------------------- MODULE UartFifoProofs ---------------------------
(***************************************************************************)
(* Proofs about one serial port, for rings of any size and messages of any *)
(* length: no byte is lost, repeated or out of order on its way from       *)
(* UartSend to the line (TransmitExact) and, unless the receive ring       *)
(* overflows, from the line to UartGetChar (ReceiveExact).                 *)
(*                                                                         *)
(* The invariant gives the number of the byte in every place a byte may    *)
(* be: the line has the first ones, then come the shift register, the data *)
(* register and the cells of the ring, each one more than the one before.  *)
(* It says besides what the task relies on between its critical sections:  *)
(* the room it saw is still there when it counts its byte, and the byte it *)
(* wrote is still where it wrote it.                                       *)
(***************************************************************************)
EXTENDS UartFifo, SequenceTheorems, TLAPS

(* The index k places behind i in a ring.                                  *)
Wrap(i, k, size) == IF i + k >= size THEN i + k - size ELSE i + k

(* How many bytes a register holds.                                        *)
Held(r) == IF r = Empty THEN 0 ELSE 1

(* The sequence 1, 2, 3, ...                                               *)
Counts(s) == s \in Seq(Nat) /\ \A k \in 1..Len(s) : s[k] = k

Types ==
  /\ TypeOK
  /\ sent \in Seq(Nat) /\ got \in Seq(Nat)

(* What the task in UartSend relies on.                                    *)
SenderSees ==
  /\ sender \in {"room", "put", "advance"} => left > 0
  /\ queued + left <= MaxSent
  /\ sender \in {"put", "advance"} => usTxCount < usTxBufSize
  /\ sender = "advance" => pTxBuf[usTxWrite] = queued + 1

(* On the line, in the registers, in the ring.                             *)
TxOrder ==
  /\ Counts(sent)
  /\ shift # Empty => shift = Len(sent) + 1
  /\ tdr # Empty => tdr = Len(sent) + Held(shift) + 1
  /\ queued = Len(sent) + Held(shift) + Held(tdr) + usTxCount
  /\ usTxWrite = Wrap(usTxRead, usTxCount, usTxBufSize)
  /\ \A k \in 0..(usTxBufSize - 1) :
       k < usTxCount =>
         pTxBuf[Wrap(usTxRead, k, usTxBufSize)] = queued - usTxCount + k + 1

(* What the task in UartGetChar relies on.                                 *)
ReaderSees == reader \in {"take", "drop"} => usRxCount > 0

(* Handed over, in the ring, in the data register.                         *)
RxOrder ==
  /\ Counts(got)
  /\ rdr # Empty => rdr = arrived
  /\ arrived = Len(got) + usRxCount + Held(rdr)
  /\ usRxWrite = Wrap(usRxRead, usRxCount, usRxBufSize)
  /\ \A k \in 0..(usRxBufSize - 1) :
       k < usRxCount =>
         pRxBuf[Wrap(usRxRead, k, usRxBufSize)] = Len(got) + k + 1
  /\ reader = "drop" => byte = Len(got) + 1

TxInv == SenderSees /\ TxOrder
RxInv == ReaderSees /\ (overflow \/ RxOrder)
IInv == Types /\ TxInv /\ RxInv
-----------------------------------------------------------------------------
(* Advancing an index by one of a ring is one more place to wrap.          *)
LEMMA WrapLaws ==
  ASSUME NEW size \in Nat \ {0}, NEW i \in 0..(size - 1)
  PROVE  /\ After(i, size) = Wrap(i, 1, size) /\ After(i, size) \in 0..(size - 1)
         /\ Wrap(i, 0, size) = i
         /\ \A k \in 0..(size - 1) :
              /\ Wrap(i, k, size) \in 0..(size - 1)
              /\ Wrap(After(i, size), k, size) = Wrap(i, k + 1, size)
              /\ After(Wrap(i, k, size), size) = Wrap(i, k + 1, size)
PROOF BY DEF After, Wrap

(* The cell behind the k-th.                                               *)
LEMMA WrapNext ==
  ASSUME NEW size \in Nat \ {0}, NEW i \in 0..(size - 1), NEW k \in 0..(size - 1)
  PROVE  After(Wrap(i, k, size), size) = Wrap(i, k + 1, size)
PROOF BY DEF After, Wrap

(* Two places of a ring are two cells.                                     *)
LEMMA WrapApart ==
  ASSUME NEW size \in Nat \ {0}, NEW i \in 0..(size - 1),
         NEW j \in 0..(size - 1), NEW k \in 0..(size - 1), j # k
  PROVE  Wrap(i, j, size) # Wrap(i, k, size)
PROOF BY DEF Wrap

(* One more byte on the line, or handed over.                              *)
LEMMA CountsOn ==
  ASSUME NEW s, Counts(s)
  PROVE  /\ Counts(Append(s, Len(s) + 1))
         /\ Len(Append(s, Len(s) + 1)) = Len(s) + 1
PROOF BY DEF Counts

-----------------------------------------------------------------------------
(* Nothing is queued and nothing has arrived.                              *)
LEMMA InitIInv == Init => IInv
<1> SUFFICES ASSUME Init PROVE IInv
  OBVIOUS
<1> USE RingShape DEF Init
<1>1. Types
  BY DEF Types, TypeOK, Empty
<1>2. TxInv
  BY DEF TxInv, SenderSees, TxOrder, Counts, Held, Wrap, Empty
<1>3. RxInv
  BY DEF RxInv, ReaderSees, RxOrder, Counts, Held, Wrap, Empty
<1> QED BY <1>1, <1>2, <1>3 DEF IInv

-----------------------------------------------------------------------------
(* The steps of the task in UartSend.  Only Advance changes what is queued,*)
(* and it counts a byte that is already in its cell.                       *)
LEMMA UartSendKeeps ==
  ASSUME IInv, UartSend
  PROVE  Types' /\ TxInv'
<1> USE RingShape DEF IInv, Types, TypeOK, TxInv
<1>1. CASE StartSend
  <2> USE <1>1 DEF StartSend, tx, rx, get
  <2>1. Types'
    OBVIOUS
  <2>2. SenderSees'
    <3> HIDE DEF IInv, Types, TypeOK, TxInv
    <3> QED BY DEF SenderSees
  <2>3. TxOrder'
    BY DEF TxOrder
  <2> QED BY <2>1, <2>2, <2>3
<1>2. CASE Room
  BY <1>2 DEF Room, HasRoom, SenderSees, TxOrder, tx, rx, get
<1>3. CASE Put
  <2> USE <1>3 DEF Put, rx, get
  <2>1. /\ usTxCount < usTxBufSize /\ queued + 1 \in 0..MaxSent
        /\ pTxBuf' = [pTxBuf EXCEPT ![usTxWrite] = queued + 1]
    BY DEF SenderSees
  <2>2. Types'
    BY <2>1
  <2>3. SenderSees'
    BY <2>1 DEF SenderSees
  <2>4. \A k \in 0..(usTxBufSize - 1) :
          k < usTxCount => usTxWrite # Wrap(usTxRead, k, usTxBufSize)
    <3>1. usTxCount \in 0..(usTxBufSize - 1)
      BY <2>1
    <3>2. usTxWrite = Wrap(usTxRead, usTxCount, usTxBufSize)
      BY DEF TxOrder
    <3>3. usTxRead \in 0..(usTxBufSize - 1)
      OBVIOUS
    <3> HIDE <1>3 DEF Put, IInv, Types, TypeOK, TxInv
    <3> TAKE k \in 0..(usTxBufSize - 1)
    <3> HAVE k < usTxCount
    <3>4. k # usTxCount
      BY <3>1
    <3> QED BY <3>1, <3>2, <3>3, <3>4, WrapApart
  <2>5. \A k \in 0..(usTxBufSize - 1) :
          Wrap(usTxRead, k, usTxBufSize) \in 0..(usTxBufSize - 1)
    BY WrapLaws
  <2>6. \A k \in 0..(usTxBufSize - 1) : k < usTxCount =>
          pTxBuf'[Wrap(usTxRead, k, usTxBufSize)]
            = pTxBuf[Wrap(usTxRead, k, usTxBufSize)]
    BY <2>1, <2>4, <2>5
  <2>7. UNCHANGED <<usTxWrite, usTxRead, usTxCount, tdr, shift, queued, sent>>
    OBVIOUS
  <2>8. TxOrder'
    <3>1. TxOrder
      OBVIOUS
    <3> HIDE <1>3 DEF Put, IInv, Types, TypeOK, TxInv
    <3> QED BY <2>6, <2>7, <3>1 DEF TxOrder
  <2> QED BY <2>2, <2>3, <2>8
<1>4. CASE Advance
  <2> USE <1>4 DEF Advance, rx, get
  <2>1. /\ usTxCount < usTxBufSize /\ left > 0 /\ queued + left <= MaxSent
        /\ pTxBuf[usTxWrite] = queued + 1
    BY DEF SenderSees
  <2>2. usTxWrite' \in 0..(usTxBufSize - 1)
    BY WrapLaws
  <2>3. Types'
    <3>1. UNCHANGED <<pTxBuf, usTxRead, pRxBuf, usRxWrite, usRxRead, usRxCount,
                      tdr, shift, rdr, CR1, copy, reader, byte, sent, arrived,
                      got, overflow>>
      OBVIOUS
    <3>2. usTxCount' \in 0..usTxBufSize /\ queued' \in 0..MaxSent
      BY <2>1
    <3>3. left' \in 0..MaxLen
      BY <2>1
    <3>4. sender' \in {"room", "enable"}
      OBVIOUS
    <3>5. Types
      OBVIOUS
    <3> HIDE <1>4 DEF Advance, IInv, TxInv
    <3> QED BY <2>2, <3>1, <3>2, <3>3, <3>4, <3>5
  <2>4. SenderSees'
    BY <2>1 DEF SenderSees
  <2>5. usTxWrite = Wrap(usTxRead, usTxCount, usTxBufSize)
    BY DEF TxOrder
  <2>6. usTxWrite' = Wrap(usTxRead, usTxCount + 1, usTxBufSize)
    <3>1. /\ usTxWrite' = After(usTxWrite, usTxBufSize)
          /\ usTxRead \in 0..(usTxBufSize - 1)
          /\ usTxCount \in 0..(usTxBufSize - 1)
      BY <2>1
    <3> HIDE <1>4 DEF Advance, IInv, Types, TypeOK, TxInv
    <3> QED BY <2>5, <3>1, WrapNext
  <2>7. \A k \in 0..(usTxBufSize - 1) : k < usTxCount + 1 =>
          pTxBuf[Wrap(usTxRead, k, usTxBufSize)] = queued - usTxCount + k + 1
    <3> SUFFICES ASSUME NEW k \in 0..(usTxBufSize - 1), k < usTxCount + 1
                 PROVE  pTxBuf[Wrap(usTxRead, k, usTxBufSize)]
                          = queued - usTxCount + k + 1
      OBVIOUS
    <3>1. CASE k < usTxCount
      BY <3>1 DEF TxOrder
    <3>2. CASE k = usTxCount
      BY <3>2, <2>1, <2>5
    <3> QED BY <3>1, <3>2
  <2>8. Counts(sent') /\ Len(sent) \in Nat
    BY DEF TxOrder
  <2>9. queued' = Len(sent') + Held(shift') + Held(tdr') + usTxCount'
    <3>1. /\ queued = Len(sent) + Held(shift) + Held(tdr) + usTxCount
          /\ Held(shift) \in Nat /\ Held(tdr) \in Nat /\ usTxCount \in Nat
      BY DEF TxOrder, Held
    <3>2. UNCHANGED <<sent, shift, tdr>> /\ queued' = queued + 1 /\ usTxCount' = usTxCount + 1
      OBVIOUS
    <3> HIDE <1>4 DEF Advance, IInv, Types, TypeOK, TxInv
    <3> QED BY <2>8, <3>1, <3>2
  <2>10. \A k \in 0..(usTxBufSize - 1) : k < usTxCount' =>
           pTxBuf'[Wrap(usTxRead', k, usTxBufSize)]
             = queued' - usTxCount' + k + 1
    <3>1. /\ UNCHANGED <<usTxRead, pTxBuf>> /\ queued' = queued + 1 /\ usTxCount' = usTxCount + 1
          /\ queued \in Nat /\ usTxCount \in Nat
      OBVIOUS
    <3> HIDE <1>4 DEF Advance, IInv, Types, TypeOK, TxInv
    <3> TAKE k \in 0..(usTxBufSize - 1)
    <3> HAVE k < usTxCount'
    <3>2. pTxBuf[Wrap(usTxRead, k, usTxBufSize)] = queued - usTxCount + k + 1
      BY <2>7, <3>1
    <3> QED BY <3>1, <3>2
  <2>11. UNCHANGED <<usTxRead, tdr, shift, sent>> /\ usTxCount' = usTxCount + 1
    OBVIOUS
  <2>12. TxOrder'
    <3>1. TxOrder
      OBVIOUS
    <3> HIDE <1>4 DEF Advance, IInv, Types, TypeOK, TxInv
    <3> QED BY <2>6, <2>8, <2>9, <2>10, <2>11, <3>1 DEF TxOrder
  <2> QED BY <2>3, <2>4, <2>12
<1>5. CASE ReadCR1
  BY <1>5 DEF ReadCR1, SenderSees, TxOrder, tx, rx, get
<1>6. CASE WriteCR1
  BY <1>6 DEF WriteCR1, SenderSees, TxOrder, tx, rx, get
<1> QED BY <1>1, <1>2, <1>3, <1>4, <1>5, <1>6 DEF UartSend

(* The steps of the task in UartGetChar: the byte it takes is the oldest.  *)
LEMMA UartGetCharKeeps ==
  ASSUME IInv, UartGetChar
  PROVE  Types' /\ RxInv'
<1> USE RingShape DEF IInv, Types, TypeOK, RxInv
<1>1. CASE StartGet
  BY <1>1 DEF StartGet, ReaderSees, RxOrder, tx, rx, send
<1>2. CASE Take
  <2> USE <1>2 DEF Take, tx, rx, send
  <2>1. Types' /\ ReaderSees'
    BY DEF ReaderSees
  <2>2. ASSUME RxOrder PROVE RxOrder'
    <3>1. usRxCount > 0 /\ Wrap(usRxRead, 0, usRxBufSize) = usRxRead
      BY WrapLaws DEF ReaderSees
    <3>2. byte' = Len(got) + 1
      <4>1. 0 \in 0..(usRxBufSize - 1) /\ Len(got) \in Nat
        OBVIOUS
      <4>2. pRxBuf[Wrap(usRxRead, 0, usRxBufSize)] = Len(got) + 0 + 1
        BY <2>2, <3>1, <4>1 DEF RxOrder
      <4> QED BY <3>1, <4>1, <4>2
    <3> QED BY <2>2, <3>2 DEF RxOrder
  <2> QED BY <2>1, <2>2
<1>3. CASE Drop
  <2> USE <1>3 DEF Drop, tx, send
  <2>1. usRxCount > 0 /\ usRxRead' \in 0..(usRxBufSize - 1)
    BY WrapLaws DEF ReaderSees
  <2>2. got' \in Seq(Nat)
    OBVIOUS
  <2>3. Types'
    <3>1. UNCHANGED <<pTxBuf, usTxWrite, usTxRead, usTxCount, pRxBuf, usRxWrite,
                      tdr, shift, rdr, CR1, sender, left, copy, queued, sent,
                      arrived, overflow>>
      OBVIOUS
    <3>2. usRxCount' \in 0..usRxBufSize
      BY <2>1
    <3>3. byte' = 0 /\ reader' = "idle"
      BY DEF Empty
    <3>4. Types /\ MaxReceived \in Nat
      OBVIOUS
    <3> HIDE <1>3 DEF Drop, IInv, RxInv
    <3>5. byte' \in 0..MaxReceived /\ reader' \in {"idle", "take", "drop"}
      BY <3>3, <3>4
    <3> QED BY <2>1, <2>2, <3>1, <3>2, <3>4, <3>5, Zenon
  <2>4. ReaderSees'
    BY DEF ReaderSees
  <2>5. ASSUME RxOrder PROVE RxOrder'
    <3>1. Counts(got') /\ Len(got') = Len(got) + 1
      BY <2>5, CountsOn DEF RxOrder
    <3>2. \A k \in 0..(usRxBufSize - 1) : k < usRxCount - 1 =>
            pRxBuf[Wrap(usRxRead', k, usRxBufSize)] = Len(got) + (k + 1) + 1
      <4> SUFFICES ASSUME NEW k \in 0..(usRxBufSize - 1), k < usRxCount - 1
                   PROVE  pRxBuf[Wrap(usRxRead', k, usRxBufSize)]
                            = Len(got) + (k + 1) + 1
        OBVIOUS
      <4>1. k + 1 \in 0..(usRxBufSize - 1) /\ k + 1 < usRxCount
        OBVIOUS
      <4>2. Wrap(usRxRead', k, usRxBufSize) = Wrap(usRxRead, k + 1, usRxBufSize)
        BY WrapLaws
      <4>3. pRxBuf[Wrap(usRxRead, k + 1, usRxBufSize)] = Len(got) + (k + 1) + 1
        <5> HIDE <1>3 DEF Drop, IInv, Types, TypeOK, RxInv
        <5> QED BY <2>5, <4>1 DEF RxOrder
      <4> QED BY <4>2, <4>3
    <3>3. usRxWrite = Wrap(usRxRead', usRxCount - 1, usRxBufSize)
      <4>1. /\ usRxCount - 1 \in 0..(usRxBufSize - 1)
            /\ usRxCount = (usRxCount - 1) + 1
            /\ usRxRead \in 0..(usRxBufSize - 1)
            /\ usRxRead' = After(usRxRead, usRxBufSize)
        BY <2>1
      <4>2. usRxWrite = Wrap(usRxRead, usRxCount, usRxBufSize)
        BY <2>5 DEF RxOrder
      <4> HIDE <1>3 DEF Drop, IInv, Types, TypeOK, RxInv
      <4> QED BY <4>1, <4>2, WrapLaws
    <3>4. Len(got) \in Nat
      OBVIOUS
    <3>5. \A k \in 0..(usRxBufSize - 1) : k < usRxCount' =>
            pRxBuf'[Wrap(usRxRead', k, usRxBufSize)] = Len(got') + k + 1
      <4>1. usRxCount' = usRxCount - 1 /\ pRxBuf' = pRxBuf /\ usRxCount \in Nat
        OBVIOUS
      <4> HIDE <1>3 DEF Drop, IInv, Types, TypeOK, RxInv
      <4>2. SUFFICES ASSUME NEW k \in 0..(usRxBufSize - 1), k < usRxCount'
                     PROVE  pRxBuf'[Wrap(usRxRead', k, usRxBufSize)]
                              = Len(got') + k + 1
        OBVIOUS
      <4>3. pRxBuf[Wrap(usRxRead', k, usRxBufSize)] = Len(got) + (k + 1) + 1
        BY <3>2, <4>1, <4>2
      <4> QED BY <3>1, <3>4, <4>1, <4>3
    <3>6. arrived' = Len(got') + usRxCount' + Held(rdr')
      BY <2>5, <3>1, <3>4 DEF RxOrder, Held
    <3> QED BY <2>5, <3>1, <3>3, <3>5, <3>6 DEF RxOrder
  <2> QED BY <2>3, <2>4, <2>5
<1> QED BY <1>1, <1>2, <1>3 DEF UartGetChar

-----------------------------------------------------------------------------
(* The transmit half of UartIRQ: the byte it hands to the USART is the one *)
(* after the last it handed over.                                          *)
LEMMA TransmitKeeps ==
  ASSUME IInv, TransmitInterrupt,
         UNCHANGED <<shift, sender, left, queued, sent>>
  PROVE  /\ TxInv'
         /\ pTxBuf' = pTxBuf /\ usTxWrite' = usTxWrite
         /\ usTxRead' \in 0..(usTxBufSize - 1)
         /\ usTxCount' \in 0..usTxBufSize /\ tdr' \in 0..MaxSent
         /\ CR1' \subseteq {"RXNE", "TXE", "TC"}
<1> USE RingShape DEF IInv, Types, TypeOK, TxInv
<1>1. CASE UNCHANGED <<tx, tdr>>
  <2>1. CR1' \subseteq {"RXNE", "TXE", "TC"}
    BY <1>1 DEF TransmitInterrupt, SendData
  <2> QED BY <1>1, <2>1 DEF tx, SenderSees, TxOrder
<1>2. CASE SendData /\ tdr = Empty /\ usTxCount # 0
  <2> USE <1>2 DEF SendData
  <2>1. /\ 0 \in 0..(usTxBufSize - 1) /\ 0 < usTxCount
        /\ Len(sent) \in Nat
    BY DEF TxOrder, Counts
  <2>2. usTxRead' \in 0..(usTxBufSize - 1)
    BY WrapLaws
  <2>3. tdr' = queued - usTxCount + 1
    <3>1. Wrap(usTxRead, 0, usTxBufSize) = usTxRead
      BY WrapLaws
    <3>2. pTxBuf[Wrap(usTxRead, 0, usTxBufSize)] = queued - usTxCount + 0 + 1
      BY <2>1 DEF TxOrder
    <3> QED BY <3>1, <3>2
  <2>4. queued - usTxCount = Len(sent) + Held(shift) /\ Held(shift) \in Nat
    BY <2>1 DEF TxOrder, Held
  <2>5. tdr' = Len(sent) + Held(shift) + 1 /\ Held(tdr') = 1
    <3>1. tdr' = Len(sent) + Held(shift) + 1
      BY <2>3, <2>4
    <3>2. Held(shift) \in Nat
      BY DEF Held
    <3> HIDE <1>2 DEF SendData, IInv, Types, TypeOK, TxInv
    <3>3. tdr' # 0
      BY <2>1, <3>1, <3>2
    <3> QED BY <3>1, <3>3 DEF Held, Empty
  <2>6. queued' = Len(sent') + Held(shift') + Held(tdr') + usTxCount'
    <3>1. /\ queued \in Nat /\ usTxCount \in Nat /\ usTxCount' = usTxCount - 1
          /\ UNCHANGED <<queued, sent, shift>>
      OBVIOUS
    <3> HIDE <1>2 DEF SendData, IInv, Types, TypeOK, TxInv
    <3> QED BY <2>1, <2>4, <2>5, <3>1
  <2>7. usTxWrite' = Wrap(usTxRead', usTxCount', usTxBufSize)
    <3>1. usTxCount - 1 \in 0..(usTxBufSize - 1)
      BY <2>1
    <3>2. Wrap(usTxRead', usTxCount - 1, usTxBufSize)
            = Wrap(usTxRead, (usTxCount - 1) + 1, usTxBufSize)
      BY <3>1, WrapLaws
    <3> QED BY <3>2 DEF TxOrder
  <2>8. \A k \in 0..(usTxBufSize - 1) : k < usTxCount' =>
          pTxBuf'[Wrap(usTxRead', k, usTxBufSize)]
            = queued' - usTxCount' + k + 1
    <3> SUFFICES ASSUME NEW k \in 0..(usTxBufSize - 1), k < usTxCount - 1
                 PROVE  pTxBuf[Wrap(usTxRead', k, usTxBufSize)]
                          = queued - (usTxCount - 1) + k + 1
      OBVIOUS
    <3>1. k + 1 \in 0..(usTxBufSize - 1) /\ k + 1 < usTxCount
      OBVIOUS
    <3>2. Wrap(usTxRead', k, usTxBufSize) = Wrap(usTxRead, k + 1, usTxBufSize)
      BY WrapLaws
    <3>3. pTxBuf[Wrap(usTxRead, k + 1, usTxBufSize)]
            = queued - usTxCount + (k + 1) + 1
      BY <3>1 DEF TxOrder
    <3> QED BY <3>2, <3>3
  <2>9. TxOrder'
    BY <2>5, <2>6, <2>7, <2>8 DEF TxOrder
  <2>10. SenderSees'
    BY <2>1 DEF SenderSees
  <2>11. usTxCount' \in 0..usTxBufSize /\ tdr' \in 0..MaxSent
    BY <2>1
  <2> QED BY <2>2, <2>9, <2>10, <2>11
<1>3. UNCHANGED <<tx, tdr>> \/ (SendData /\ tdr = Empty /\ usTxCount # 0)
  BY DEF TransmitInterrupt, TXE, TC
<1> QED BY <1>1, <1>2, <1>3

(* The receive half: the byte goes behind the youngest, or the ring        *)
(* overflows.                                                              *)
LEMMA ReceiveKeeps ==
  ASSUME IInv, ReceiveInterrupt, UNCHANGED <<reader, byte, arrived, got>>
  PROVE  /\ RxInv'
         /\ pRxBuf' \in [0..(usRxBufSize - 1) -> 0..MaxReceived]
         /\ usRxRead' = usRxRead /\ usRxWrite' \in 0..(usRxBufSize - 1)
         /\ usRxCount' \in 0..usRxBufSize /\ rdr' \in 0..MaxReceived
         /\ overflow' \in BOOLEAN
<1> USE RingShape DEF IInv, Types, TypeOK, RxInv
<1>1. CASE UNCHANGED <<rx, rdr, overflow>>
  BY <1>1 DEF rx, ReaderSees, RxOrder
<1>2. CASE RXNE
  <2> USE <1>2 DEF ReceiveInterrupt
  <2>1. /\ pRxBuf' = [pRxBuf EXCEPT ![usRxWrite] = rdr]
        /\ usRxWrite' = After(usRxWrite, usRxBufSize)
        /\ usRxCount' = IF usRxCount < usRxBufSize THEN usRxCount + 1
                        ELSE usRxCount
        /\ rdr' = Empty /\ usRxRead' = usRxRead /\ rdr # Empty
        /\ overflow' = (overflow \/ usRxCount = usRxBufSize)
    BY DEF RXNE
  <2> HIDE DEF ReceiveInterrupt
  <2>2. /\ pRxBuf' \in [0..(usRxBufSize - 1) -> 0..MaxReceived]
        /\ usRxWrite' \in 0..(usRxBufSize - 1)
    BY <2>1, WrapLaws
  <2>3. usRxCount' \in 0..usRxBufSize /\ rdr' \in 0..MaxReceived
    BY <2>1 DEF Empty
  <2>4. overflow' \in BOOLEAN
    BY <2>1
  <2>5. ReaderSees'
    BY <2>1 DEF ReaderSees
  <2>6. ASSUME ~overflow' PROVE RxOrder'
    <3>1. ~overflow /\ usRxCount # usRxBufSize
      BY <2>1, <2>6
    <3>2. RxOrder /\ usRxCount \in 0..(usRxBufSize - 1) /\ usRxCount' = usRxCount + 1
      BY <2>1, <3>1
    <3>3. /\ rdr = arrived /\ arrived = Len(got) + usRxCount + 1
          /\ Len(got) \in Nat
      <4>1. Held(rdr) = 1
        BY <2>1 DEF Held
      <4>2. Len(got) \in Nat
        OBVIOUS
      <4> HIDE DEF IInv, Types, TypeOK, RxInv
      <4> QED BY <2>1, <3>2, <4>1, <4>2 DEF RxOrder
    <3>4. usRxWrite = Wrap(usRxRead, usRxCount, usRxBufSize)
      BY <3>2 DEF RxOrder
    <3>5. usRxWrite' = Wrap(usRxRead', usRxCount', usRxBufSize)
      <4>1. /\ usRxRead \in 0..(usRxBufSize - 1) /\ usRxRead' = usRxRead
            /\ usRxCount \in 0..(usRxBufSize - 1) /\ usRxCount' = usRxCount + 1
            /\ usRxWrite' = After(usRxWrite, usRxBufSize)
        BY <2>1, <3>2
      <4> HIDE DEF IInv, Types, TypeOK, RxInv
      <4> QED BY <3>4, <4>1, WrapNext
    <3>6. \A k \in 0..(usRxBufSize - 1) : k < usRxCount' =>
            pRxBuf'[Wrap(usRxRead', k, usRxBufSize)] = Len(got') + k + 1
      <4> SUFFICES ASSUME NEW k \in 0..(usRxBufSize - 1), k < usRxCount + 1
                   PROVE  pRxBuf'[Wrap(usRxRead, k, usRxBufSize)]
                            = Len(got) + k + 1
        BY <2>1, <3>2
      <4>1. CASE k = usRxCount
        <5>1. usRxWrite \in DOMAIN pRxBuf
          OBVIOUS
        <5>2. pRxBuf'[usRxWrite] = rdr
          BY <2>1, <5>1
        <5> HIDE DEF IInv, Types, TypeOK, RxInv
        <5> QED BY <4>1, <5>2, <3>3, <3>4
      <4>2. CASE k < usRxCount
        <5>1. Wrap(usRxRead, k, usRxBufSize) # usRxWrite
          <6>1. usRxRead \in 0..(usRxBufSize - 1) /\ k # usRxCount
            BY <4>2
          <6>2. usRxCount \in 0..(usRxBufSize - 1)
            BY <3>2
          <6> HIDE DEF IInv, Types, TypeOK, RxInv
          <6> QED BY <3>4, <6>1, <6>2, WrapApart
        <5>3. Wrap(usRxRead, k, usRxBufSize) \in 0..(usRxBufSize - 1)
          BY WrapLaws
        <5>2. pRxBuf[Wrap(usRxRead, k, usRxBufSize)] = Len(got) + k + 1
          BY <4>2, <3>2 DEF RxOrder
        <5> QED BY <5>1, <5>2, <5>3, <2>1
      <4> QED BY <4>1, <4>2
    <3>7. arrived' = Len(got') + usRxCount' + Held(rdr')
      BY <2>1, <3>2, <3>3 DEF Held
    <3> QED BY <2>1, <3>2, <3>5, <3>6, <3>7 DEF RxOrder
  <2>7. overflow' \/ RxOrder'
    BY <2>6
  <2> QED BY <2>1, <2>2, <2>3, <2>4, <2>5, <2>7
<1> QED BY <1>1, <1>2 DEF ReceiveInterrupt

(* The USART shifts a byte out, and receives one.                          *)
LEMMA UsartKeeps ==
  ASSUME IInv, Usart
  PROVE  Types' /\ TxInv'
<1> USE RingShape DEF IInv, Types, TypeOK, TxInv
<1>1. CASE Shift
  <2> USE <1>1 DEF Shift, tx, rx, send, get
  <2>1. Types'
    BY DEF Empty
  <2>2. SenderSees'
    BY DEF SenderSees
  <2>3. shift' = Len(sent') + 1 /\ Len(sent) \in Nat
    BY DEF TxOrder, Held
  <2>4. Held(shift') = Held(tdr) /\ Held(tdr') = Held(shift) /\ Held(tdr) = 1 /\ Held(shift) = 0
    BY DEF Held
  <2>5. TxOrder'
    BY <2>3, <2>4 DEF TxOrder
  <2> QED BY <2>1, <2>2, <2>5
<1>2. CASE ShiftedOut
  <2> USE <1>2 DEF ShiftedOut, tx, rx, send, get
  <2>1. sent' \in Seq(Nat)
    OBVIOUS
  <2>2. Types'
    <3>1. shift' \in 0..MaxSent
      BY DEF Empty
    <3> QED BY <2>1, <3>1
  <2>3. SenderSees'
    <3>1. SenderSees /\ UNCHANGED <<sender, left, queued, usTxCount, usTxWrite, pTxBuf>>
      OBVIOUS
    <3> HIDE <1>2 DEF ShiftedOut, IInv, Types, TypeOK, TxInv
    <3> QED BY <3>1 DEF SenderSees
  <2>4. Counts(sent') /\ Len(sent') = Len(sent) + 1 /\ Len(sent) \in Nat
    <3>1. /\ Counts(sent) /\ sent \in Seq(Nat) /\ shift # Empty
          /\ shift # Empty => shift = Len(sent) + 1
          /\ sent' = Append(sent, shift)
      BY DEF TxOrder
    <3> HIDE <1>2 DEF ShiftedOut, IInv, Types, TypeOK, TxInv
    <3> QED BY <3>1, CountsOn
  <2>5. Held(shift) = 1 /\ Held(shift') = 0 /\ Held(tdr) \in Nat
    BY DEF Held
  <2>6. queued' = Len(sent') + Held(shift') + Held(tdr') + usTxCount'
    BY <2>4, <2>5 DEF TxOrder
  <2>7. tdr' # Empty => tdr' = Len(sent') + Held(shift') + 1
    BY <2>4, <2>5 DEF TxOrder
  <2>8. TxOrder'
    BY <2>4, <2>6, <2>7 DEF TxOrder
  <2> QED BY <2>2, <2>3, <2>8
<1> QED BY <1>1, <1>2 DEF Usart

LEMMA ArrivesKeeps ==
  ASSUME IInv, Arrives
  PROVE  Types' /\ RxInv'
<1> USE RingShape DEF IInv, Types, TypeOK, RxInv, Arrives, tx, rx, send, get
<1>1. Types'
  OBVIOUS
<1>2. ReaderSees'
  BY DEF ReaderSees
<1>3. ASSUME RxOrder PROVE RxOrder'
  <2>1. Held(rdr) = 0 /\ Held(rdr') = 1 /\ Len(got) \in Nat
    BY DEF Held, Empty
  <2>2. UNCHANGED <<pRxBuf, usRxWrite, usRxRead, usRxCount, reader, byte, got>>
    OBVIOUS
  <2>3. arrived' = arrived + 1 /\ rdr' = arrived' /\ arrived \in Nat /\ usRxCount \in Nat
    OBVIOUS
  <2> HIDE DEF IInv, Types, TypeOK, RxInv, Arrives
  <2> QED BY <2>1, <2>2, <2>3, <1>3 DEF RxOrder
<1> QED BY <1>1, <1>2, <1>3

-----------------------------------------------------------------------------
(* Every step of the task, the interrupt and the USART keeps the invariant.*)
LEMMA NextIInv == IInv /\ [Next]_vars => IInv'
<1> SUFFICES ASSUME IInv, [Next]_vars PROVE IInv'
  OBVIOUS
<1>1. CASE UartSend
  <2>1. UNCHANGED <<pRxBuf, usRxWrite, usRxRead, usRxCount, rdr, reader, byte,
                    arrived, got, overflow>>
    BY <1>1 DEF UartSend, StartSend, Room, Put, Advance, ReadCR1, WriteCR1,
                rx, get
  <2>2. RxInv'
    BY <2>1 DEF IInv, RxInv, ReaderSees, RxOrder
  <2> QED BY <1>1, <2>2, UartSendKeeps DEF IInv
<1>2. CASE UartGetChar
  <2>1. UNCHANGED <<pTxBuf, usTxWrite, usTxRead, usTxCount, tdr, shift,
                    sender, left, queued, sent>>
    BY <1>2 DEF UartGetChar, StartGet, Take, Drop, tx, send
  <2>2. TxInv'
    BY <2>1 DEF IInv, TxInv, SenderSees, TxOrder
  <2> QED BY <1>2, <2>2, UartGetCharKeeps DEF IInv
<1>3. CASE UartIRQ
  <2>1. ReceiveInterrupt /\ TransmitInterrupt
        /\ UNCHANGED <<shift, sender, left, copy, reader, byte, queued, sent,
                       arrived, got>>
    BY <1>3 DEF UartIRQ, send, get
  <2>2. TxInv' /\ RxInv'
    BY <2>1, TransmitKeeps, ReceiveKeeps
  <2>3. Types'
    BY <2>1, TransmitKeeps, ReceiveKeeps DEF IInv, Types, TypeOK
  <2> QED BY <2>2, <2>3 DEF IInv
<1>4. CASE Usart
  <2>1. UNCHANGED <<pRxBuf, usRxWrite, usRxRead, usRxCount, rdr, reader, byte,
                    arrived, got, overflow>>
    BY <1>4 DEF Usart, Shift, ShiftedOut, rx, get
  <2>2. RxInv'
    BY <2>1 DEF IInv, RxInv, ReaderSees, RxOrder
  <2> QED BY <1>4, <2>2, UsartKeeps DEF IInv
<1>5. CASE Arrives
  <2>1. UNCHANGED <<pTxBuf, usTxWrite, usTxRead, usTxCount, tdr, shift,
                    sender, left, queued, sent>>
    BY <1>5 DEF Arrives, tx, send
  <2>2. TxInv'
    BY <2>1 DEF IInv, TxInv, SenderSees, TxOrder
  <2> QED BY <1>5, <2>2, ArrivesKeeps DEF IInv
<1>6. CASE UNCHANGED vars
  <2> USE <1>6 DEF vars, tx, rx, send, get, IInv
  <2>1. Types'
    BY DEF Types, TypeOK
  <2>2. TxInv'
    BY DEF TxInv, SenderSees, TxOrder
  <2>3. RxInv'
    BY DEF RxInv, ReaderSees, RxOrder
  <2> QED BY <2>1, <2>2, <2>3
<1> QED BY <1>1, <1>2, <1>3, <1>4, <1>5, <1>6 DEF Next

LEMMA Invariance == Spec => []IInv
<1>1. Init => IInv
  BY InitIInv
<1>2. IInv /\ [Next]_vars => IInv'
  BY NextIInv
<1> QED BY <1>1, <1>2, PTL DEF Spec

-----------------------------------------------------------------------------
(* What follows the first n numbers, counting on, makes the first n + m.   *)
LEMMA CountOn ==
  ASSUME NEW n \in Nat, NEW t \in Seq(Int),
         \A k \in 1..Len(t) : t[k] = n + k
  PROVE  FirstN(n) \o t = FirstN(n + Len(t))
<1>1. FirstN(n) \in Seq(Int) /\ Len(FirstN(n)) = n
  BY DEF FirstN
<1> HIDE DEF FirstN
<1>2. FirstN(n) \o t \in Seq(Int) /\ Len(FirstN(n) \o t) = n + Len(t)
  <2> DEFINE s == FirstN(n)
  <2>1. s \in Seq(Int) /\ Len(s) = n
    BY <1>1
  <2> HIDE DEF s
  <2>2. s \o t \in Seq(Int)
    BY <2>1
  <2>3. Len(s \o t) = n + Len(t)
    BY <2>1
  <2> QED BY <2>2, <2>3 DEF s
<1>3. FirstN(n + Len(t)) \in Seq(Int) /\ Len(FirstN(n + Len(t))) = n + Len(t)
  BY DEF FirstN
<1>4. ASSUME NEW k \in 1..(n + Len(t))
      PROVE  (FirstN(n) \o t)[k] = FirstN(n + Len(t))[k]
  <2>1. CASE k <= n
    BY <2>1, <1>1 DEF FirstN
  <2>2. CASE k > n
    <3>1. (FirstN(n) \o t)[k] = t[k - n]
      BY <2>2, <1>1
    <3>2. k - n \in 1..Len(t)
      BY <2>2
    <3>3. t[k - n] = k
      BY <3>2
    <3>4. FirstN(n + Len(t))[k] = k
      BY DEF FirstN
    <3> HIDE DEF FirstN
    <3> QED BY <3>1, <3>3, <3>4
  <2>3. k <= n \/ k > n
    OBVIOUS
  <2> QED BY <2>1, <2>2, <2>3
<1> HIDE DEF FirstN
<1> QED BY <1>2, <1>3, <1>4, SeqEqual

LEMMA CountsIsFirstN == ASSUME NEW s, Counts(s) PROVE s = FirstN(Len(s))
PROOF BY DEF Counts, FirstN

(* The cells of a ring hold the numbers from n + 1 on.                     *)
Numbered(buf, from, count, size, n) ==
  \A k \in 0..(size - 1) :
    k < count => buf[Wrap(from, k, size)] = n + k + 1

(* The bytes of such a ring follow the first n numbers.                    *)
LEMMA RingCounts ==
  ASSUME NEW size \in Nat \ {0}, NEW from \in 0..(size - 1),
         NEW count \in 0..size, NEW n \in Nat, NEW buf,
         Numbered(buf, from, count, size, n)
  PROVE  FirstN(n) \o Ring(buf, from, count, size) = FirstN(n + count)
<1>1. ASSUME NEW a \in Nat, a < 2 * size
      PROVE  a % size = IF a >= size THEN a - size ELSE a
  BY <1>1
<1>2. ASSUME NEW k \in 1..count
      PROVE  buf[(from + k - 1) % size] = n + k
  <2>1. (from + k - 1) % size = Wrap(from, k - 1, size)
    BY <1>1 DEF Wrap
  <2>2. k - 1 \in 0..(size - 1) /\ k - 1 < count
    OBVIOUS
  <2> QED BY <2>1, <2>2 DEF Numbered
<1> DEFINE ring == Ring(buf, from, count, size)
<1>3. ring = [k \in 1..count |-> n + k]
  BY <1>2 DEF Ring
<1>4. ring \in Seq(Int) /\ Len(ring) = count /\ \A k \in 1..count : ring[k] = n + k
  BY <1>3
<1> HIDE DEF ring
<1>5. FirstN(n) \o ring = FirstN(n + count)
  BY <1>4, CountOn
<1> QED BY <1>5 DEF ring

(* So does a register that holds the number n + 1, or nothing.             *)
LEMMA OneCounts ==
  ASSUME NEW n \in Nat, NEW r, r # Empty => r = n + 1
  PROVE  FirstN(n) \o One(r) = FirstN(n + Held(r))
<1>1. One(r) \in Seq(Int) /\ Len(One(r)) = Held(r)
  BY DEF One, Held
<1>2. \A k \in 1..Len(One(r)) : One(r)[k] = n + k
  BY DEF One, Held
<1> QED BY <1>1, <1>2, CountOn

(* The order of the bytes to be sent, put together from its places.        *)
LEMMA OrderIsExact == IInv => TransmitExact
<1> SUFFICES ASSUME IInv PROVE TransmitExact
  OBVIOUS
<1> DEFINE n == Len(sent)
           h == Held(shift)
           i == Held(tdr)
<1>1. n \in Nat /\ h \in Nat /\ i \in Nat
  BY DEF IInv, Types, Held
<1>2. sent = FirstN(n)
  BY CountsIsFirstN DEF IInv, TxInv, TxOrder
<1>3. FirstN(n) \o One(shift) = FirstN(n + h)
  <2>1. shift # Empty => shift = n + 1
    BY DEF IInv, TxInv, TxOrder
  <2> QED BY <2>1, <1>1, OneCounts
<1>4. FirstN(n + h) \o One(tdr) = FirstN(n + h + i)
  <2>1. tdr # Empty => tdr = (n + h) + 1
    BY DEF IInv, TxInv, TxOrder
  <2>2. n + h \in Nat
    BY <1>1
  <2> HIDE DEF n, h
  <2> QED BY <2>1, <2>2, OneCounts
<1>5. FirstN(n + h + i) \o Ring(pTxBuf, usTxRead, usTxCount, usTxBufSize)
        = FirstN(queued)
  <2>1. n + h + i \in Nat /\ queued = (n + h + i) + usTxCount
    <3>1. queued = n + h + i + usTxCount /\ usTxCount \in Nat
      BY DEF IInv, Types, TypeOK, TxInv, TxOrder
    <3> HIDE DEF n, h, i
    <3> QED BY <1>1, <3>1
  <2> DEFINE m == n + h + i
  <2>2. Numbered(pTxBuf, usTxRead, usTxCount, usTxBufSize, m)
    <3>1. \A k \in 0..(usTxBufSize - 1) : k < usTxCount =>
            pTxBuf[Wrap(usTxRead, k, usTxBufSize)] = queued - usTxCount + k + 1
      BY DEF IInv, TxInv, TxOrder
    <3>2. usTxCount \in Nat
      BY DEF IInv, Types, TypeOK
    <3> HIDE DEF n, h, i
    <3>3. queued - usTxCount = m
      BY <2>1, <3>2
    <3> HIDE DEF m
    <3> QED BY <3>1, <3>3 DEF Numbered
  <2>3. usTxRead \in 0..(usTxBufSize - 1) /\ usTxCount \in 0..usTxBufSize
    BY DEF IInv, Types, TypeOK
  <2>4. usTxBufSize \in Nat \ {0} /\ m \in Nat /\ queued = m + usTxCount
    BY <2>1, RingShape
  <2> HIDE DEF m
  <2>5. FirstN(m) \o Ring(pTxBuf, usTxRead, usTxCount, usTxBufSize)
          = FirstN(m + usTxCount)
    BY <2>2, <2>3, <2>4, RingCounts
  <2> QED BY <2>4, <2>5 DEF m
<1> QED BY <1>2, <1>3, <1>4, <1>5 DEF TransmitExact

LEMMA OrderIsReceived == IInv => ReceiveExact
<1> SUFFICES ASSUME IInv, ~overflow PROVE ReceiveExact
  BY DEF ReceiveExact
<1> DEFINE n == Len(got)
<1>1. n \in Nat /\ usRxCount \in Nat /\ RxOrder
  BY DEF IInv, Types, TypeOK, RxInv
<1>2. got = FirstN(n)
  BY <1>1, CountsIsFirstN DEF RxOrder
<1>3. FirstN(n) \o Ring(pRxBuf, usRxRead, usRxCount, usRxBufSize)
        = FirstN(n + usRxCount)
  <2>1. Numbered(pRxBuf, usRxRead, usRxCount, usRxBufSize, n)
    BY <1>1 DEF RxOrder, Numbered
  <2>2. /\ usRxRead \in 0..(usRxBufSize - 1) /\ usRxCount \in 0..usRxBufSize
        /\ usRxBufSize \in Nat \ {0}
    BY RingShape DEF IInv, Types, TypeOK
  <2> HIDE DEF n
  <2> QED BY <1>1, <2>1, <2>2, RingCounts
<1>4. FirstN(n + usRxCount) \o One(rdr) = FirstN(arrived)
  <2>1. /\ rdr # Empty => rdr = (n + usRxCount) + 1
        /\ arrived = (n + usRxCount) + Held(rdr)
        /\ n + usRxCount \in Nat
    BY <1>1 DEF RxOrder, Held
  <2> HIDE DEF n
  <2> QED BY <2>1, OneCounts
<1> QED BY <1>2, <1>3, <1>4 DEF ReceiveExact

-----------------------------------------------------------------------------
(* The rings and the registers of a port stay what they are, and the       *)
(* indices stay inside the rings.                                          *)
THEOREM TypeCorrect == Spec => []TypeOK
<1>1. IInv => TypeOK
  BY DEF IInv, Types
<1> QED BY <1>1, Invariance, PTL

(* UartSend and UartIRQ share the transmit ring, and every byte goes to    *)
(* the line once, in order, wherever the interrupt comes.                  *)
THEOREM TransmitCorrect == Spec => []TransmitExact
<1>1. IInv => TransmitExact
  BY OrderIsExact
<1> QED BY <1>1, Invariance, PTL

(* UartIRQ and UartGetChar share the receive ring: what arrives is handed  *)
(* over once, in order, as long as the ring does not overflow.             *)
THEOREM ReceiveCorrect == Spec => []ReceiveExact
<1>1. IInv => ReceiveExact
  BY OrderIsReceived
<1> QED BY <1>1, Invariance, PTL
=============================================================================

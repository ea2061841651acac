---------------------------- MODULE YmodemProofs ----------------------------
(***************************************************************************)
(* For files, packets and sequence numbers of any size, and any number of  *)
(* losses and keys pressed: Ymodem_Receive acts on each packet once, and   *)
(* writes its head at the packet's place in the file and nothing else; it  *)
(* reports success only when it has received all packets, and              *)
(* Ymodem_Transmit comes to the end of the file only then.                 *)
(*                                                                         *)
(* The argument: at most one acknowledgement is under way that the sender  *)
(* will take for its packet, and then the receiver has that packet and     *)
(* nothing else is on the line.  Without one, only repetitions of the      *)
(* packet and, in front of it, of the one before are on the line, and the  *)
(* sequence number tells the two apart.  This holds for a sender that has  *)
(* stopped, too, until the receiver has read what is left on the line.     *)
(***************************************************************************)
EXTENDS Ymodem, SequenceTheorems, TLAPS

(* In the queue q nothing of B comes behind anything of A.                 *)
NeverAfter(q, A, B) == \A i, j \in 1 .. Len(q) : i < j /\ q[i] \in A => q[j] \notin B

Typed   == [kind : {"CA", "a"}]
Cancels == [kind : {"CA"}]
Ended   == [kind : {"EOT"}] \cup [kind : {"empty"}, seq : {0}]

(* The packets of the stages in which the data is sent, and those of the   *)
(* step before.                                                            *)
Header    == [kind |-> "header", seq |-> 0, size |-> file]
Block     == [kind |-> "data", seq |-> blkNumber % SEQMOD, off |-> file - size, len |-> pktSize]
Earlier   == {p \in Packets : p.kind \in {"header", "data"} /\ p.seq = (blkNumber - 1) % SEQMOD}
LastBlock == {p \in Packets : p.kind = "data" /\ p.seq = blkNumber % SEQMOD}

NotAck == {"NAK", "C", "CA", "text"}
NoAck  == replies \in Seq(NotAck)
OneAck == NeverAfter(replies, {"ACK"}, {"ACK"})

(* The header has not been received yet; it has been.                      *)
HeaderOut ==
  /\ running /\ file \in Files /\ blkNumber = 1 /\ size = file
  /\ packets_received = 0 /\ rSize = 0 /\ FlashDestination = 0
  /\ line \in Seq(Typed \cup {Header}) /\ NoAck
HeaderIn ==
  /\ running /\ file \in Files /\ blkNumber = 1 /\ size = file
  /\ packets_received = 1 /\ rSize = file /\ FlashDestination = 0
  /\ line \in Seq(Typed \cup {Header}) /\ OneAck

(* The same of the block that is being sent.                               *)
BlockOut ==
  /\ running /\ file \in Files /\ blkNumber > 0 /\ size > 0 /\ rSize = file
  /\ packets_received = blkNumber /\ FlashDestination = file - size
  /\ line \in Seq(Typed \cup Earlier \cup {Block}) /\ NeverAfter(line, {Block}, Earlier)
  /\ NoAck
BlockIn ==
  /\ running /\ file \in Files /\ blkNumber > 0 /\ size > 0 /\ rSize = file
  /\ packets_received = blkNumber + 1 /\ FlashDestination = file - size + pktSize
  /\ line \in Seq(Typed \cup {Block})
  /\ OneAck
  /\ size <= pktSize => gotAll

(* All blocks have been received, EOT has not.                             *)
EotOut ==
  /\ running /\ file \in Files /\ blkNumber > 0 /\ rSize = file
  /\ packets_received = blkNumber + 1 /\ FlashDestination >= file /\ gotAll
  /\ line \in Seq(Typed \cup LastBlock \cup Ended) /\ NeverAfter(line, Ended, LastBlock)
  /\ NoAck

(* Nothing under way is data.                                              *)
Closing ==
  /\ line \in Seq(Typed \cup Ended)
  /\ running => packets_received = 0 /\ (rSize = 0 \/ (rSize = file /\ FlashDestination >= file))
  /\ ~running /\ result > 0 => rSize = file /\ file > 0 /\ FlashDestination >= file
  /\ stage # "idle" => gotAll

(* How far a transfer is, also when the sender has stopped in its middle.  *)
Phase ==
  \/ stage \in {"idle", "header"} /\ (HeaderOut \/ HeaderIn)
  \/ stage \in {"idle", "block"} /\ (BlockOut \/ BlockIn)
  \/ stage \in {"idle", "eot"} /\ EotOut
  \/ stage \in {"idle", "eot", "close", "final"} /\ Closing

(* The packets received lie one after the other, up to FlashDestination.   *)
Placed ==
  /\ \A i \in 1 .. Len(image) :
       /\ image[i].dest = image[i].off
       /\ i > 1 => image[i].off = image[i - 1].off + image[i - 1].packet
  /\ FlashDestination = IF Len(image) = 0 THEN 0 ELSE image[Len(image)].off + image[Len(image)].packet

(* A cancelled transfer has ended at the sender, and nothing follows.      *)
Cancelled ==
  /\ NeverAfter(line, Cancels, Packets \ Typed)
  /\ stage # "idle" => line \in Seq(Packets \ Cancels)

(* A session that has not begun.                                           *)
FreshSession ==
  running /\ session_begin = Fresh =>
    packets_received = 0 /\ rSize = 0 /\ FlashDestination = 0 /\ image = <<>>

Basic ==
  /\ TypeOK
  /\ stage # "idle" => file \in Files
  /\ stage = "idle" => replies = <<>>
  /\ FreshSession
  /\ Cancelled

IInv == Basic /\ (~interrupted => Phase /\ Placed)

-----------------------------------------------------------------------------
(* Queues                                                                  *)

LEMMA Retype ==
  ASSUME NEW S, NEW T, NEW q \in Seq(S), \A i \in 1 .. Len(q) : q[i] \in T
  PROVE  q \in Seq(T)
BY LenProperties, SeqDef

LEMMA QueueFacts ==
  ASSUME NEW S, NEW q \in Seq(S)
  PROVE  /\ Len(q) \in Nat
         /\ \A i \in 1 .. Len(q) : q[i] \in S
         /\ \A T : S \subseteq T => q \in Seq(T)
<1>1. Len(q) \in Nat /\ \A i \in 1 .. Len(q) : q[i] \in S
  BY LenProperties, ElementOfSeq
<1>2. ASSUME NEW T, S \subseteq T PROVE q \in Seq(T)
  BY <1>1, <1>2, Retype
<1> QED BY <1>1, <1>2

LEMMA PopFacts ==
  ASSUME NEW S, NEW q \in Seq(S), q # <<>>
  PROVE  /\ Head(q) \in S /\ Tail(q) \in Seq(S)
         /\ Len(q) \in Nat /\ Len(Tail(q)) = Len(q) - 1
         /\ 1 \in 1 .. Len(q) /\ Head(q) = q[1]
         /\ \A i \in 1 .. Len(Tail(q)) : i + 1 \in 1 .. Len(q) /\ Tail(q)[i] = q[i + 1]
BY LenProperties, HeadTailProperties, EmptySeq

LEMMA PushFacts ==
  ASSUME NEW S, NEW q \in Seq(S), NEW p \in S
  PROVE  /\ Append(q, p) \in Seq(S)
         /\ Len(q) \in Nat /\ Len(Append(q, p)) = Len(q) + 1
         /\ Append(q, p)[Len(q) + 1] = p
         /\ \A i \in 1 .. Len(q) : Append(q, p)[i] = q[i]
BY LenProperties, AppendProperties

(* What follows the first of A is not of B.                                *)
LEMMA OrderPop ==
  ASSUME NEW S, NEW q \in Seq(S), q # <<>>, NEW A, NEW B, NeverAfter(q, A, B)
  PROVE  /\ NeverAfter(Tail(q), A, B)
         /\ Head(q) \in A => Tail(q) \in Seq(S \ B)
<1>1. /\ Head(q) \in S /\ Tail(q) \in Seq(S)
      /\ Len(q) \in Nat /\ Len(Tail(q)) = Len(q) - 1
      /\ 1 \in 1 .. Len(q) /\ Head(q) = q[1]
      /\ \A i \in 1 .. Len(Tail(q)) : i + 1 \in 1 .. Len(q) /\ Tail(q)[i] = q[i + 1]
  BY PopFacts
<1>2. NeverAfter(Tail(q), A, B)
  BY <1>1 DEF NeverAfter
<1>3. ASSUME Head(q) \in A PROVE Tail(q) \in Seq(S \ B)
  <2>1. \A i \in 1 .. Len(Tail(q)) : Tail(q)[i] \in S \ B
    <3> SUFFICES ASSUME NEW i \in 1 .. Len(Tail(q)) PROVE Tail(q)[i] \in S \ B
      OBVIOUS
    <3>1. Tail(q)[i] \in S
      BY <1>1, ElementOfSeq
    <3>2. 1 < i + 1 /\ i + 1 \in 1 .. Len(q) /\ Tail(q)[i] = q[i + 1]
      BY <1>1
    <3> QED BY <1>1, <1>3, <3>1, <3>2 DEF NeverAfter
  <2> QED BY <1>1, <2>1, Retype
<1> QED BY <1>2, <1>3

LEMMA OrderPush ==
  ASSUME NEW S, NEW q \in Seq(S), NEW p \in S, NEW A, NEW B,
         NeverAfter(q, A, B), p \notin B \/ q \in Seq(S \ A)
  PROVE  NeverAfter(Append(q, p), A, B)
<1> DEFINE g == Append(q, p)
<1>1. /\ Len(q) \in Nat /\ Len(g) = Len(q) + 1 /\ g[Len(q) + 1] = p
      /\ \A i \in 1 .. Len(q) : g[i] = q[i]
  BY PushFacts
<1>2. q \in Seq(S \ A) => \A i \in 1 .. Len(q) : q[i] \notin A
  BY ElementOfSeq
<1> HIDE DEF g
<1> SUFFICES ASSUME NEW i \in 1 .. Len(g), NEW j \in 1 .. Len(g), i < j, g[i] \in A
             PROVE  g[j] \notin B
  BY DEF NeverAfter, g
<1>3. i \in 1 .. Len(q) /\ g[i] = q[i]
  BY <1>1
<1>4. CASE j = Len(g)
  BY <1>1, <1>2, <1>3, <1>4
<1>5. CASE j # Len(g)
  <2>1. j \in 1 .. Len(q) /\ g[j] = q[j]
    BY <1>1, <1>5
  <2> QED BY <1>3, <2>1 DEF NeverAfter
<1> QED BY <1>4, <1>5

(* A queue without A, and the empty queue.                                 *)
LEMMA OrderWithout ==
  ASSUME NEW S, NEW q \in Seq(S), NEW A, NEW B, S \cap A = {}
  PROVE  NeverAfter(q, A, B)
BY QueueFacts DEF NeverAfter

LEMMA EmptyQueue ==
  /\ \A S : <<>> \in Seq(S)
  /\ \A A, B : NeverAfter(<<>>, A, B)
BY EmptySeq DEF NeverAfter

-----------------------------------------------------------------------------
(* Sequence numbers                                                        *)

LEMMA ModIs ==
  ASSUME NEW M \in Nat \ {0, 1}, NEW b \in Nat
  PROVE  b % M \in 0 .. M - 1 /\ b = M * (b \div M) + (b % M) /\ (b \div M) \in Int
OBVIOUS

LEMMA NotOne ==
  ASSUME NEW M \in Nat \ {0, 1}, NEW d \in Int
  PROVE  M * d # 1
<1>1. CASE d <= 0
  BY <1>1
<1>2. CASE d >= 1
  BY <1>2
<1> QED BY <1>1, <1>2

(* A packet is told from the next one, however often the number wrapped.   *)
LEMMA SeqnoTells ==
  ASSUME NEW b \in Nat
  PROVE  b % SEQMOD # (b + 1) % SEQMOD /\ b % SEQMOD \in Seqno
<1> DEFINE q == b \div SEQMOD
           p == (b + 1) \div SEQMOD
<1>0. SEQMOD \in Nat \ {0, 1}
  BY DownloadAssumption
<1>1. b = SEQMOD * q + (b % SEQMOD) /\ q \in Int /\ b % SEQMOD \in 0 .. SEQMOD - 1
  BY <1>0, ModIs
<1>2. b + 1 = SEQMOD * p + ((b + 1) % SEQMOD) /\ p \in Int /\ (b + 1) % SEQMOD \in 0 .. SEQMOD - 1
  BY <1>0, ModIs
<1> HIDE DEF p, q
<1>3. ASSUME b % SEQMOD = (b + 1) % SEQMOD PROVE FALSE
  <2>1. SEQMOD * p - SEQMOD * q = 1
    BY <1>0, <1>1, <1>2, <1>3
  <2>2. SEQMOD * (p - q) = SEQMOD * p - SEQMOD * q
    BY <1>0, <1>1, <1>2
  <2>3. p - q \in Int
    BY <1>1, <1>2
  <2> QED BY <1>0, <2>1, <2>2, <2>3, NotOne
<1> QED BY <1>1, <1>3 DEF Seqno

LEMMA FirstSeqno == 0 % SEQMOD = 0
<1>1. SEQMOD \in Nat \ {0, 1}
  BY DownloadAssumption
<1> QED BY <1>1

-----------------------------------------------------------------------------
(* Types, and what holds of broken off transfers, too                      *)

Replies == {"ACK", "NAK", "C", "CA", "text"}

SenderTypes ==
  /\ stage \in {"idle", "header", "block", "eot", "close", "final"} /\ waiting \in BOOLEAN
  /\ file \in Files \cup {0} /\ size \in 0 .. file /\ blkNumber \in 0 .. LastBlk /\ tErrors \in 0 .. TRIES - 1

ReceiverTypes ==
  /\ running \in BOOLEAN /\ packets_received \in Nat /\ session_begin \in {Fresh, Running}
  /\ errors \in 0 .. MAX_ERRORS /\ rSize \in Files \cup {0, 1, FLASH_SIZE} /\ FlashDestination \in Nat
  /\ image \in Seq([dest : Nat, off : Nat, packet : {PACKET_SIZE, PACKET_1K_SIZE}, stored : {WRITE_SIZE}])
  /\ result \in Int /\ gotAll \in BOOLEAN /\ interrupted \in BOOLEAN

CountTypes == files \in 0 .. MaxFiles /\ lost \in 0 .. MaxLost /\ typed \in 0 .. MaxTyped

LEMMA TypesSplit ==
  TypeOK <=> /\ SenderTypes /\ ReceiverTypes /\ CountTypes
             /\ line \in Seq(Packets) /\ replies \in Seq(Replies)
BY DEF TypeOK, SenderTypes, ReceiverTypes, CountTypes, Replies

LEMMA Numbers ==
  ASSUME SenderTypes
  PROVE  /\ file \in Nat /\ size \in Nat /\ size <= file /\ blkNumber \in Nat /\ LastBlk \in Nat \ {0}
         /\ pktSize \in {PACKET_SIZE, PACKET_1K_SIZE} /\ pktSize \in Nat \ {0}
         /\ \A f \in Files : f \in Nat /\ f > 0 /\ f <= FLASH_SIZE - 1
<1>1. file \in Nat /\ \A f \in Files : f \in Nat /\ f > 0 /\ f <= FLASH_SIZE - 1
  BY DownloadAssumption DEF SenderTypes
<1>2. PACKET_SIZE \in Nat \ {0} /\ PACKET_1K_SIZE \in Nat \ {0}
  BY DownloadAssumption
<1> QED BY <1>1, <1>2, DownloadAssumption DEF SenderTypes, pktSize

(* The packet of each stage.                                               *)
LEMMA PacketIs ==
  ASSUME SenderTypes
  PROVE  /\ stage = "header" => Packet = Header
         /\ stage = "block" => Packet = Block
         /\ stage = "eot" => Packet \in Ended
         /\ stage = "close" => Packet \in Ended
         /\ stage = "final" => Packet \in Ended
         /\ Block \in Packets \ (Typed \cup Ended)
         /\ file \in Files => Header \in Packets \ (Typed \cup Ended)
         /\ Ended \subseteq Packets \ Typed /\ Typed \subseteq Packets
<1>1. /\ stage = "header" => Packet = Header
      /\ stage = "block" => Packet = Block
  BY DEF Packet, Header, Block
<1>2. stage \in {"eot", "close", "final"} => Packet \in Ended
  BY DEF Packet, Ended
<1>3. Block \in Packets \ (Typed \cup Ended)
  <2>1. /\ blkNumber % SEQMOD \in Seqno /\ file - size \in Nat
        /\ pktSize \in {PACKET_SIZE, PACKET_1K_SIZE}
    BY Numbers, SeqnoTells
  <2> QED BY <2>1 DEF Block, Packets, Typed, Ended
<1>4. file \in Files => Header \in Packets \ (Typed \cup Ended)
  BY DEF Header, Packets, Typed, Ended
<1>5. Ended \subseteq Packets \ Typed /\ Typed \subseteq Packets
  BY DEF Ended, Packets, Typed
<1> QED BY <1>1, <1>2, <1>3, <1>4, <1>5

LEMMA ReplyTyped ==
  ASSUME replies \in Seq(Replies), NEW s \in Seq(Replies), Reply(s)
  PROVE  replies' \in Seq(Replies) /\ (stage = "idle" => replies' = replies)
BY ConcatProperties DEF Reply

(* The replies as they are given.                                          *)
LEMMA ReplyOne ==
  ASSUME replies \in Seq(Replies), NEW a \in Replies, Reply(<<a>>)
  PROVE  replies' = replies \/ replies' = Append(replies, a)
<1>1. replies \o <<a>> = Append(replies, a)
  OBVIOUS
<1> QED BY <1>1 DEF Reply

LEMMA ReplyTwo ==
  ASSUME replies \in Seq(Replies), NEW a \in Replies, NEW b \in Replies, Reply(<<a, b>>)
  PROVE  replies' = replies \/ replies' = Append(Append(replies, a), b)
<1>1. replies \o <<a, b>> = Append(Append(replies, a), b)
  OBVIOUS
<1> QED BY <1>1 DEF Reply

LEMMA ShortReplies ==
  \A a, b \in Replies : <<a>> \in Seq(Replies) /\ <<a, b>> \in Seq(Replies)
OBVIOUS

LEMMA PacketKinds ==
  \A p \in Packets :
    /\ p.kind \in {"CA", "a"} <=> p \in Typed
    /\ p.kind = "CA" <=> p \in Cancels
    /\ p.kind \in {"EOT", "empty"} <=> p \in Ended
    /\ p.kind \in {"header", "data", "empty", "EOT", "CA", "a"}
    /\ p.kind = "data" => p.off \in Nat /\ p.len \in {PACKET_SIZE, PACKET_1K_SIZE}
    /\ p.kind = "header" => p.size \in Files
<1> SUFFICES ASSUME NEW p \in Packets
             PROVE  /\ p.kind \in {"CA", "a"} <=> p \in Typed
                    /\ p.kind = "CA" <=> p \in Cancels
                    /\ p.kind \in {"EOT", "empty"} <=> p \in Ended
                    /\ p.kind \in {"header", "data", "empty", "EOT", "CA", "a"}
                    /\ p.kind = "data" => p.off \in Nat /\ p.len \in {PACKET_SIZE, PACKET_1K_SIZE}
                    /\ p.kind = "header" => p.size \in Files
  OBVIOUS
<1>1. CASE p \in [kind : {"header"}, seq : {0}, size : Files]
  BY <1>1 DEF Typed, Cancels, Ended
<1>2. CASE p \in [kind : {"data"}, seq : Seqno, off : Nat, len : {PACKET_SIZE, PACKET_1K_SIZE}]
  BY <1>2 DEF Typed, Cancels, Ended
<1>3. CASE p \in [kind : {"empty"}, seq : {0}]
  BY <1>3 DEF Typed, Cancels, Ended
<1>4. CASE p \in [kind : {"EOT", "CA", "a"}]
  BY <1>4 DEF Typed, Cancels, Ended
<1> QED BY <1>1, <1>2, <1>3, <1>4 DEF Packets

(* The queue to the receiver when a packet is read or lost.                *)
LEMMA LinePop ==
  ASSUME line \in Seq(Packets), Cancelled, line # <<>>, line' = Tail(line),
         stage' = stage \/ stage' = "idle"
  PROVE  /\ line' \in Seq(Packets) /\ Cancelled' /\ Head(line) \in Packets
         /\ Head(line).kind = "CA" => line' \in Seq(Typed) /\ stage = "idle"
<1>1. /\ Head(line) \in Packets /\ Tail(line) \in Seq(Packets)
      /\ NeverAfter(Tail(line), Cancels, Packets \ Typed)
      /\ Head(line) \in Cancels => Tail(line) \in Seq(Packets \ (Packets \ Typed))
  BY PopFacts, OrderPop DEF Cancelled
<1>2. stage # "idle" => Tail(line) \in Seq(Packets \ Cancels) /\ Head(line) \in Packets \ Cancels
  BY PopFacts DEF Cancelled
<1>3. Packets \ (Packets \ Typed) \subseteq Typed
  OBVIOUS
<1>4. Head(line) \in Cancels => Tail(line) \in Seq(Typed)
  BY <1>1, <1>3, QueueFacts
<1>5. Head(line).kind = "CA" <=> Head(line) \in Cancels
  BY <1>1, PacketKinds
<1> QED BY <1>1, <1>2, <1>4, <1>5 DEF Cancelled

(* ... when the sender sends one.                                          *)
LEMMA LinePush ==
  ASSUME line \in Seq(Packets), Cancelled, stage # "idle", stage' = stage,
         NEW p \in Packets \ Typed, line' = Append(line, p)
  PROVE  line' \in Seq(Packets) /\ Cancelled'
<1>1. line \in Seq(Packets \ Cancels) /\ p \in Packets \ Cancels
  BY DEF Cancelled, Cancels, Typed
<1>2. line' \in Seq(Packets) /\ line' \in Seq(Packets \ Cancels)
  BY <1>1, PushFacts
<1>3. NeverAfter(line', Cancels, Packets \ Typed)
  BY <1>1, OrderPush DEF Cancelled
<1> QED BY <1>2, <1>3 DEF Cancelled

(* ... when the operator presses a key.                                    *)
LEMMA LineKey ==
  ASSUME line \in Seq(Packets), Cancelled, NEW k \in {"CA", "a"},
         line' = Append(line, [kind |-> k]),
         IF k = "CA" THEN stage' = "idle" ELSE stage' = stage
  PROVE  line' \in Seq(Packets) /\ Cancelled'
<1> DEFINE p == [kind |-> k]
<1>1. p \in Packets /\ p \notin Packets \ Typed /\ (k = "a" => p \in Packets \ Cancels)
  BY DEF Packets, Typed, Cancels
<1> HIDE DEF p
<1>2. line' \in Seq(Packets)
  BY <1>1, PushFacts DEF p
<1>3. NeverAfter(line', Cancels, Packets \ Typed)
  BY <1>1, OrderPush DEF Cancelled, p
<1>4. stage' # "idle" => line' \in Seq(Packets \ Cancels)
  <2> SUFFICES ASSUME stage' # "idle" PROVE line' \in Seq(Packets \ Cancels)
    OBVIOUS
  <2>1. k = "a" /\ line \in Seq(Packets \ Cancels)
    BY DEF Cancelled
  <2> QED BY <1>1, <2>1, PushFacts DEF p
<1> QED BY <1>2, <1>3, <1>4 DEF Cancelled

(* Ymodem_Transmit returns, or tries again.                                *)
LEMMA TryTyped ==
  ASSUME SenderTypes, replies \in Seq(Replies), TryAgain
  PROVE  /\ tErrors' \in 0 .. TRIES - 1 /\ UNCHANGED <<file, size, blkNumber>>
         /\ \/ stage' = stage
            \/ stage' = "idle" /\ replies' = <<>>
<1>1. TRIES \in Nat /\ tErrors \in 0 .. TRIES - 1
  BY DownloadAssumption DEF SenderTypes
<1>2. CASE TriedEnough
  BY <1>1, <1>2 DEF TryAgain, Stop
<1>3. CASE ~TriedEnough
  BY <1>1, <1>3 DEF TryAgain, TriedEnough, ErrorCounted
<1> QED BY <1>2, <1>3

(* What a step of Ymodem_Transmit does with an answer.                     *)
Advanced ==
  \/ /\ stage = "header" /\ stage' = "block" /\ UNCHANGED <<size, blkNumber>>
  \/ /\ stage = "close" /\ stage' = "final" /\ UNCHANGED <<size, blkNumber>>
  \/ /\ stage = "block" /\ stage' = "block" /\ size > pktSize /\ blkNumber # LastBlk
     /\ size' = size - pktSize /\ blkNumber' = blkNumber + 1
  \/ /\ stage = "block" /\ stage' = "eot" /\ size <= pktSize
     /\ size' = 0 /\ UNCHANGED blkNumber
  \/ /\ stage = "eot" /\ stage' = "close" /\ UNCHANGED <<size, blkNumber>>

LEMMA GetReplyIs ==
  ASSUME SenderTypes, replies \in Seq(Replies), GetReply
  PROVE  /\ replies # <<>> /\ stage # "idle" /\ waiting' = FALSE /\ file' = file
         /\ UNCHANGED <<line, running, session, result, gotAll, interrupted, counts>>
         /\ tErrors' \in 0 .. TRIES - 1
         /\ \/ /\ Advanced /\ Head(replies) = "ACK" /\ replies' = Tail(replies)
            \/ /\ UNCHANGED <<stage, size, blkNumber>> /\ replies' = Tail(replies)
               /\ Head(replies) # "ACK"
            \/ /\ stage' = "idle" /\ replies' = <<>> /\ UNCHANGED <<size, blkNumber>>
<1>1. /\ replies # <<>> /\ waiting' = FALSE
      /\ UNCHANGED <<line, running, session, result, gotAll, interrupted, counts>>
      /\ PacketAnswered \/ BlockAnswered \/ EotAnswered \/ FinalAnswered
  BY DEF GetReply
<1>2. tErrors \in 0 .. TRIES - 1 /\ 0 \in 0 .. TRIES - 1
  BY DownloadAssumption DEF SenderTypes
<1>3. CASE PacketAnswered
  <2>1. CASE Acknowledged(Head(replies)) /\ stage = "close"
    BY <1>1, <1>2, <1>3, <2>1 DEF PacketAnswered, Advanced, Acknowledged
  <2>2. CASE Acknowledged(Head(replies)) /\ stage = "header"
    BY <1>1, <1>2, <1>3, <2>2 DEF PacketAnswered, Advanced, Acknowledged, Begin
  <2>3. CASE ~Acknowledged(Head(replies))
    BY <1>1, <1>2, <1>3, <2>3 DEF PacketAnswered, Acknowledged
  <2> QED BY <1>3, <2>1, <2>2, <2>3 DEF PacketAnswered
<1>4. CASE BlockAnswered
  <2>0. stage = "block"
    BY <1>4 DEF BlockAnswered
  <2>1. CASE Acknowledged(Head(replies)) /\ size > pktSize /\ blkNumber # LastBlk
    BY <1>1, <1>2, <1>4, <2>0, <2>1, Numbers DEF BlockAnswered, Advanced, Acknowledged, Begin
  <2>2. CASE Acknowledged(Head(replies)) /\ size > pktSize /\ blkNumber = LastBlk
    BY <1>1, <1>2, <1>4, <2>0, <2>2, Numbers DEF BlockAnswered, Acknowledged, Stop
  <2>3. CASE Acknowledged(Head(replies)) /\ size <= pktSize
    BY <1>1, <1>2, <1>4, <2>0, <2>3, Numbers DEF BlockAnswered, Advanced, Acknowledged, Begin
  <2>4. CASE ~Acknowledged(Head(replies))
    BY <1>1, <1>4, <2>0, <2>4, TryTyped DEF BlockAnswered, Acknowledged
  <2>5. size > pktSize \/ size <= pktSize
    BY Numbers
  <2> QED BY <2>1, <2>2, <2>3, <2>4, <2>5
<1>5. CASE EotAnswered
  <2>0. stage = "eot"
    BY <1>5 DEF EotAnswered
  <2>1. CASE Acknowledged(Head(replies))
    BY <1>1, <1>2, <1>5, <2>0, <2>1 DEF EotAnswered, Advanced, Acknowledged, Begin
  <2>2. CASE ~Acknowledged(Head(replies))
    BY <1>1, <1>5, <2>0, <2>2, TryTyped DEF EotAnswered, Acknowledged
  <2> QED BY <2>1, <2>2
<1>6. CASE FinalAnswered
  BY <1>1, <1>2, <1>6 DEF FinalAnswered, Stop
<1> QED BY <1>1, <1>3, <1>4, <1>5, <1>6

(* What a step of Ymodem_Receive with the packet p does.                   *)
LEMMA ReceivedTypes ==
  ASSUME ReceiverTypes, FreshSession, running, NEW p \in Packets,
         replies \in Seq(Replies), stage = "idle" => replies = <<>>,
         \/ ReceiveStop(p)
         \/ ReceiveEOT(p)
         \/ p.kind \in {"header", "data", "empty"} /\ (ReceiveHeader(p) \/ ReceiveBlock(p))
         \/ OutOfSequence(p)
  PROVE  /\ ReceiverTypes' /\ FreshSession'
         /\ replies' \in Seq(Replies)
         /\ stage = "idle" => replies' = <<>>
<1> DEFINE RepliesOk == replies' \in Seq(Replies) /\ (stage = "idle" => replies' = <<>>)
<1>0. /\ \A a \in Replies : Reply(<<a>>) => RepliesOk
      /\ \A a, b \in Replies : Reply(<<a, b>>) => RepliesOk
  BY ReplyTyped, ShortReplies
<1>1. {"ACK", "NAK", "C", "CA"} \subseteq Replies
  BY DEF Replies
<1> HIDE DEF RepliesOk
<1>2. 0 \in 0 .. MAX_ERRORS
  BY DownloadAssumption
<1>4. CASE ReceiveStop(p)
  <2>1. CASE p.kind = "CA"
    <3>1. /\ Return(0) /\ Reply(<<"ACK">>) /\ errors' = 0 /\ UNCHANGED interrupted
          /\ UNCHANGED <<packets_received, session_begin, rSize, FlashDestination, image, gotAll>>
      BY <1>4, <2>1 DEF ReceiveStop
    <3>2. RepliesOk
      BY <1>0, <1>1, <3>1
    <3>3. running' = FALSE /\ result' = 0 /\ result' \in Int
      BY <3>1 DEF Return
    <3>4. ReceiverTypes'
      BY <1>2, <3>1, <3>3 DEF ReceiverTypes
    <3>5. FreshSession'
      BY <3>3 DEF FreshSession
    <3> QED BY <3>2, <3>4, <3>5 DEF RepliesOk
  <2>2. CASE p.kind # "CA"
    <3>1. BreakOff(-3) /\ UNCHANGED errors
          /\ UNCHANGED <<packets_received, session_begin, rSize, FlashDestination, image, gotAll>>
      BY <1>4, <2>2 DEF ReceiveStop
    <3>2. RepliesOk /\ running' = FALSE /\ result' = -3 /\ interrupted' = TRUE
      BY <1>0, <1>1, <3>1 DEF BreakOff, Return
    <3>3. result' \in Int
      BY <3>2
    <3>4. UNCHANGED <<errors, packets_received, session_begin, rSize, FlashDestination, image, gotAll>>
      BY <3>1
    <3>5. ReceiverTypes'
      BY <3>2, <3>3, <3>4 DEF ReceiverTypes
    <3>6. FreshSession'
      BY <3>2 DEF FreshSession
    <3>7. RepliesOk
      BY <3>2
    <3> QED BY <3>5, <3>6, <3>7 DEF RepliesOk
  <2> QED BY <2>1, <2>2
<1>5. CASE ReceiveEOT(p)
  BY <1>0, <1>1, <1>2, <1>5 DEF ReceiveEOT, ReceiverTypes, FreshSession, RepliesOk
<1>6. CASE OutOfSequence(p)
  BY <1>0, <1>1, <1>2, <1>6 DEF OutOfSequence, ReceiverTypes, FreshSession, RepliesOk
<1>7. CASE p.kind \in {"header", "data", "empty"} /\ ReceiveHeader(p)
  <2>1. errors' = 0 /\ UNCHANGED <<FlashDestination, image, gotAll>>
    BY <1>7 DEF ReceiveHeader
  <2>2. CASE \E s \in Sizes(p) :
               /\ rSize' = s
               /\ IF s > FLASH_SIZE - 1
                  THEN BreakOff(-1) /\ UNCHANGED <<packets_received, session_begin>>
                  ELSE Counted /\ Reply(<<"ACK", "C">>) /\ UNCHANGED <<running, result, interrupted>>
    <3>1. PICK s \in Sizes(p) :
               /\ rSize' = s
               /\ IF s > FLASH_SIZE - 1
                  THEN BreakOff(-1) /\ UNCHANGED <<packets_received, session_begin>>
                  ELSE Counted /\ Reply(<<"ACK", "C">>) /\ UNCHANGED <<running, result, interrupted>>
      BY <2>2
    <3>2. s \in Files \cup {0, 1, FLASH_SIZE}
      BY PacketKinds DEF Sizes
    <3>3. CASE s > FLASH_SIZE - 1
      <4>1. BreakOff(-1) /\ UNCHANGED <<packets_received, session_begin>> /\ rSize' = s
        BY <3>1, <3>3
      <4>2. RepliesOk /\ running' = FALSE /\ result' = -1 /\ interrupted' = TRUE
        BY <1>0, <1>1, <4>1 DEF BreakOff, Return
      <4>3. result' \in Int
        BY <4>2
      <4>4. /\ UNCHANGED <<packets_received, session_begin, FlashDestination, image, gotAll>>
            /\ errors' = 0 /\ rSize' = s
        BY <2>1, <4>1
      <4>5. ReceiverTypes'
        BY <1>2, <3>2, <4>2, <4>3, <4>4 DEF ReceiverTypes
      <4>6. FreshSession'
        BY <4>2 DEF FreshSession
      <4>7. RepliesOk
        BY <4>2
      <4> QED BY <4>5, <4>6, <4>7 DEF RepliesOk
    <3>4. CASE ~(s > FLASH_SIZE - 1)
      <4>1. Counted /\ RepliesOk /\ UNCHANGED <<running, result, interrupted>> /\ rSize' = s
        BY <1>0, <1>1, <3>1, <3>4
      <4> QED BY <1>2, <2>1, <3>2, <4>1 DEF Counted, ReceiverTypes, FreshSession, RepliesOk, Fresh, Running
    <3> QED BY <3>3, <3>4
  <2>3. CASE /\ p.kind # "header"
             /\ Return(rSize) /\ Reply(<<"ACK">>)
             /\ UNCHANGED <<packets_received, session_begin, rSize, interrupted>>
    <3>1. rSize \in Int
      BY DownloadAssumption DEF ReceiverTypes
    <3>2. RepliesOk /\ running' = FALSE /\ result' = rSize
      BY <1>0, <1>1, <2>3 DEF Return
    <3> QED BY <1>2, <2>1, <2>3, <3>1, <3>2 DEF ReceiverTypes, FreshSession, RepliesOk
  <2> QED BY <1>7, <2>2, <2>3 DEF ReceiveHeader
<1>8. CASE ReceiveBlock(p)
  <2>1. ~ExpectHeader /\ p.kind = "data" /\ errors' = 0 /\ rSize' = rSize
    BY <1>8 DEF ReceiveBlock
  <2>2. p.off \in Nat /\ p.len \in {PACKET_SIZE, PACKET_1K_SIZE} /\ p.len \in Nat
    BY <2>1, PacketKinds, DownloadAssumption
  <2>3. CASE /\ image' = Append(image, [dest |-> FlashDestination, off |-> p.off, packet |-> p.len, stored |-> WRITE_SIZE])
             /\ FlashDestination' = FlashDestination + p.len
             /\ gotAll' = (gotAll \/ AllReceived(image'))
             /\ Counted /\ Reply(<<"ACK">>) /\ UNCHANGED <<running, result, interrupted>>
    <3>1. image' \in Seq([dest : Nat, off : Nat, packet : {PACKET_SIZE, PACKET_1K_SIZE}, stored : {WRITE_SIZE}])
      <4> DEFINE e == [dest |-> FlashDestination, off |-> p.off, packet |-> p.len, stored |-> WRITE_SIZE]
      <4>1. e \in [dest : Nat, off : Nat, packet : {PACKET_SIZE, PACKET_1K_SIZE}, stored : {WRITE_SIZE}]
        BY <2>2 DEF ReceiverTypes
      <4> HIDE DEF e
      <4> QED BY <2>3, <4>1, PushFacts DEF ReceiverTypes, e
    <3>2. gotAll' \in BOOLEAN
      BY <2>3, Zenon
    <3>3. RepliesOk
      BY <1>0, <1>1, <2>3
    <3> QED BY <1>2, <2>1, <2>2, <2>3, <3>1, <3>2, <3>3
        DEF Counted, ReceiverTypes, FreshSession, RepliesOk, Fresh, Running
  <2>4. CASE /\ BreakOff(-2)
             /\ UNCHANGED <<packets_received, session_begin, FlashDestination, image, gotAll>>
    <3>1. RepliesOk /\ running' = FALSE /\ result' = -2 /\ interrupted' = TRUE
      BY <1>0, <1>1, <2>4 DEF BreakOff, Return
    <3>2. result' \in Int
      BY <3>1
    <3>3. /\ UNCHANGED <<packets_received, session_begin, rSize, FlashDestination, image, gotAll>>
          /\ errors' = 0
      BY <2>1, <2>4
    <3>4. ReceiverTypes'
      BY <1>2, <3>1, <3>2, <3>3 DEF ReceiverTypes
    <3>5. FreshSession'
      BY <3>1 DEF FreshSession
    <3>6. RepliesOk
      BY <3>1
    <3> QED BY <3>4, <3>5, <3>6 DEF RepliesOk
  <2> QED BY <1>8, <2>3, <2>4 DEF ReceiveBlock
<1> QED BY <1>4, <1>5, <1>6, <1>7, <1>8

(* Every step keeps the types and the facts that do not depend on the      *)
(* course of the transfer.                                                 *)
LEMMA BasicParts ==
  Basic <=> /\ SenderTypes /\ ReceiverTypes /\ CountTypes
            /\ line \in Seq(Packets) /\ replies \in Seq(Replies)
            /\ stage # "idle" => file \in Files
            /\ stage = "idle" => replies = <<>>
            /\ FreshSession /\ Cancelled
BY TypesSplit DEF Basic

LEMMA BasicNext ==
  ASSUME SenderTypes', ReceiverTypes', CountTypes', line' \in Seq(Packets), replies' \in Seq(Replies),
         stage' # "idle" => file' \in Files, stage' = "idle" => replies' = <<>>,
         FreshSession', Cancelled'
  PROVE  Basic'
<1>1. TypeOK'
  BY DEF TypeOK, SenderTypes, ReceiverTypes, CountTypes, Replies
<1> QED BY <1>1 DEF Basic

LEMMA ReceiveBasic ==
  ASSUME Basic, Receive_Packet
  PROVE  Basic'
<1>0. /\ SenderTypes /\ ReceiverTypes /\ CountTypes
      /\ line \in Seq(Packets) /\ replies \in Seq(Replies)
      /\ stage # "idle" => file \in Files
      /\ stage = "idle" => replies = <<>>
      /\ FreshSession /\ Cancelled
  BY BasicParts
<1> DEFINE p == Head(line)
<1>1. /\ running /\ line # <<>> /\ line' = Tail(line)
      /\ UNCHANGED <<sender, counts>>
      /\ \/ ReceiveStop(p) \/ ReceiveEOT(p)
         \/ p.kind \in {"header", "data", "empty"} /\ (ReceiveHeader(p) \/ ReceiveBlock(p))
         \/ OutOfSequence(p)
  BY DEF Receive_Packet
<1>2. line' \in Seq(Packets) /\ Cancelled' /\ p \in Packets
  BY <1>0, <1>1, LinePop DEF sender
<1> HIDE DEF p
<1>3. /\ ReceiverTypes' /\ FreshSession'
      /\ replies' \in Seq(Replies)
      /\ stage = "idle" => replies' = <<>>
  BY <1>0, <1>1, <1>2, ReceivedTypes
<1>4. SenderTypes' /\ CountTypes' /\ stage' = stage /\ file' = file
  BY <1>0, <1>1 DEF SenderTypes, CountTypes, sender, counts
<1>5. /\ SenderTypes' /\ ReceiverTypes' /\ CountTypes'
      /\ line' \in Seq(Packets) /\ replies' \in Seq(Replies)
      /\ stage' # "idle" => file' \in Files
      /\ stage' = "idle" => replies' = <<>>
      /\ FreshSession' /\ Cancelled'
  BY <1>0, <1>2, <1>3, <1>4
<1> QED BY <1>5, BasicNext

LEMMA NextBasic ==
  ASSUME Basic, [Next]_vars
  PROVE  Basic'
<1>0. /\ SenderTypes /\ ReceiverTypes /\ CountTypes
      /\ line \in Seq(Packets) /\ replies \in Seq(Replies)
      /\ stage # "idle" => file \in Files
      /\ stage = "idle" => replies = <<>>
      /\ FreshSession /\ Cancelled
  BY BasicParts
<1>00. MaxFiles \in Nat /\ MaxLost \in Nat /\ MaxTyped \in Nat
  BY DownloadAssumption
<1>1. CASE \E f \in Files : Transmit(f)
  <2>1. PICK f \in Files : Transmit(f)
    BY <1>1
  <2>2. f \in Nat /\ f > 0 /\ 1 \in 0 .. LastBlk /\ 0 \in 0 .. TRIES - 1
    BY <1>0, Numbers, DownloadAssumption
  <2>20. /\ stage' = "header" /\ waiting' = FALSE /\ file' = f /\ size' = f /\ blkNumber' = 1 /\ tErrors' = 0
         /\ files < MaxFiles /\ files' = files + 1 /\ UNCHANGED <<lost, typed>>
         /\ gotAll' = FALSE /\ interrupted' = FALSE /\ UNCHANGED <<running, result>>
         /\ UNCHANGED <<packets_received, session_begin, errors, rSize, FlashDestination, image>>
    BY <2>1 DEF Transmit, session
  <2>21. f \in 0 .. f
    BY <2>2
  <2>22. gotAll' \in BOOLEAN /\ interrupted' \in BOOLEAN /\ waiting' \in BOOLEAN
    BY <2>20
  <2>3. SenderTypes'
    BY <2>2, <2>20, <2>21, <2>22 DEF SenderTypes
  <2>40. ReceiverTypes'
    BY <1>0, <2>20, <2>22 DEF ReceiverTypes
  <2>41. FreshSession'
    BY <1>0, <2>20 DEF FreshSession
  <2>42. CountTypes'
    BY <1>0, <1>00, <2>20 DEF CountTypes
  <2>4. ReceiverTypes' /\ FreshSession' /\ CountTypes'
    BY <2>40, <2>41, <2>42
  <2>5. line = <<>> /\ line' = line /\ replies' = replies /\ stage' # "idle" /\ file' \in Files
    BY <2>1 DEF Transmit
  <2>6. Cancelled'
    BY <2>5, EmptyQueue DEF Cancelled
  <2> QED BY <1>0, <2>3, <2>4, <2>5, <2>6, BasicNext
<1>2. CASE SendPacket
  <2>1. /\ stage # "idle" /\ waiting' = TRUE /\ line' = Append(line, Packet)
        /\ UNCHANGED <<stage, file, size, blkNumber, tErrors, replies, running, session, result,
                       gotAll, interrupted, counts>>
    BY <1>2 DEF SendPacket
  <2>2. Packet \in Packets \ Typed
    BY <1>0, <2>1, PacketIs DEF SenderTypes
  <2>3. line' \in Seq(Packets) /\ Cancelled'
    BY <1>0, <2>1, <2>2, LinePush
  <2>4. SenderTypes' /\ ReceiverTypes' /\ FreshSession' /\ CountTypes'
    BY <1>0, <2>1 DEF SenderTypes, ReceiverTypes, FreshSession, CountTypes, session, counts
  <2> QED BY <1>0, <2>1, <2>3, <2>4, BasicNext
<1>3. CASE GetReply
  <2>1. /\ replies # <<>> /\ stage # "idle" /\ waiting' = FALSE /\ file' = file
        /\ UNCHANGED <<line, running, session, result, gotAll, interrupted, counts>>
        /\ tErrors' \in 0 .. TRIES - 1
        /\ \/ /\ Advanced /\ Head(replies) = "ACK" /\ replies' = Tail(replies)
           \/ /\ UNCHANGED <<stage, size, blkNumber>> /\ replies' = Tail(replies)
              /\ Head(replies) # "ACK"
           \/ /\ stage' = "idle" /\ replies' = <<>> /\ UNCHANGED <<size, blkNumber>>
    BY <1>0, <1>3, GetReplyIs
  <2>2. /\ stage' \in {"idle", "header", "block", "eot", "close", "final"}
        /\ size' \in 0 .. file /\ blkNumber' \in 0 .. LastBlk
    <3>1. /\ stage \in {"idle", "header", "block", "eot", "close", "final"}
          /\ size \in 0 .. file /\ blkNumber \in 0 .. LastBlk /\ file \in Nat
          /\ pktSize \in Nat /\ LastBlk \in Nat
      BY <1>0, Numbers DEF SenderTypes
    <3>2. CASE UNCHANGED <<size, blkNumber>> /\ (stage' = stage \/ stage' = "idle")
      BY <3>1, <3>2
    <3>3. CASE Advanced
      <4>1. stage' \in {"block", "final", "eot", "close"}
        BY <3>3 DEF Advanced
      <4>2. size' \in 0 .. file
        BY <3>1, <3>3 DEF Advanced
      <4>3. blkNumber' \in 0 .. LastBlk
        BY <3>1, <3>3 DEF Advanced
      <4> QED BY <4>1, <4>2, <4>3
    <3> QED BY <2>1, <3>2, <3>3
  <2>3. SenderTypes' /\ ReceiverTypes' /\ FreshSession' /\ CountTypes'
    BY <1>0, <2>1, <2>2 DEF SenderTypes, ReceiverTypes, FreshSession, CountTypes, session, counts
  <2>4. replies' \in Seq(Replies) /\ (stage' = "idle" => replies' = <<>>)
    BY <1>0, <2>1, PopFacts, EmptyQueue DEF Advanced
  <2>5. Cancelled'
    BY <1>0, <2>1 DEF Cancelled
  <2> QED BY <1>0, <2>1, <2>3, <2>4, <2>5, BasicNext
<1>4. CASE NoReply
  <2>1. /\ replies = <<>> /\ waiting' = FALSE
        /\ UNCHANGED <<line, running, session, result, gotAll, interrupted, counts>>
        /\ tErrors' \in 0 .. TRIES - 1 /\ UNCHANGED <<file, size, blkNumber>>
        /\ stage' = stage \/ stage' = "idle"
        /\ replies' = <<>>
    BY <1>0, <1>4, TryTyped DEF NoReply, Stop, SenderTypes
  <2>2. SenderTypes' /\ ReceiverTypes' /\ FreshSession' /\ CountTypes'
    BY <1>0, <2>1 DEF SenderTypes, ReceiverTypes, FreshSession, CountTypes, session, counts
  <2>3. Cancelled'
    BY <1>0, <2>1 DEF Cancelled
  <2> QED BY <1>0, <2>1, <2>2, <2>3, BasicNext
<1>5. CASE Receive_Packet
  BY <1>5, ReceiveBasic
<1>6. CASE ReceiveTimeout
  <2>1. /\ errors' \in 0 .. MAX_ERRORS /\ result' \in Int /\ running' \in BOOLEAN /\ session_begin = Running
        /\ UNCHANGED <<sender, line, replies, packets_received, session_begin, rSize, FlashDestination,
                       image, gotAll, interrupted, counts>>
    <3>1. /\ running /\ session_begin = Running
          /\ UNCHANGED <<sender, line, replies, packets_received, session_begin, rSize, FlashDestination,
                         image, gotAll, interrupted, counts>>
      BY <1>6 DEF ReceiveTimeout
    <3>2. CASE errors + 1 > MAX_ERRORS
      <4>1. running' = FALSE /\ result' = 0 /\ errors' = errors
        BY <1>6, <3>2 DEF ReceiveTimeout, Return, GaveUp
      <4>20. running' \in BOOLEAN
        BY <4>1
      <4>21. result' \in Int
        BY <4>1
      <4>2. result' \in Int /\ running' \in BOOLEAN
        BY <4>20, <4>21
      <4>3. errors' \in 0 .. MAX_ERRORS
        BY <1>0, <4>1 DEF ReceiverTypes
      <4> QED BY <3>1, <4>2, <4>3
    <3>3. CASE ~(errors + 1 > MAX_ERRORS)
      <4>1. errors' = errors + 1 /\ running' = running /\ result' = result
        BY <1>6, <3>3 DEF ReceiveTimeout
      <4>2. errors' \in 0 .. MAX_ERRORS
        BY <1>0, <3>3, <4>1, DownloadAssumption DEF ReceiverTypes
      <4> QED BY <1>0, <3>1, <4>1, <4>2 DEF ReceiverTypes
    <3> QED BY <3>2, <3>3
  <2>2. SenderTypes' /\ ReceiverTypes' /\ FreshSession' /\ CountTypes'
    BY <1>0, <2>1 DEF SenderTypes, ReceiverTypes, FreshSession, CountTypes, sender, counts, Fresh, Running
  <2>3. Cancelled' /\ stage' = stage /\ file' = file
    BY <1>0, <2>1 DEF Cancelled, sender
  <2> QED BY <1>0, <2>1, <2>2, <2>3, BasicNext
<1>7. CASE SerialDownload
  <2>1. "text" \in Replies /\ Reply(<<"text">>)
    BY <1>7 DEF SerialDownload, Replies
  <2>2. replies' \in Seq(Replies) /\ (stage = "idle" => replies' = <<>>)
    BY <1>0, <2>1, ReplyTyped, ShortReplies
  <2>3. /\ running' = TRUE /\ packets_received' = 0 /\ session_begin' = Fresh /\ errors' = 0
        /\ rSize' = 0 /\ FlashDestination' = 0 /\ image' = <<>>
        /\ UNCHANGED <<sender, line, result, gotAll, interrupted, counts>>
    BY <1>7 DEF SerialDownload
  <2>4. SenderTypes' /\ ReceiverTypes' /\ FreshSession' /\ CountTypes'
    BY <1>0, <2>3, EmptyQueue, DownloadAssumption
       DEF SenderTypes, ReceiverTypes, FreshSession, CountTypes, sender, counts
  <2>5. Cancelled' /\ stage' = stage /\ file' = file
    BY <1>0, <2>3 DEF Cancelled, sender
  <2> QED BY <1>0, <2>2, <2>3, <2>4, <2>5, BasicNext
<1>8. CASE LosePacket
  <2>1. /\ line # <<>> /\ line' = Tail(line) /\ lost < MaxLost /\ lost' = lost + 1
        /\ UNCHANGED <<sender, replies, running, session, result, gotAll, interrupted, files, typed>>
    BY <1>8 DEF LosePacket
  <2>2. line' \in Seq(Packets) /\ Cancelled'
    BY <1>0, <2>1, LinePop DEF sender
  <2>3. SenderTypes' /\ ReceiverTypes' /\ FreshSession' /\ CountTypes' /\ stage' = stage /\ file' = file
    BY <1>0, <1>00, <2>1 DEF SenderTypes, ReceiverTypes, FreshSession, CountTypes, sender, session
  <2> QED BY <1>0, <2>1, <2>2, <2>3, BasicNext
<1>9. CASE LoseReply
  <2>1. /\ replies # <<>> /\ replies' = Tail(replies) /\ lost < MaxLost /\ lost' = lost + 1
        /\ UNCHANGED <<sender, line, running, session, result, gotAll, interrupted, files, typed>>
    BY <1>9 DEF LoseReply
  <2>2. replies' \in Seq(Replies) /\ stage # "idle"
    BY <1>0, <2>1, PopFacts
  <2>3. SenderTypes' /\ ReceiverTypes' /\ FreshSession' /\ CountTypes' /\ stage' = stage /\ file' = file
    BY <1>0, <1>00, <2>1 DEF SenderTypes, ReceiverTypes, FreshSession, CountTypes, sender, session
  <2>4. Cancelled'
    BY <1>0, <2>1 DEF Cancelled, sender
  <2> QED BY <1>0, <2>1, <2>2, <2>3, <2>4, BasicNext
<1>10. CASE \E k \in {"CA", "a"} : Type(k)
  <2>1. PICK k \in {"CA", "a"} : Type(k)
    BY <1>10
  <2>2. /\ typed < MaxTyped /\ typed' = typed + 1 /\ line' = Append(line, [kind |-> k])
        /\ IF k = "CA" THEN stage' = "idle" /\ replies' = <<>> /\ waiting' = FALSE
                       ELSE stage' = stage /\ replies' = replies /\ waiting' = waiting
        /\ UNCHANGED <<file, size, blkNumber, tErrors>>
        /\ UNCHANGED <<running, session, result, gotAll, interrupted, files, lost>>
    BY <2>1 DEF Type, Stop, sender
  <2>3. line' \in Seq(Packets) /\ Cancelled'
    BY <1>0, <2>2, LineKey
  <2>40. SenderTypes'
    <3>1. waiting' \in BOOLEAN /\ stage' \in {"idle", "header", "block", "eot", "close", "final"}
      BY <1>0, <2>2 DEF SenderTypes
    <3>2. UNCHANGED <<file, size, blkNumber, tErrors>>
      BY <2>2
    <3> QED BY <1>0, <3>1, <3>2 DEF SenderTypes
  <2>41. /\ UNCHANGED <<running, packets_received, session_begin, errors, rSize, FlashDestination, image>>
         /\ UNCHANGED <<result, gotAll, interrupted, files, lost>>
         /\ typed < MaxTyped /\ typed' = typed + 1
    BY <2>2 DEF session
  <2>42. ReceiverTypes' /\ FreshSession'
    BY <1>0, <2>41 DEF ReceiverTypes, FreshSession
  <2>43. CountTypes'
    BY <1>0, <1>00, <2>41 DEF CountTypes
  <2>4. SenderTypes' /\ ReceiverTypes' /\ FreshSession' /\ CountTypes'
    BY <2>40, <2>42, <2>43
  <2> QED BY <1>0, <2>2, <2>3, <2>4, BasicNext, EmptyQueue
<1>11. CASE UNCHANGED vars
  <2>1. SenderTypes' /\ ReceiverTypes' /\ FreshSession' /\ CountTypes' /\ Cancelled'
    BY <1>0, <1>11 DEF vars, SenderTypes, ReceiverTypes, FreshSession, CountTypes, Cancelled,
                       sender, session, counts
  <2> QED BY <1>0, <1>11, <2>1, BasicNext DEF vars, sender
<1> QED BY <1>1, <1>2, <1>3, <1>4, <1>5, <1>6, <1>7, <1>8, <1>9, <1>10, <1>11 DEF Next

LEMMA InitBasic == Init => Basic
<1> SUFFICES ASSUME Init PROVE Basic
  OBVIOUS
<1>0. 0 \in 0 .. MAX_ERRORS /\ 0 \in 0 .. LastBlk /\ 0 \in 0 .. TRIES - 1 /\ 0 \in 0 .. 0
  BY DownloadAssumption
<1>10. SenderTypes
  BY <1>0 DEF Init, SenderTypes
<1>11. CountTypes
  BY DownloadAssumption DEF Init, CountTypes
<1>12. FreshSession
  BY DEF Init, FreshSession
<1>1. SenderTypes /\ CountTypes /\ FreshSession
  BY <1>10, <1>11, <1>12
<1>2. ReceiverTypes /\ line \in Seq(Packets) /\ replies \in Seq(Replies)
  <2>1. image \in Seq([dest : Nat, off : Nat, packet : {PACKET_SIZE, PACKET_1K_SIZE}, stored : {WRITE_SIZE}])
    BY EmptyQueue DEF Init
  <2>2. ReceiverTypes
    <3>10. result \in Int
      BY DEF Init
    <3>11. running \in BOOLEAN
      BY DEF Init
    <3>12. gotAll \in BOOLEAN
      BY DEF Init
    <3>13. interrupted \in BOOLEAN
      BY DEF Init
    <3>1. result \in Int /\ running \in BOOLEAN /\ gotAll \in BOOLEAN /\ interrupted \in BOOLEAN
      BY <3>10, <3>11, <3>12, <3>13
    <3>2. packets_received \in Nat /\ FlashDestination \in Nat /\ rSize \in Files \cup {0, 1, FLASH_SIZE}
      BY DEF Init
    <3>3. errors \in 0 .. MAX_ERRORS /\ session_begin \in {Fresh, Running}
      BY <1>0 DEF Init
    <3> QED BY <2>1, <3>1, <3>2, <3>3 DEF ReceiverTypes
  <2> QED BY <2>2, EmptyQueue DEF Init
<1>3. Cancelled
  BY EmptyQueue DEF Init, Cancelled
<1> QED BY <1>1, <1>2, <1>3, BasicParts DEF Init

-----------------------------------------------------------------------------
(* The course of a transfer                                                *)

(* Steps that bring it no further: something is lost, or typed, or is      *)
(* answered with NAK.                                                      *)
LineSame ==
  \/ line' = line
  \/ line # <<>> /\ line' = Tail(line)
  \/ \E k \in Typed : line' = Append(line, k)
RepliesSame ==
  \/ replies' = replies
  \/ replies # <<>> /\ replies' = Tail(replies)
  \/ replies' = <<>>
  \/ replies' = Append(replies, "NAK")

LEMMA LineKept ==
  ASSUME LineSame, NEW T, Typed \subseteq T, line \in Seq(T)
  PROVE  /\ line' \in Seq(T)
         /\ \A A, B : B \cap Typed = {} /\ NeverAfter(line, A, B) => NeverAfter(line', A, B)
<1>1. CASE line' = line
  BY <1>1
<1>2. CASE line # <<>> /\ line' = Tail(line)
  BY <1>2, PopFacts, OrderPop
<1>3. CASE \E k \in Typed : line' = Append(line, k)
  <2>1. PICK k \in Typed : line' = Append(line, k)
    BY <1>3
  <2>2. k \in T
    OBVIOUS
  <2>3. line' \in Seq(T)
    BY <2>1, <2>2, PushFacts
  <2>4. ASSUME NEW A, NEW B, B \cap Typed = {}, NeverAfter(line, A, B)
        PROVE  NeverAfter(line', A, B)
    <3>1. k \notin B
      BY <2>4
    <3> QED BY <2>1, <2>2, <2>4, <3>1, OrderPush
  <2> QED BY <2>3, <2>4
<1> QED BY <1>1, <1>2, <1>3 DEF LineSame

LEMMA RepliesKept ==
  ASSUME RepliesSame, replies \in Seq(Replies)
  PROVE  (NoAck => NoAck') /\ (OneAck => OneAck')
<1>0. "NAK" \in NotAck /\ "NAK" \in Replies /\ "NAK" \notin {"ACK"}
  BY DEF NotAck, Replies
<1>1. CASE replies' = replies
  BY <1>1 DEF NoAck, OneAck
<1>2. CASE replies # <<>> /\ replies' = Tail(replies)
  BY <1>2, PopFacts, OrderPop DEF NoAck, OneAck
<1>3. CASE replies' = <<>>
  BY <1>3, EmptyQueue DEF NoAck, OneAck
<1>4. CASE replies' = Append(replies, "NAK")
  <2>1. NoAck => NoAck'
    BY <1>0, <1>4, PushFacts DEF NoAck
  <2>2. OneAck => OneAck'
    BY <1>0, <1>4, OrderPush DEF OneAck
  <2> QED BY <2>1, <2>2
<1> QED BY <1>1, <1>2, <1>3, <1>4 DEF RepliesSame

LEMMA PhaseKept ==
  ASSUME Phase, line \in Seq(Packets), replies \in Seq(Replies), SenderTypes,
         UNCHANGED <<file, size, blkNumber, running, packets_received, rSize, FlashDestination, gotAll, result>>,
         LineSame, RepliesSame, stage' = stage \/ stage' = "idle"
  PROVE  Phase'
<1>1. /\ Header' = Header /\ Block' = Block /\ Earlier' = Earlier /\ LastBlock' = LastBlock
      /\ pktSize' = pktSize
  BY DEF Header, Block, Earlier, LastBlock, pktSize
<1>2. /\ {Block} \cap Typed = {} /\ Earlier \cap Typed = {} /\ LastBlock \cap Typed = {}
  BY PacketIs DEF Earlier, LastBlock, Typed
<1>3. (NoAck => NoAck') /\ (OneAck => OneAck')
  BY RepliesKept
<1>4. CASE stage \in {"idle", "header"} /\ (HeaderOut \/ HeaderIn)
  <2>1. line \in Seq(Typed \cup {Header})
    BY <1>4 DEF HeaderOut, HeaderIn
  <2>2. line' \in Seq(Typed \cup {Header'})
    BY <1>1, <2>1, LineKept
  <2>3. HeaderOut => HeaderOut'
    BY <1>3, <2>2 DEF HeaderOut
  <2>4. HeaderIn => HeaderIn'
    BY <1>3, <2>2 DEF HeaderIn
  <2> QED BY <1>4, <2>3, <2>4 DEF Phase
<1>5. CASE stage \in {"idle", "block"} /\ BlockOut
  <2>1. line \in Seq(Typed \cup Earlier \cup {Block}) /\ NeverAfter(line, {Block}, Earlier)
    BY <1>5 DEF BlockOut
  <2>2. Typed \subseteq Typed \cup Earlier \cup {Block}
    OBVIOUS
  <2>3. line' \in Seq(Typed \cup Earlier' \cup {Block'}) /\ NeverAfter(line', {Block'}, Earlier')
    BY <1>1, <1>2, <2>1, <2>2, LineKept
  <2>4. BlockOut'
    BY <1>3, <1>5, <2>3 DEF BlockOut
  <2> QED BY <1>5, <2>4 DEF Phase
<1>6. CASE stage \in {"idle", "block"} /\ BlockIn
  <2>1. line \in Seq(Typed \cup {Block})
    BY <1>6 DEF BlockIn
  <2>2. line' \in Seq(Typed \cup {Block'})
    BY <1>1, <2>1, LineKept
  <2>3. BlockIn'
    BY <1>1, <1>3, <1>6, <2>2 DEF BlockIn
  <2> QED BY <1>6, <2>3 DEF Phase
<1>7. CASE stage \in {"idle", "eot"} /\ EotOut
  <2>1. line \in Seq(Typed \cup LastBlock \cup Ended) /\ NeverAfter(line, Ended, LastBlock)
    BY <1>7 DEF EotOut
  <2>2. Typed \subseteq Typed \cup LastBlock \cup Ended
    OBVIOUS
  <2>3. line' \in Seq(Typed \cup LastBlock' \cup Ended) /\ NeverAfter(line', Ended, LastBlock')
    BY <1>1, <1>2, <2>1, <2>2, LineKept
  <2>4. EotOut'
    BY <1>3, <1>7, <2>3 DEF EotOut
  <2> QED BY <1>7, <2>4 DEF Phase
<1>8. CASE stage \in {"idle", "eot", "close", "final"} /\ Closing
  <2>1. line \in Seq(Typed \cup Ended)
    BY <1>8 DEF Closing
  <2>2. line' \in Seq(Typed \cup Ended)
    BY <2>1, LineKept
  <2>3. Closing'
    BY <1>8, <2>2 DEF Closing
  <2> QED BY <1>8, <2>3 DEF Phase
<1> QED BY <1>4, <1>5, <1>6, <1>7, <1>8 DEF Phase

LEMMA SendPhase ==
  ASSUME Phase, SenderTypes, stage # "idle" => file \in Files, SendPacket
  PROVE  Phase'
<1>0. /\ stage # "idle" /\ line' = Append(line, Packet) /\ stage' = stage
      /\ UNCHANGED <<file, size, blkNumber, replies, running, packets_received, rSize, FlashDestination,
                     gotAll, result>>
  BY DEF SendPacket, session
<1>1. /\ Header' = Header /\ Block' = Block /\ Earlier' = Earlier /\ LastBlock' = LastBlock
      /\ pktSize' = pktSize
  BY <1>0 DEF Header, Block, Earlier, LastBlock, pktSize
<1>2. /\ stage = "header" => Packet = Header
      /\ stage = "block" => Packet = Block
      /\ stage \in {"eot", "close", "final"} => Packet \in Ended
  BY PacketIs
<1>3. (NoAck => NoAck') /\ (OneAck => OneAck')
  BY <1>0 DEF NoAck, OneAck
<1>4. CASE stage = "header" /\ (HeaderOut \/ HeaderIn)
  <2>1. line \in Seq(Typed \cup {Header}) /\ Packet \in Typed \cup {Header}
    BY <1>2, <1>4 DEF HeaderOut, HeaderIn
  <2>2. line' \in Seq(Typed \cup {Header'})
    BY <1>0, <1>1, <2>1, PushFacts
  <2>3. HeaderOut => HeaderOut'
    BY <1>0, <1>3, <2>2 DEF HeaderOut
  <2>4. HeaderIn => HeaderIn'
    BY <1>0, <1>3, <2>2 DEF HeaderIn
  <2> QED BY <1>0, <1>4, <2>3, <2>4 DEF Phase
<1>5. CASE stage = "block" /\ BlockOut
  <2> DEFINE T == Typed \cup Earlier \cup {Block}
  <2>1. line \in Seq(T) /\ NeverAfter(line, {Block}, Earlier) /\ Packet = Block /\ Packet \in T
    BY <1>2, <1>5 DEF BlockOut
  <2>2. Block \notin Earlier
    <3>1. blkNumber - 1 \in Nat /\ (blkNumber - 1) + 1 = blkNumber
      BY <1>5, Numbers DEF BlockOut
    <3>2. (blkNumber - 1) % SEQMOD # blkNumber % SEQMOD
      BY <3>1, SeqnoTells
    <3> QED BY <3>2 DEF Block, Earlier
  <2> HIDE DEF T
  <2>3. line' \in Seq(T)
    BY <1>0, <2>1, PushFacts
  <2>4. NeverAfter(line', {Block}, Earlier)
    BY <1>0, <2>1, <2>2, OrderPush
  <2>5. BlockOut'
    BY <1>0, <1>1, <1>3, <1>5, <2>3, <2>4 DEF BlockOut, T
  <2> QED BY <1>0, <1>5, <2>5 DEF Phase
<1>6. CASE stage = "block" /\ BlockIn
  <2>1. line \in Seq(Typed \cup {Block}) /\ Packet \in Typed \cup {Block}
    BY <1>2, <1>6 DEF BlockIn
  <2>2. line' \in Seq(Typed \cup {Block'})
    BY <1>0, <1>1, <2>1, PushFacts
  <2>3. BlockIn'
    BY <1>0, <1>1, <1>3, <1>6, <2>2 DEF BlockIn
  <2> QED BY <1>0, <1>6, <2>3 DEF Phase
<1>7. CASE stage = "eot" /\ EotOut
  <2> DEFINE T == Typed \cup LastBlock \cup Ended
  <2>1. line \in Seq(T) /\ NeverAfter(line, Ended, LastBlock) /\ Packet \in Ended /\ Packet \in T
    BY <1>2, <1>7 DEF EotOut
  <2>2. Packet \notin LastBlock
    BY <2>1 DEF Ended, LastBlock
  <2> HIDE DEF T
  <2>3. line' \in Seq(T)
    BY <1>0, <2>1, PushFacts
  <2>4. NeverAfter(line', Ended, LastBlock)
    BY <1>0, <2>1, <2>2, OrderPush
  <2>5. EotOut'
    BY <1>0, <1>1, <1>3, <1>7, <2>3, <2>4 DEF EotOut, T
  <2> QED BY <1>0, <1>7, <2>5 DEF Phase
<1>8. CASE stage \in {"eot", "close", "final"} /\ Closing
  <2>1. line \in Seq(Typed \cup Ended) /\ Packet \in Typed \cup Ended
    BY <1>2, <1>8 DEF Closing
  <2>2. line' \in Seq(Typed \cup Ended)
    BY <1>0, <2>1, PushFacts
  <2>3. Closing'
    BY <1>0, <1>8, <2>2 DEF Closing
  <2> QED BY <1>0, <1>8, <2>3 DEF Phase
<1> QED BY <1>0, <1>4, <1>5, <1>6, <1>7, <1>8 DEF Phase

(* An acknowledgement that is taken is one of the packet that was sent.    *)
LEMMA AckTaken ==
  ASSUME replies \in Seq(Replies), replies # <<>>, Head(replies) = "ACK", replies' = Tail(replies)
  PROVE  ~NoAck /\ (OneAck => NoAck')
<1>1. NoAck => Head(replies) \in NotAck
  BY PopFacts DEF NoAck
<1>2. ASSUME OneAck PROVE NoAck'
  <2>1. Tail(replies) \in Seq(Replies \ {"ACK"})
    BY <1>2, OrderPop DEF OneAck
  <2>2. Replies \ {"ACK"} \subseteq NotAck
    BY DEF Replies, NotAck
  <2> QED BY <2>1, <2>2, QueueFacts DEF NoAck
<1> QED BY <1>1, <1>2 DEF NotAck

LEMMA ReplyPhase ==
  ASSUME Phase, SenderTypes, line \in Seq(Packets), replies \in Seq(Replies), GetReply
  PROVE  Phase'
<1>0. /\ replies # <<>> /\ stage # "idle" /\ file' = file
      /\ UNCHANGED <<line, running, packets_received, rSize, FlashDestination, result, gotAll>>
      /\ \/ /\ Advanced /\ Head(replies) = "ACK" /\ replies' = Tail(replies)
         \/ /\ UNCHANGED <<stage, size, blkNumber>> /\ replies' = Tail(replies)
         \/ /\ stage' = "idle" /\ replies' = <<>> /\ UNCHANGED <<size, blkNumber>>
  BY GetReplyIs DEF session
<1>1. CASE \/ /\ UNCHANGED <<stage, size, blkNumber>> /\ replies' = Tail(replies)
           \/ /\ stage' = "idle" /\ replies' = <<>> /\ UNCHANGED <<size, blkNumber>>
  <2>1. LineSame /\ RepliesSame
    BY <1>0, <1>1 DEF LineSame, RepliesSame
  <2>2. /\ UNCHANGED <<file, size, blkNumber, running, packets_received, rSize, FlashDestination, gotAll, result>>
        /\ stage' = stage \/ stage' = "idle"
    BY <1>0, <1>1
  <2> QED BY <2>1, <2>2, PhaseKept
<1>2. CASE Advanced /\ Head(replies) = "ACK" /\ replies' = Tail(replies)
  <2>0. ~NoAck /\ (OneAck => NoAck')
    BY <1>0, <1>2, AckTaken
  <2>1. /\ file \in Nat /\ size \in Nat /\ size <= file /\ blkNumber \in Nat
        /\ pktSize \in Nat \ {0}
        /\ \A f \in Files : f \in Nat /\ f > 0
    BY Numbers
  <2>2. CASE stage = "header" /\ stage' = "block" /\ UNCHANGED <<size, blkNumber>>
    <3>1. HeaderIn
      BY <2>0, <2>2 DEF Phase, HeaderOut
    <3>2. line' \in Seq(Typed \cup {Header})
      BY <1>0, <3>1 DEF HeaderIn
    <3>3. Header \in Earlier' /\ Block' \notin Typed \cup {Header}
      <4>1. (blkNumber' - 1) % SEQMOD = 0
        BY <2>2, <3>1, FirstSeqno DEF HeaderIn
      <4>2. Header \in Packets
        BY <3>1, PacketIs DEF HeaderIn
      <4> QED BY <4>1, <4>2 DEF Header, Earlier, Block, Typed
    <3>4. line' \in Seq(Typed \cup Earlier' \cup {Block'})
      BY <3>2, <3>3, QueueFacts
    <3>5. NeverAfter(line', {Block'}, Earlier')
      BY <3>2, <3>3, OrderWithout
    <3>6. BlockOut'
      <4>1. NoAck'
        BY <2>0, <3>1 DEF HeaderIn
      <4>2. /\ running' /\ file' \in Files /\ blkNumber' > 0 /\ size' > 0 /\ rSize' = file'
            /\ packets_received' = blkNumber' /\ FlashDestination' = file' - size'
        BY <1>0, <2>1, <2>2, <3>1 DEF HeaderIn
      <4> QED BY <3>4, <3>5, <4>1, <4>2 DEF BlockOut
    <3> QED BY <2>2, <3>6 DEF Phase
  <2>3. CASE /\ stage = "block" /\ stage' = "block" /\ size > pktSize
             /\ size' = size - pktSize /\ blkNumber' = blkNumber + 1
    <3>1. BlockIn
      BY <2>0, <2>3 DEF Phase, BlockOut
    <3>2. line' \in Seq(Typed \cup {Block})
      BY <1>0, <3>1 DEF BlockIn
    <3>3. Block \in Earlier' /\ Block' \notin Typed \cup {Block}
      <4>1. (blkNumber' - 1) % SEQMOD = blkNumber % SEQMOD
        BY <2>1, <2>3
      <4>2. blkNumber' % SEQMOD # blkNumber % SEQMOD
        BY <2>1, <2>3, SeqnoTells
      <4>3. Block.seq # Block'.seq
        BY <4>2 DEF Block
      <4>4. Block \in Packets
        BY PacketIs
      <4>5. Block \in Earlier'
        BY <4>1, <4>4 DEF Block, Earlier
      <4>6. Block' \notin Typed
        BY DEF Block, Typed
      <4> QED BY <4>3, <4>5, <4>6
    <3>4. line' \in Seq(Typed \cup Earlier' \cup {Block'})
      BY <3>2, <3>3, QueueFacts
    <3>5. NeverAfter(line', {Block'}, Earlier')
      BY <3>2, <3>3, OrderWithout
    <3>6. BlockOut'
      <4>1. NoAck'
        BY <2>0, <3>1 DEF BlockIn
      <4>2. /\ running' /\ file' \in Files /\ blkNumber' > 0 /\ size' > 0 /\ rSize' = file'
            /\ packets_received' = blkNumber' /\ FlashDestination' = file' - size'
        BY <1>0, <2>1, <2>3, <3>1 DEF BlockIn
      <4> QED BY <3>4, <3>5, <4>1, <4>2 DEF BlockOut
    <3> QED BY <2>3, <3>6 DEF Phase
  <2>4. CASE /\ stage = "block" /\ stage' = "eot" /\ size <= pktSize
             /\ size' = 0 /\ UNCHANGED blkNumber
    <3>1. BlockIn
      BY <2>0, <2>4 DEF Phase, BlockOut
    <3>2. line' \in Seq(Typed \cup {Block})
      BY <1>0, <3>1 DEF BlockIn
    <3>3. Block \in LastBlock' /\ Block \notin Ended /\ Typed \cap Ended = {}
      <4>1. Block \in Packets \ (Typed \cup Ended)
        BY PacketIs
      <4> QED BY <2>4, <4>1 DEF Block, LastBlock, Typed, Ended
    <3>4. line' \in Seq(Typed \cup LastBlock' \cup Ended)
      BY <3>2, <3>3, QueueFacts
    <3>5. NeverAfter(line', Ended, LastBlock')
      BY <3>2, <3>3, OrderWithout
    <3>6. EotOut'
      <4>1. NoAck'
        BY <2>0, <3>1 DEF BlockIn
      <4>2. gotAll'
        BY <1>0, <2>4, <3>1 DEF BlockIn
      <4>3. /\ running' /\ file' \in Files /\ blkNumber' > 0 /\ rSize' = file'
            /\ packets_received' = blkNumber' + 1 /\ FlashDestination' >= file'
        BY <1>0, <2>1, <2>4, <3>1 DEF BlockIn
      <4> QED BY <3>4, <3>5, <4>1, <4>2, <4>3 DEF EotOut
    <3> QED BY <2>4, <3>6 DEF Phase
  <2>5. CASE \/ stage = "eot" /\ stage' = "close"
             \/ stage = "close" /\ stage' = "final"
    <3>1. Closing
      BY <2>0, <2>5 DEF Phase, EotOut
    <3>2. Closing'
      BY <1>0, <3>1 DEF Closing
    <3> QED BY <2>5, <3>2 DEF Phase
  <2> QED BY <1>2, <2>2, <2>3, <2>4, <2>5 DEF Advanced
<1> QED BY <1>0, <1>1, <1>2

(* The acknowledgements that Ymodem_Receive gives.                         *)
LEMMA AckGiven ==
  ASSUME replies \in Seq(Replies), NoAck,
         Reply(<<"ACK">>) \/ Reply(<<"ACK", "C">>)
  PROVE  OneAck'
<1>1. {"ACK", "C"} \subseteq Replies /\ "C" \notin {"ACK"}
  BY DEF Replies
<1>2. replies \in Seq(Replies \ {"ACK"})
  BY QueueFacts DEF NoAck, NotAck, Replies
<1>3. NeverAfter(replies, {"ACK"}, {"ACK"})
  BY <1>2, OrderWithout
<1> DEFINE g == Append(replies, "ACK")
<1>4. g \in Seq(Replies) /\ NeverAfter(g, {"ACK"}, {"ACK"})
  BY <1>1, <1>2, <1>3, PushFacts, OrderPush
<1>5. NeverAfter(Append(g, "C"), {"ACK"}, {"ACK"})
  BY <1>1, <1>4, OrderPush
<1>6. replies' \in {replies, g, Append(g, "C")}
  BY <1>1, ReplyOne, ReplyTwo
<1> QED BY <1>3, <1>4, <1>5, <1>6 DEF OneAck

LEMMA NakGiven ==
  ASSUME replies \in Seq(Replies), Reply(<<"NAK">>)
  PROVE  RepliesSame
BY ReplyOne DEF RepliesSame, Replies

(* The header is received: a file has to be smaller than the flash.        *)
LEMMA HeaderReceived ==
  ASSUME Basic, HeaderOut, Receive_Packet, ~interrupted',
         Head(line) = Header, stage \in {"idle", "header"}
  PROVE  Phase' /\ UNCHANGED <<FlashDestination, image>>
<1> DEFINE p == Head(line)
<1>0. SenderTypes /\ replies \in Seq(Replies) /\ line \in Seq(Packets)
  BY BasicParts
<1>1. p.kind = "header" /\ p.size = file /\ p.seq = 0
  BY DEF Header
<1>2. running /\ line # <<>> /\ line' = Tail(line) /\ UNCHANGED sender
  BY DEF Receive_Packet
<1>3. /\ file \in Files /\ packets_received = 0 /\ NoAck /\ blkNumber = 1 /\ size = file
      /\ FlashDestination = 0 /\ line \in Seq(Typed \cup {Header})
  BY DEF HeaderOut
<1>4. InSequence(p) /\ ExpectHeader
  BY <1>1, <1>3, FirstSeqno DEF InSequence, ExpectHeader
<1>5. ReceiveHeader(p)
  BY <1>1, <1>4 DEF Receive_Packet, ReceiveStop, ReceiveEOT, ReceiveBlock, OutOfSequence
<1> HIDE DEF p
<1>6. Sizes(p) = {file} /\ ~(file > FLASH_SIZE - 1)
  <2>1. Sizes(p) = {file}
    BY <1>1 DEF Sizes
  <2>2. ~(file > FLASH_SIZE - 1)
    BY <1>3, DownloadAssumption
  <2> QED BY <2>1, <2>2
<1>7. /\ rSize' = file /\ Counted /\ Reply(<<"ACK", "C">>) /\ running' = running
      /\ UNCHANGED <<FlashDestination, image>>
  BY <1>1, <1>5, <1>6 DEF ReceiveHeader
<1>8. OneAck'
  BY <1>0, <1>3, <1>7, AckGiven
<1>9. line' \in Seq(Typed \cup {Header'})
  BY <1>2, <1>3, PopFacts DEF Header, sender
<1>10. HeaderIn'
  BY <1>2, <1>3, <1>7, <1>8, <1>9 DEF HeaderIn, Counted, sender
<1> QED BY <1>2, <1>7, <1>10 DEF Phase, sender

(* What is written goes on where the last block ended.                     *)
LEMMA PlacedMore ==
  ASSUME Placed, image \in Seq([dest : Nat, off : Nat, packet : {PACKET_SIZE, PACKET_1K_SIZE}, stored : {WRITE_SIZE}]),
         FlashDestination \in Nat, NEW len \in {PACKET_SIZE, PACKET_1K_SIZE},
         image' = Append(image, [dest |-> FlashDestination, off |-> FlashDestination, packet |-> len, stored |-> WRITE_SIZE]),
         FlashDestination' = FlashDestination + len
  PROVE  Placed' /\ (FlashDestination' >= file => AllReceived(image'))
<1> DEFINE e == [dest |-> FlashDestination, off |-> FlashDestination, packet |-> len, stored |-> WRITE_SIZE]
           S == [dest : Nat, off : Nat, packet : {PACKET_SIZE, PACKET_1K_SIZE}, stored : {WRITE_SIZE}]
<1>1. e \in S /\ e.dest = FlashDestination /\ e.off = FlashDestination /\ e.packet = len
  OBVIOUS
<1> HIDE DEF e
<1>2. /\ Len(image) \in Nat /\ Len(image') = Len(image) + 1
      /\ image'[Len(image) + 1] = e
      /\ \A i \in 1 .. Len(image) : image'[i] = image[i]
  <2> HIDE DEF S
  <2>1. image \in Seq(S)
    BY DEF S
  <2> QED BY <1>1, <2>1, PushFacts DEF e
<1> HIDE DEF S
<1>3. /\ \A i \in 1 .. Len(image) :
           /\ image[i].dest = image[i].off
           /\ i > 1 => image[i].off = image[i - 1].off + image[i - 1].packet
      /\ FlashDestination = IF Len(image) = 0 THEN 0 ELSE image[Len(image)].off + image[Len(image)].packet
  BY DEF Placed
<1>4. ASSUME NEW i \in 1 .. Len(image')
      PROVE  /\ image'[i].dest = image'[i].off
             /\ i > 1 => image'[i].off = image'[i - 1].off + image'[i - 1].packet
  <2>1. CASE i \in 1 .. Len(image)
    <3>1. image'[i] = image[i]
      BY <1>2, <2>1
    <3>2. i > 1 => image'[i - 1] = image[i - 1]
      BY <1>2, <2>1
    <3> QED BY <1>3, <2>1, <3>1, <3>2
  <2>2. CASE i = Len(image) + 1
    <3>1. image'[i] = e
      BY <1>2, <2>2
    <3>2. Len(image) \in Nat /\ i - 1 = Len(image)
      BY <1>2, <2>2
    <3>3. ASSUME i > 1
          PROVE  Len(image) # 0 /\ image'[i - 1] = image[Len(image)]
      BY <1>2, <3>2, <3>3
    <3> QED BY <1>1, <1>3, <3>1, <3>2, <3>3
  <2> QED BY <1>2, <2>1, <2>2
<1>5. FlashDestination' = image'[Len(image')].off + image'[Len(image')].packet /\ Len(image') > 0
  BY <1>1, <1>2
<1>6. Len(image') # 0 /\ (FlashDestination' >= file => AllReceived(image'))
  <2>1. Len(image') # 0
    BY <1>2
  <2> QED BY <1>5, <2>1 DEF AllReceived
<1> QED BY <1>4, <1>5, <1>6 DEF Placed

(* The block is received: it is not one of those before it.                *)
LEMMA BlockReceived ==
  ASSUME Basic, Placed, BlockOut, Receive_Packet, ~interrupted',
         Head(line) = Block, stage \in {"idle", "block"}
  PROVE  Phase' /\ Placed'
<1> DEFINE p == Head(line)
<1>0. SenderTypes /\ ReceiverTypes /\ replies \in Seq(Replies) /\ line \in Seq(Packets)
  BY BasicParts
<1>1. p.kind = "data" /\ p.seq = blkNumber % SEQMOD /\ p.off = file - size /\ p.len = pktSize
  BY DEF Block
<1>2. running /\ line # <<>> /\ line' = Tail(line) /\ UNCHANGED sender
  BY DEF Receive_Packet
<1>3. /\ file \in Files /\ blkNumber > 0 /\ size > 0 /\ rSize = file
      /\ packets_received = blkNumber /\ FlashDestination = file - size /\ NoAck
      /\ line \in Seq(Typed \cup Earlier \cup {Block}) /\ NeverAfter(line, {Block}, Earlier)
  BY DEF BlockOut
<1>4. InSequence(p) /\ ~ExpectHeader
  BY <1>0, <1>1, <1>3, Numbers DEF InSequence, ExpectHeader
<1>5. ReceiveBlock(p)
  BY <1>1, <1>4 DEF Receive_Packet, ReceiveStop, ReceiveEOT, ReceiveHeader, OutOfSequence
<1>6. ~BreakOff(-2)
  BY DEF BreakOff
<1> HIDE DEF p
<1>7. /\ image' = Append(image, [dest |-> FlashDestination, off |-> p.off, packet |-> p.len, stored |-> WRITE_SIZE])
      /\ FlashDestination' = FlashDestination + p.len
      /\ gotAll' = (gotAll \/ AllReceived(image'))
      /\ Counted /\ Reply(<<"ACK">>) /\ running' = running /\ rSize' = rSize
  BY <1>5, <1>6 DEF ReceiveBlock
<1>8. OneAck'
  BY <1>0, <1>3, <1>7, AckGiven
<1>9. Block' = Block /\ pktSize' = pktSize
  BY <1>2 DEF Block, sender, pktSize
<1>10. line' \in Seq(Typed \cup {Block'})
  <2>1. Tail(line) \in Seq((Typed \cup Earlier \cup {Block}) \ Earlier)
    BY <1>2, <1>3, OrderPop
  <2>2. (Typed \cup Earlier \cup {Block}) \ Earlier \subseteq Typed \cup {Block}
    OBVIOUS
  <2> QED BY <1>2, <1>9, <2>1, <2>2, QueueFacts
<1>11. Placed' /\ (FlashDestination' >= file => AllReceived(image'))
  <2>1. pktSize \in {PACKET_SIZE, PACKET_1K_SIZE}
    BY <1>0, Numbers
  <2> QED BY <1>0, <1>1, <1>3, <1>7, <2>1, PlacedMore DEF ReceiverTypes
<1>12. size <= pktSize => gotAll'
  <2>1. size <= pktSize => FlashDestination' >= file
    BY <1>0, <1>1, <1>3, <1>7, Numbers
  <2> QED BY <1>7, <1>11, <2>1
<1>13. BlockIn'
  <2>1. size' = size /\ file' = file /\ blkNumber' = blkNumber
    BY <1>2 DEF sender
  <2>2. packets_received' = blkNumber' + 1
    BY <1>3, <1>7, <2>1 DEF Counted
  <2>3. FlashDestination' = file' - size' + pktSize'
    BY <1>1, <1>3, <1>7, <1>9, <2>1
  <2>4. running' /\ rSize' = file'
    BY <1>2, <1>3, <1>7, <2>1
  <2> QED BY <1>3, <1>8, <1>9, <1>10, <1>12, <2>1, <2>2, <2>3, <2>4 DEF BlockIn
<1> QED BY <1>2, <1>11, <1>13 DEF Phase, sender

(* Whatever Ymodem_Receive reads, in a transfer that it does not break off.*)
LEMMA ReceivePhase ==
  ASSUME Basic, Phase, Placed, Receive_Packet, ~interrupted'
  PROVE  Phase' /\ Placed'
<1> DEFINE p == Head(line)
<1>0. /\ SenderTypes /\ ReceiverTypes /\ replies \in Seq(Replies) /\ line \in Seq(Packets)
      /\ Cancelled /\ (stage = "idle" => replies = <<>>)
  BY BasicParts
<1>1. /\ running /\ line # <<>> /\ line' = Tail(line) /\ UNCHANGED sender
      /\ \/ ReceiveStop(p) \/ ReceiveEOT(p)
         \/ p.kind \in {"header", "data", "empty"} /\ InSequence(p) /\ (ReceiveHeader(p) \/ ReceiveBlock(p))
         \/ p.kind \in {"header", "data", "empty"} /\ OutOfSequence(p)
  BY DEF Receive_Packet
<1>2. p \in Packets /\ (p.kind = "CA" => line' \in Seq(Typed) /\ stage = "idle")
  BY <1>0, <1>1, LinePop DEF sender
<1>3. /\ Header.kind = "header" /\ Block.kind = "data" /\ Header.seq = 0
      /\ Block.seq = blkNumber % SEQMOD
  BY DEF Header, Block
<1>4. /\ \A q \in Earlier : q.kind \in {"header", "data"} /\ q.seq = (blkNumber - 1) % SEQMOD
      /\ \A q \in LastBlock : q.kind = "data" /\ q.seq = blkNumber % SEQMOD
      /\ \A q \in Ended : q.kind \in {"EOT", "empty"}
      /\ \A q \in Typed : q.kind \in {"CA", "a"}
  BY DEF Earlier, LastBlock, Ended, Typed
<1>5. blkNumber \in Nat /\ packets_received \in Nat
  BY <1>0, Numbers DEF ReceiverTypes
<1>6. CASE ReceiveStop(p)
  <2>1. p.kind = "CA"
    BY <1>6 DEF ReceiveStop, BreakOff
  <2>2. /\ running' = FALSE /\ result' = 0
        /\ UNCHANGED <<packets_received, rSize, FlashDestination, image, gotAll>>
    BY <1>6, <2>1 DEF ReceiveStop, Return
  <2>3. line' \in Seq(Typed \cup Ended) /\ stage' = "idle"
    BY <1>1, <1>2, <2>1, QueueFacts DEF sender
  <2>4. Closing'
    BY <2>2, <2>3 DEF Closing
  <2> QED BY <2>2, <2>3, <2>4 DEF Phase, Placed
<1>7. CASE p.kind \in {"header", "data", "empty"} /\ OutOfSequence(p)
  <2>1. /\ UNCHANGED <<file, size, blkNumber, running, packets_received, rSize, FlashDestination,
                       gotAll, result, image, stage>>
        /\ Reply(<<"NAK">>)
    BY <1>1, <1>7 DEF OutOfSequence, sender
  <2>2. LineSame /\ RepliesSame
    BY <1>0, <1>1, <2>1, NakGiven DEF LineSame
  <2> QED BY <1>0, <2>1, <2>2, PhaseKept DEF Placed
<1>8. CASE ReceiveEOT(p)
  <2>1. /\ p.kind = "EOT" /\ packets_received' = 0
        /\ UNCHANGED <<running, result, rSize, FlashDestination, image, gotAll, stage, file>>
    BY <1>1, <1>8 DEF ReceiveEOT, sender
  <2>2. Placed'
    BY <2>1 DEF Placed
  <2>3. ~HeaderOut /\ ~HeaderIn /\ ~BlockOut /\ ~BlockIn
    BY <1>1, <1>3, <1>4, <2>1, PopFacts DEF HeaderOut, HeaderIn, BlockOut, BlockIn
  <2>4. CASE stage \in {"idle", "eot"} /\ EotOut
    <3>1. /\ line \in Seq(Typed \cup LastBlock \cup Ended) /\ NeverAfter(line, Ended, LastBlock)
          /\ running /\ rSize = file /\ FlashDestination >= file /\ gotAll
      BY <2>4 DEF EotOut
    <3>2. p \in Ended
      BY <1>2, <2>1, PacketKinds
    <3>3. line' \in Seq((Typed \cup LastBlock \cup Ended) \ LastBlock)
      BY <1>1, <3>1, <3>2, OrderPop
    <3>4. line' \in Seq(Typed \cup Ended)
      BY <3>3, QueueFacts
    <3>5. Closing'
      BY <2>1, <3>1, <3>4 DEF Closing
    <3> QED BY <2>1, <2>2, <2>4, <3>5 DEF Phase
  <2>5. CASE stage \in {"idle", "eot", "close", "final"} /\ Closing
    <3>1. line' \in Seq(Typed \cup Ended)
      BY <1>1, <2>5, PopFacts DEF Closing
    <3>2. Closing'
      BY <1>1, <2>1, <2>5, <3>1 DEF Closing
    <3> QED BY <2>1, <2>2, <2>5, <3>2 DEF Phase
  <2> QED BY <2>2, <2>3, <2>4, <2>5 DEF Phase
<1>9. CASE p.kind \in {"header", "data", "empty"} /\ InSequence(p) /\ (ReceiveHeader(p) \/ ReceiveBlock(p))
  <2>0. p.seq = packets_received % SEQMOD
    BY <1>9 DEF InSequence
  <2>1. CASE stage \in {"idle", "header"} /\ HeaderOut
    <3>1. p = Header
      BY <1>1, <1>4, <1>9, <2>1, PopFacts DEF HeaderOut
    <3> QED BY <2>1, <3>1, HeaderReceived DEF Placed
  <2>2. CASE stage \in {"idle", "header"} /\ HeaderIn
    <3>1. p = Header /\ packets_received = 1
      BY <1>1, <1>4, <1>9, <2>2, PopFacts DEF HeaderIn
    <3>2. 0 % SEQMOD # (0 + 1) % SEQMOD
      BY SeqnoTells
    <3> QED BY <1>3, <2>0, <3>1, <3>2, FirstSeqno
  <2>3. CASE stage \in {"idle", "block"} /\ BlockOut
    <3>1. p \in Earlier \cup {Block} /\ blkNumber > 0 /\ packets_received = blkNumber
      BY <1>1, <1>4, <1>9, <2>3, PopFacts DEF BlockOut
    <3>2. p \notin Earlier
      <4>1. blkNumber - 1 \in Nat /\ (blkNumber - 1) + 1 = blkNumber
        BY <1>5, <3>1
      <4>2. (blkNumber - 1) % SEQMOD # blkNumber % SEQMOD
        BY <4>1, SeqnoTells
      <4> QED BY <1>4, <2>0, <3>1, <4>2
    <3> QED BY <2>3, <3>1, <3>2, BlockReceived
  <2>4. CASE stage \in {"idle", "block"} /\ BlockIn
    <3>1. p = Block /\ packets_received = blkNumber + 1
      BY <1>1, <1>4, <1>9, <2>4, PopFacts DEF BlockIn
    <3>2. blkNumber % SEQMOD # (blkNumber + 1) % SEQMOD
      BY <1>5, SeqnoTells
    <3> QED BY <1>3, <2>0, <3>1, <3>2
  <2>5. CASE stage \in {"idle", "eot"} /\ EotOut
    <3>1. p \in LastBlock \cup Ended /\ packets_received = blkNumber + 1
      BY <1>1, <1>4, <1>9, <2>5, PopFacts DEF EotOut
    <3>2. p.kind = "data" /\ packets_received # 0
      BY <1>4, <1>5, <1>9, <3>1 DEF ReceiveHeader, ReceiveBlock, ExpectHeader
    <3>3. blkNumber % SEQMOD # (blkNumber + 1) % SEQMOD
      BY <1>5, SeqnoTells
    <3> QED BY <1>4, <2>0, <3>1, <3>2, <3>3
  <2>6. CASE stage \in {"idle", "eot", "close", "final"} /\ Closing
    <3>1. line \in Seq(Typed \cup Ended) /\ packets_received = 0
      BY <1>1, <2>6 DEF Closing
    <3>2. line' \in Seq(Typed \cup Ended) /\ p \in Typed \cup Ended
      BY <1>1, <3>1, PopFacts
    <3>3. p.kind = "empty"
      BY <1>4, <1>9, <3>2
    <3>4. ReceiveHeader(p) /\ Sizes(p) = {}
      BY <1>9, <3>1, <3>3 DEF ReceiveBlock, ExpectHeader, Sizes
    <3>5. /\ running' = FALSE /\ result' = rSize /\ UNCHANGED <<rSize, FlashDestination, image, gotAll>>
      BY <3>4 DEF ReceiveHeader, Return
    <3>6. UNCHANGED <<stage, file>>
      BY <1>1 DEF sender
    <3>7. rSize = 0 \/ (rSize = file /\ FlashDestination >= file)
      BY <1>1, <2>6 DEF Closing
    <3>8. Closing'
      BY <2>6, <3>2, <3>5, <3>6, <3>7 DEF Closing
    <3> QED BY <2>6, <3>5, <3>6, <3>8 DEF Phase, Placed
  <2> QED BY <2>1, <2>2, <2>3, <2>4, <2>5, <2>6 DEF Phase
<1> QED BY <1>1, <1>6, <1>7, <1>8, <1>9

LEMMA InitPhase == Init => Phase /\ Placed
<1> SUFFICES ASSUME Init PROVE Phase /\ Placed
  OBVIOUS
<1>1. /\ stage = "idle" /\ file = 0 /\ line = <<>> /\ running /\ packets_received = 0
      /\ rSize = 0 /\ FlashDestination = 0 /\ image = <<>>
  BY DEF Init
<1>2. Closing
  BY <1>1, EmptyQueue DEF Closing
<1>3. Placed
  BY <1>1 DEF Placed
<1> QED BY <1>1, <1>2, <1>3 DEF Phase

(* A transfer begins before a session: nothing of an earlier one is left.  *)
LEMMA TransmitPhase ==
  ASSUME Basic, NEW f \in Files, Transmit(f)
  PROVE  Phase' /\ Placed'
<1>0. SenderTypes /\ ReceiverTypes /\ FreshSession /\ (stage = "idle" => replies = <<>>)
  BY BasicParts
<1>1. /\ stage = "idle" /\ running /\ session_begin = Fresh /\ line = <<>>
      /\ stage' = "header" /\ file' = f /\ size' = f /\ blkNumber' = 1
      /\ UNCHANGED <<line, replies, running, packets_received, rSize, FlashDestination, image>>
  BY DEF Transmit, session
<1>2. packets_received = 0 /\ rSize = 0 /\ FlashDestination = 0 /\ image = <<>>
  BY <1>0, <1>1 DEF FreshSession
<1>3. NoAck' /\ line' \in Seq(Typed \cup {Header'})
  BY <1>0, <1>1, EmptyQueue DEF NoAck
<1>4. HeaderOut'
  BY <1>1, <1>2, <1>3 DEF HeaderOut
<1>5. Placed'
  BY <1>1, <1>2 DEF Placed
<1> QED BY <1>1, <1>4, <1>5 DEF Phase

(* The session is over: by the last packet, or because the sender stopped. *)
LEMMA RestartPhase ==
  ASSUME Phase, SerialDownload
  PROVE  Phase' /\ Placed'
<1>1. /\ ~running /\ running' = TRUE /\ packets_received' = 0 /\ rSize' = 0 /\ FlashDestination' = 0
      /\ image' = <<>> /\ UNCHANGED <<stage, file, line, gotAll>>
  BY DEF SerialDownload, sender
<1>2. Closing /\ stage \in {"idle", "eot", "close", "final"}
  BY <1>1 DEF Phase, HeaderOut, HeaderIn, BlockOut, BlockIn, EotOut
<1>3. Closing'
  BY <1>1, <1>2 DEF Closing
<1>4. Placed'
  BY <1>1 DEF Placed
<1> QED BY <1>1, <1>2, <1>3, <1>4 DEF Phase

LEMMA TimeoutPhase ==
  ASSUME Phase, Placed, SenderTypes, line \in Seq(Packets), replies \in Seq(Replies), ReceiveTimeout
  PROVE  Phase' /\ Placed'
<1>1. /\ line = <<>> /\ stage = "idle"
      /\ UNCHANGED <<stage, file, size, blkNumber, line, replies, packets_received, rSize, FlashDestination,
                     image, gotAll>>
  BY DEF ReceiveTimeout, sender
<1>2. CASE errors + 1 > MAX_ERRORS
  <2>1. running' = FALSE /\ result' = 0
    BY <1>2 DEF ReceiveTimeout, Return, GaveUp
  <2>2. Closing'
    BY <1>1, <2>1, EmptyQueue DEF Closing
  <2> QED BY <1>1, <2>2 DEF Phase, Placed
<1>3. CASE ~(errors + 1 > MAX_ERRORS)
  <2>1. running' = running /\ result' = result
    BY <1>3 DEF ReceiveTimeout
  <2> QED BY <1>1, <2>1, PhaseKept DEF Placed, LineSame, RepliesSame
<1> QED BY <1>2, <1>3

LEMMA NextPhase ==
  ASSUME IInv, [Next]_vars, ~interrupted'
  PROVE  Phase' /\ Placed'
<1>0. /\ Basic /\ SenderTypes /\ replies \in Seq(Replies) /\ line \in Seq(Packets)
      /\ stage # "idle" => file \in Files
  BY BasicParts DEF IInv
<1>1. CASE \E f \in Files : Transmit(f)
  BY <1>0, <1>1, TransmitPhase
<1>2. CASE ~\E f \in Files : Transmit(f)
  <2>0. ~interrupted
    <3> SUFFICES ASSUME interrupted PROVE FALSE
      OBVIOUS
    <3>1. interrupted' = interrupted \/ interrupted' = TRUE
      <4>1. ASSUME Receive_Packet PROVE interrupted' = interrupted \/ interrupted' = TRUE
        <5> DEFINE p == Head(line)
        <5>1. ReceiveStop(p) \/ ReceiveEOT(p) \/ ReceiveHeader(p) \/ ReceiveBlock(p) \/ OutOfSequence(p)
          BY <4>1 DEF Receive_Packet
        <5> HIDE DEF p
        <5>2. \A r : BreakOff(r) => interrupted' = TRUE
          BY DEF BreakOff
        <5>3. ReceiveStop(p) => interrupted' = interrupted \/ interrupted' = TRUE
          BY <5>2 DEF ReceiveStop
        <5>4. ReceiveHeader(p) => interrupted' = interrupted \/ interrupted' = TRUE
          BY <5>2 DEF ReceiveHeader
        <5>5. ReceiveBlock(p) => interrupted' = interrupted \/ interrupted' = TRUE
          BY <5>2 DEF ReceiveBlock
        <5>6. ReceiveEOT(p) \/ OutOfSequence(p) => interrupted' = interrupted
          BY DEF ReceiveEOT, OutOfSequence
        <5> QED BY <5>1, <5>3, <5>4, <5>5, <5>6
      <4>2. ASSUME ~Receive_Packet PROVE interrupted' = interrupted
        BY <1>2, <4>2 DEF Next, vars, SendPacket, GetReply, NoReply, ReceiveTimeout, SerialDownload,
                          LosePacket, LoseReply, Type
      <4> QED BY <4>1, <4>2
    <3> QED BY <3>1
  <2>1. Phase /\ Placed
    BY <2>0 DEF IInv
  <2>2. CASE SendPacket
    BY <1>0, <2>1, <2>2, SendPhase DEF SendPacket, session, Placed
  <2>3. CASE GetReply
    BY <1>0, <2>1, <2>3, ReplyPhase DEF GetReply, session, Placed
  <2>4. CASE NoReply
    <3>1. /\ UNCHANGED <<file, size, blkNumber, line, running, packets_received, rSize, FlashDestination,
                         gotAll, result, image>>
          /\ stage' = stage \/ stage' = "idle"
          /\ replies' = <<>>
      BY <1>0, <2>4, TryTyped DEF NoReply, Stop, session
    <3> QED BY <1>0, <2>1, <3>1, PhaseKept DEF Placed, LineSame, RepliesSame
  <2>5. CASE Receive_Packet
    BY <1>0, <2>1, <2>5, ReceivePhase
  <2>6. CASE ReceiveTimeout
    BY <1>0, <2>1, <2>6, TimeoutPhase
  <2>7. CASE SerialDownload
    BY <2>1, <2>7, RestartPhase
  <2>8. CASE LosePacket
    <3>1. /\ UNCHANGED <<file, size, blkNumber, running, packets_received, rSize, FlashDestination,
                         gotAll, result, image, stage, replies>>
          /\ line # <<>> /\ line' = Tail(line)
      BY <2>8 DEF LosePacket, session, sender
    <3> QED BY <1>0, <2>1, <3>1, PhaseKept DEF Placed, LineSame, RepliesSame
  <2>9. CASE LoseReply
    <3>1. /\ UNCHANGED <<file, size, blkNumber, running, packets_received, rSize, FlashDestination,
                         gotAll, result, image, stage, line>>
          /\ replies # <<>> /\ replies' = Tail(replies)
      BY <2>9 DEF LoseReply, session, sender
    <3> QED BY <1>0, <2>1, <3>1, PhaseKept DEF Placed, LineSame, RepliesSame
  <2>10. CASE \E k \in {"CA", "a"} : Type(k)
    <3>1. PICK k \in {"CA", "a"} : Type(k)
      BY <2>10
    <3>2. /\ UNCHANGED <<file, size, blkNumber, running, packets_received, rSize, FlashDestination,
                         gotAll, result, image>>
          /\ \/ stage' = stage /\ replies' = replies
             \/ stage' = "idle" /\ replies' = <<>>
          /\ line' = Append(line, [kind |-> k])
      BY <3>1 DEF Type, Stop, session, sender
    <3>3. [kind |-> k] \in Typed
      BY DEF Typed
    <3>4. LineSame /\ RepliesSame
      BY <3>2, <3>3 DEF LineSame, RepliesSame
    <3> QED BY <1>0, <2>1, <3>2, <3>4, PhaseKept DEF Placed
  <2>11. CASE UNCHANGED vars
    <3>1. UNCHANGED <<file, size, blkNumber, running, packets_received, rSize, FlashDestination,
                      gotAll, result, image, stage, line, replies>>
      BY <2>11 DEF vars, session, sender
    <3> QED BY <1>0, <2>1, <3>1, PhaseKept DEF Placed, LineSame, RepliesSame
  <2> QED BY <1>2, <2>2, <2>3, <2>4, <2>5, <2>6, <2>7, <2>8, <2>9, <2>10, <2>11 DEF Next
<1> QED BY <1>1, <1>2

-----------------------------------------------------------------------------
LEMMA InitIInv == Init => IInv
BY InitBasic, InitPhase DEF IInv

LEMMA NextIInv == IInv /\ [Next]_vars => IInv'
<1> SUFFICES ASSUME IInv, [Next]_vars PROVE IInv'
  OBVIOUS
<1>1. Basic'
  BY NextBasic DEF IInv
<1>2. ~interrupted' => Phase' /\ Placed'
  BY NextPhase
<1> QED BY <1>1, <1>2 DEF IInv

(* What holds of every state of a download: which packets and answers can  *)
(* be under way at each stage of Ymodem_Transmit, and of which packets the *)
(* heads are then in the flash.                                            *)
THEOREM DownloadInvariant == Spec => []IInv
<1>1. Init => IInv
  BY InitIInv
<1>2. IInv /\ [Next]_vars => IInv'
  BY NextIInv
<1> QED BY <1>1, <1>2, PTL DEF Spec

(* The variables of both programs keep their types, the counters of errors *)
(* their limits, and the sequence numbers on the line their width.         *)
THEOREM DownloadTypes == Spec => []TypeOK
<1>1. IInv => TypeOK
  BY DEF IInv, Basic
<1> QED BY <1>1, InitIInv, NextIInv, PTL DEF Spec

(* Ymodem_Receive writes the head of every packet once and at the place of *)
(* the packet in the file, and nothing between one head and the next,      *)
(* whatever is lost and however often it is sent again, and however often  *)
(* the sequence number wraps, in a transfer that it does not break off.    *)
THEOREM ImageIsExact == Spec => []ImageExact
<1>1. ASSUME IInv PROVE ImageExact
  <2> SUFFICES ASSUME ~interrupted, NEW i \in 1 .. Len(image)
               PROVE  /\ image[i].dest = image[i].off
                      /\ i > 1 => /\ image[i].off = image[i - 1].off + image[i - 1].packet
                                  /\ image[i - 1].dest + image[i - 1].stored < image[i].dest
    BY DEF ImageExact
  <2>1. /\ \A k \in 1 .. Len(image) :
              /\ image[k].dest = image[k].off
              /\ k > 1 => image[k].off = image[k - 1].off + image[k - 1].packet
        /\ ReceiverTypes
    BY <1>1, BasicParts DEF IInv, Placed
  <2>2. ASSUME i > 1
        PROVE  image[i - 1].dest + image[i - 1].stored < image[i].dest
    <3> DEFINE h == image[i - 1]
    <3>1. i - 1 \in 1 .. Len(image) /\ image[i].dest = h.off + h.packet /\ h.dest = h.off
      <4>1. i - 1 \in 1 .. Len(image)
        BY <2>1, <2>2, LenProperties DEF ReceiverTypes
      <4> QED BY <2>1, <2>2, <4>1
    <3>2. h \in [dest : Nat, off : Nat, packet : {PACKET_SIZE, PACKET_1K_SIZE}, stored : {WRITE_SIZE}]
      BY <2>1, <3>1, ElementOfSeq DEF ReceiverTypes
    <3> HIDE DEF h
    <3>3. h.off \in Nat /\ h.stored = WRITE_SIZE /\ h.packet \in {PACKET_SIZE, PACKET_1K_SIZE}
      BY <3>2
    <3>4. h.off + WRITE_SIZE < h.off + h.packet
      BY <3>3, DownloadAssumption
    <3> QED BY <3>1, <3>3, <3>4 DEF h
  <2> QED BY <2>1, <2>2
<1> QED BY <1>1, InitIInv, NextIInv, PTL DEF Spec

(* The size that Ymodem_Receive reports, and SerialDownload announces, is  *)
(* that of the file, and every packet of it has been received, of which    *)
(* the head is in the flash.                                               *)
THEOREM DownloadIsComplete == Spec => []DownloadComplete
<1>1. ASSUME IInv PROVE DownloadComplete
  <2> SUFFICES ASSUME ~running, result > 0, ~interrupted PROVE rSize = file /\ AllReceived(image)
    BY DEF DownloadComplete
  <2>1. Closing /\ Placed
    BY <1>1 DEF IInv, Phase, HeaderOut, HeaderIn, BlockOut, BlockIn, EotOut
  <2>2. rSize = file /\ file > 0 /\ FlashDestination >= file
    BY <2>1 DEF Closing
  <2>3. file \in Nat /\ Len(image) \in Nat
    <3>1. SenderTypes /\ ReceiverTypes
      BY <1>1, BasicParts DEF IInv
    <3> QED BY <3>1, Numbers, LenProperties DEF ReceiverTypes
  <2>4. Len(image) > 0 /\ FlashDestination = image[Len(image)].off + image[Len(image)].packet
    BY <2>1, <2>2, <2>3 DEF Placed
  <2> QED BY <2>2, <2>4 DEF AllReceived
<1> QED BY <1>1, InitIInv, NextIInv, PTL DEF Spec

(* Ymodem_Transmit comes to the end of the file, and to its closing packet,*)
(* only when the receiver has received every packet of the file.           *)
THEOREM SenderIsRight == Spec => []SenderKnows
<1>1. IInv => SenderKnows
  BY DEF IInv, SenderKnows, Phase, EotOut, Closing
<1> QED BY <1>1, InitIInv, NextIInv, PTL DEF Spec
=============================================================================

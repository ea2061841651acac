------------------------------- MODULE Ymodem -------------------------------
(***************************************************************************)
(* A file download over the serial line: Ymodem_Receive, as SerialDownload *)
(* calls it over and over from key_task, and at the other end a sender     *)
(* that runs the repository's own Ymodem_Transmit.                         *)
(*                                                                         *)
(* Packets and replies travel in order but may be lost, and the sender may *)
(* give up waiting for a reply that is still to come: its wait is shorter  *)
(* than the erasing of a flash sector.  The receiver's wait (0x100000      *)
(* polls of the line) is longer than all the sender's tries of one packet  *)
(* (10 times 100000 polls), so it ends only when the sender has stopped.   *)
(*                                                                         *)
(* Sizes and offsets count pieces of 8 bytes; a packet carries the offset  *)
(* of its data in the file in place of the data.  Of each packet that is   *)
(* received only the first 8 bytes are written to the flash: a download    *)
(* does not store the file (ymodem.c:225).                                 *)
(***************************************************************************)
EXTENDS Integers, Sequences

CONSTANTS
  SEQMOD,          \* 256, the sequence numbers
  PACKET_SIZE,     \* a short packet: 16
  PACKET_1K_SIZE,  \* a long packet: 128
  WRITE_SIZE,      \* what sf_WriteBuffer is told to write of it: 1
  FLASH_SIZE,      \* a file has to be smaller
  MAX_ERRORS,      \* errors the receiver tolerates in a row
  TRIES,           \* 0x0A, errors at which the sender gives up
  LastBlk,         \* FLASH_IMAGE_SIZE / 1024
  Files,           \* sizes of the files sent
  Lossy,           \* the sender's stages in which a reply may be lost
  MaxFiles, MaxLost, MaxTyped   \* bounds on files sent, losses, keys pressed

ASSUME DownloadAssumption ==
  /\ SEQMOD \in Nat \ {0, 1} /\ PACKET_SIZE \in Nat /\ PACKET_1K_SIZE \in Nat
  /\ WRITE_SIZE \in 1 .. PACKET_SIZE - 1 /\ PACKET_SIZE < PACKET_1K_SIZE
  /\ FLASH_SIZE \in Nat /\ MAX_ERRORS \in Nat /\ TRIES \in Nat \ {0} /\ LastBlk \in Nat \ {0}
  /\ MaxFiles \in Nat /\ MaxLost \in Nat /\ MaxTyped \in Nat
  /\ Files \subseteq 1 .. FLASH_SIZE - 1

VARIABLES
  (* Ymodem_Transmit *)
  stage, waiting, file, size, blkNumber, tErrors,
  (* the line in both directions *)
  line, replies,
  (* Ymodem_Receive *)
  running, packets_received, session_begin, errors, rSize, FlashDestination,
  (* history: what this session wrote to the flash, as the place, the      *)
  (* offset in the file, the length of the packet and what was stored of   *)
  (* it; the result returned; whether all packets of the file being sent   *)
  (* were received; and whether the receiver broke off in the middle of    *)
  (* the transfer                                                          *)
  image, result, gotAll, interrupted,
  files, lost, typed

sender == <<stage, waiting, file, size, blkNumber, tErrors>>
session == <<packets_received, session_begin, errors, rSize, FlashDestination, image>>
counts == <<files, lost, typed>>
vars == <<sender, line, replies, running, session, result, gotAll, interrupted, counts>>

Fresh == 0
Running == 1

Init ==
  /\ stage = "idle" /\ waiting = FALSE /\ file = 0 /\ size = 0 /\ blkNumber = 0 /\ tErrors = 0
  /\ line = <<>> /\ replies = <<>>
  /\ running = TRUE /\ packets_received = 0 /\ session_begin = Fresh /\ errors = 0
  /\ rSize = 0 /\ FlashDestination = 0 /\ image = <<>>
  /\ result = 0 /\ gotAll = FALSE /\ interrupted = FALSE
  /\ files = 0 /\ lost = 0 /\ typed = 0

-----------------------------------------------------------------------------
(* Ymodem_Transmit *)

pktSize == IF size >= PACKET_1K_SIZE THEN PACKET_1K_SIZE ELSE PACKET_SIZE

Packet ==
  CASE stage = "header" -> [kind |-> "header", seq |-> 0, size |-> file]
    [] stage = "block"  -> [kind |-> "data", seq |-> blkNumber % SEQMOD, off |-> file - size, len |-> pktSize]
    [] stage = "close"  -> [kind |-> "empty", seq |-> 0]
    [] OTHER            -> [kind |-> "EOT"]

\* The operator starts a transfer when the receiver is waiting for one.
Transmit(f) ==
  /\ stage = "idle" /\ files < MaxFiles /\ files' = files + 1
  /\ running /\ session_begin = Fresh /\ line = <<>>
  /\ stage' = "header" /\ waiting' = FALSE /\ file' = f /\ size' = f /\ blkNumber' = 1 /\ tErrors' = 0
  /\ gotAll' = FALSE /\ interrupted' = FALSE
  /\ UNCHANGED <<line, replies, running, session, result, lost, typed>>

SendPacket ==
  /\ stage # "idle" /\ ~waiting /\ waiting' = TRUE
  /\ line' = Append(line, Packet)
  /\ UNCHANGED <<stage, file, size, blkNumber, tErrors, replies, running, session, result, gotAll, interrupted, counts>>

\* Ymodem_Transmit returns; what is said to the terminal after that is not read.
Stop ==
  /\ stage' = "idle" /\ replies' = <<>>
  /\ UNCHANGED <<file, size, blkNumber, tErrors>>

Begin(s) == stage' = s /\ tErrors' = 0 /\ UNCHANGED file

\* Mutant: the next block is sent whatever the receiver answered.
Accepted(r) == r \in {"ACK", "NAK"}
\* Mutant: errors are forgotten.
ErrorsForgotten == tErrors

ErrorCounted == tErrors + 1

Acknowledged(r) == r = "ACK"

TriedEnough == ErrorCounted >= TRIES

TryAgain ==
  IF TriedEnough THEN Stop
  ELSE tErrors' = ErrorCounted /\ UNCHANGED <<stage, file, size, blkNumber>>

\* The reply to a header or to the closing packet; another reply than ACK is no error.
PacketAnswered ==
  /\ stage \in {"header", "close"}
  /\ IF Acknowledged(Head(replies))
     THEN /\ IF stage = "close" THEN stage' = "final" /\ UNCHANGED <<tErrors, file>> ELSE Begin("block")
          /\ UNCHANGED <<size, blkNumber>>
     ELSE UNCHANGED <<stage, file, size, blkNumber, tErrors>>
  /\ replies' = Tail(replies)

BlockAnswered ==
  /\ stage = "block"
  /\ \/ /\ Acknowledged(Head(replies)) /\ size > pktSize /\ blkNumber # LastBlk
        /\ size' = size - pktSize /\ blkNumber' = blkNumber + 1
        /\ Begin("block") /\ replies' = Tail(replies)
     \/ /\ Acknowledged(Head(replies)) /\ size > pktSize /\ blkNumber = LastBlk
        /\ Stop
     \/ /\ Acknowledged(Head(replies)) /\ size <= pktSize
        /\ size' = 0 /\ UNCHANGED blkNumber
        /\ Begin("eot") /\ replies' = Tail(replies)
     \/ /\ ~Acknowledged(Head(replies)) /\ TryAgain
        /\ (stage' # "idle" => replies' = Tail(replies))

EotAnswered ==
  /\ stage = "eot"
  /\ IF Acknowledged(Head(replies))
     THEN Begin("close") /\ replies' = Tail(replies) /\ UNCHANGED <<size, blkNumber>>
     ELSE TryAgain /\ (stage' # "idle" => replies' = Tail(replies))

\* ackReceived is still set: the last EOT is sent once, whatever the answer.
FinalAnswered == stage = "final" /\ Stop

GetReply ==
  /\ waiting /\ replies # <<>> /\ waiting' = FALSE
  /\ PacketAnswered \/ BlockAnswered \/ EotAnswered \/ FinalAnswered
  /\ UNCHANGED <<line, running, session, result, gotAll, interrupted, counts>>

\* Receive_Byte runs out before an answer comes.
NoReply ==
  /\ waiting /\ replies = <<>> /\ waiting' = FALSE
  /\ IF stage = "final" THEN Stop
     ELSE TryAgain /\ UNCHANGED replies
  /\ UNCHANGED <<line, running, session, result, gotAll, interrupted, counts>>

-----------------------------------------------------------------------------
(* Ymodem_Receive *)

\* Replies reach the sender while it is transmitting.
Reply(s) == replies' = IF stage = "idle" THEN replies ELSE replies \o s

Return(r) == running' = FALSE /\ result' = r
BreakOff(r) == Return(r) /\ Reply(<<"CA", "CA">>) /\ interrupted' = TRUE

\* Mutant: a retransmitted packet is accepted again.
InSequenceOrAgain(p) == p.seq \in {packets_received % SEQMOD, (packets_received - 1) % SEQMOD}

InSequence(p) == p.seq = packets_received % SEQMOD

ExpectHeader == packets_received = 0

\* The size that a header announces; a data packet taken for one may hold any text,
\* also none, in which case it is an empty header.
Sizes(p) == IF p.kind = "header" THEN {p.size} ELSE IF p.kind = "empty" THEN {} ELSE {0, 1, FLASH_SIZE}

Counted == packets_received' = packets_received + 1 /\ session_begin' = Running

ReceiveHeader(p) ==
  /\ ExpectHeader /\ errors' = 0
  /\ \/ \E s \in Sizes(p) :
          /\ rSize' = s
          /\ IF s > FLASH_SIZE - 1
             THEN BreakOff(-1) /\ UNCHANGED <<packets_received, session_begin>>
             ELSE Counted /\ Reply(<<"ACK", "C">>) /\ UNCHANGED <<running, result, interrupted>>
     \/ /\ p.kind # "header"
        /\ Return(rSize) /\ Reply(<<"ACK">>) /\ UNCHANGED <<packets_received, session_begin, rSize, interrupted>>
  /\ UNCHANGED <<FlashDestination, image, gotAll>>

AllReceived(im) == Len(im) > 0 /\ im[Len(im)].off + im[Len(im)].packet >= file

\* The packet is copied to the start of the buffer and the first WRITE_SIZE of it
\* written, but FlashDestination goes on by the packet.  sf_WriteBuffer may fail.
ReceiveBlock(p) ==
  /\ ~ExpectHeader /\ p.kind = "data" /\ errors' = 0
  /\ \/ /\ image' = Append(image, [dest |-> FlashDestination, off |-> p.off, packet |-> p.len, stored |-> WRITE_SIZE])
        /\ FlashDestination' = FlashDestination + p.len
        /\ gotAll' = (gotAll \/ AllReceived(image'))
        /\ Counted /\ Reply(<<"ACK">>) /\ UNCHANGED <<running, result, interrupted>>
     \/ /\ BreakOff(-2)
        /\ UNCHANGED <<packets_received, session_begin, FlashDestination, image, gotAll>>
  /\ UNCHANGED rSize

ReceiveEOT(p) ==
  /\ p.kind = "EOT"
  /\ errors' = 0 /\ packets_received' = 0 /\ Reply(<<"ACK">>)
  /\ UNCHANGED <<running, result, session_begin, rSize, FlashDestination, image, gotAll, interrupted>>

OutOfSequence(p) ==
  /\ ~InSequence(p)
  /\ errors' = 0 /\ Reply(<<"NAK">>)
  /\ UNCHANGED <<running, result, packets_received, session_begin, rSize, FlashDestination, image, gotAll, interrupted>>

\* CA CA of the sender, or the operator's 'a'.
ReceiveStop(p) ==
  /\ p.kind \in {"CA", "a"}
  /\ IF p.kind = "CA" THEN Return(0) /\ Reply(<<"ACK">>) /\ errors' = 0 /\ UNCHANGED interrupted
                      ELSE BreakOff(-3) /\ UNCHANGED errors
  /\ UNCHANGED <<packets_received, session_begin, rSize, FlashDestination, image, gotAll>>

Receive_Packet ==
  /\ running /\ line # <<>> /\ line' = Tail(line)
  /\ LET p == Head(line)
     IN  \/ ReceiveStop(p) \/ ReceiveEOT(p)
         \/ p.kind \in {"header", "data", "empty"} /\ InSequence(p) /\ (ReceiveHeader(p) \/ ReceiveBlock(p))
         \/ p.kind \in {"header", "data", "empty"} /\ OutOfSequence(p)
  /\ UNCHANGED <<sender, counts>>

\* Mutant: too many errors end the session like a success.
GaveUpSize == rSize

GaveUp == 0

\* The line is silent.  Before a session this changes nothing but asks again with 'C'.
ReceiveTimeout ==
  /\ running /\ line = <<>> /\ stage = "idle" /\ session_begin = Running
  /\ IF errors + 1 > MAX_ERRORS THEN Return(GaveUp) /\ UNCHANGED errors
                                ELSE errors' = errors + 1 /\ UNCHANGED <<running, result>>
  /\ UNCHANGED <<sender, line, replies, packets_received, session_begin, rSize, FlashDestination, image, gotAll, interrupted, counts>>

\* SerialDownload prints the outcome on the same line, and key_task calls it again.
SerialDownload ==
  /\ ~running /\ running' = TRUE /\ Reply(<<"text">>)
  /\ packets_received' = 0 /\ session_begin' = Fresh /\ errors' = 0
  /\ rSize' = 0 /\ FlashDestination' = 0 /\ image' = <<>>
  /\ UNCHANGED <<sender, line, result, gotAll, interrupted, counts>>

-----------------------------------------------------------------------------
(* The line and the operator *)
LosePacket ==
  /\ line # <<>> /\ lost < MaxLost /\ lost' = lost + 1 /\ line' = Tail(line)
  /\ UNCHANGED <<sender, replies, running, session, result, gotAll, interrupted, files, typed>>

LoseReply ==
  /\ replies # <<>> /\ stage \in Lossy /\ lost < MaxLost /\ lost' = lost + 1 /\ replies' = Tail(replies)
  /\ UNCHANGED <<sender, line, running, session, result, gotAll, interrupted, files, typed>>

\* The operator types 'a', or cancels the transfer at the sending end.
Type(k) ==
  /\ typed < MaxTyped /\ typed' = typed + 1 /\ line' = Append(line, [kind |-> k])
  /\ IF k = "CA" THEN Stop /\ waiting' = FALSE ELSE UNCHANGED <<sender, replies>>
  /\ UNCHANGED <<running, session, result, gotAll, interrupted, files, lost>>

Next ==
  \/ \E f \in Files : Transmit(f)
  \/ SendPacket \/ GetReply \/ NoReply
  \/ Receive_Packet \/ ReceiveTimeout \/ SerialDownload
  \/ LosePacket \/ LoseReply \/ \E k \in {"CA", "a"} : Type(k)

\* Both programs go on; the line need not lose anything.
Fairness ==
  /\ WF_vars(SendPacket) /\ WF_vars(GetReply \/ NoReply)
  /\ WF_vars(Receive_Packet) /\ WF_vars(ReceiveTimeout) /\ WF_vars(SerialDownload)

Spec == Init /\ [][Next]_vars /\ Fairness

-----------------------------------------------------------------------------
Seqno == 0 .. SEQMOD - 1
Packets ==
  [kind : {"header"}, seq : {0}, size : Files]
    \cup [kind : {"data"}, seq : Seqno, off : Nat, len : {PACKET_SIZE, PACKET_1K_SIZE}]
    \cup [kind : {"empty"}, seq : {0}] \cup [kind : {"EOT", "CA", "a"}]

\* The variables have their types; the error counters stay within their limits.
TypeOK ==
  /\ stage \in {"idle", "header", "block", "eot", "close", "final"} /\ waiting \in BOOLEAN
  /\ file \in Files \cup {0} /\ size \in 0 .. file /\ blkNumber \in 0 .. LastBlk /\ tErrors \in 0 .. TRIES - 1
  /\ line \in Seq(Packets) /\ replies \in Seq({"ACK", "NAK", "C", "CA", "text"})
  /\ running \in BOOLEAN /\ packets_received \in Nat /\ session_begin \in {Fresh, Running}
  /\ errors \in 0 .. MAX_ERRORS /\ rSize \in Files \cup {0, 1, FLASH_SIZE} /\ FlashDestination \in Nat
  /\ image \in Seq([dest : Nat, off : Nat, packet : {PACKET_SIZE, PACKET_1K_SIZE}, stored : {WRITE_SIZE}])
  /\ result \in Int /\ gotAll \in BOOLEAN /\ interrupted \in BOOLEAN
  /\ files \in 0 .. MaxFiles /\ lost \in 0 .. MaxLost /\ typed \in 0 .. MaxTyped

\* Whatever is lost or sent again, the head of every packet is written once and at
\* its own place in the file, also after the sequence number has wrapped around, in a
\* transfer that the receiver has not broken off.  Between the heads nothing is
\* written: the packets are not stored beyond their first WRITE_SIZE.
ImageExact ==
  ~interrupted => \A i \in 1 .. Len(image) :
                    /\ image[i].dest = image[i].off
                    /\ i > 1 => /\ image[i].off = image[i - 1].off + image[i - 1].packet
                                /\ image[i - 1].dest + image[i - 1].stored < image[i].dest

\* When Ymodem_Receive reports a size, which SerialDownload announces as success, it
\* is the size of the file and every packet of it was received, though only its head
\* is in the flash, in a transfer that the receiver has not broken off before.
DownloadComplete == ~running /\ result > 0 /\ ~interrupted => rSize = file /\ AllReceived(image)

\* Ymodem_Transmit goes on to the end of the file only if the receiver has acted on
\* every packet of it: no answer to an earlier packet is taken for the acknowledgement
\* of a later one.
SenderKnows == stage \in {"eot", "close", "final"} /\ ~interrupted => gotAll

\* A session that has begun ends, with whatever result, although the sender may stop
\* in its middle: the receiver, and key_task with it, is not caught in it.
SessionEnds == session_begin = Running ~> session_begin = Fresh

=============================================================================

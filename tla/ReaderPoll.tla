----------------------------- MODULE ReaderPoll -----------------------------
(***************************************************************************)
(* How led_task fetches card events from the card readers over CAN:        *)
(* ReadRunningData (bsp_powerbus.c) on top of Can_SendPBus_Com and         *)
(* Can_ReadPBus_Succeed (bsp_canapp.c).                                    *)
(*                                                                         *)
(* A poll is a frame 0x01 with the reader's logic address.  The reader     *)
(* answers 0x02 (nothing) or two frames, 0x03 0x04 for an inserted card    *)
(* and 0x05 0x06 for a pulled one: the first carries the card number, the  *)
(* second the money on it.  The answer to both is the frame 0x07.  Frames  *)
(* to the controller pass through the three-message receive FIFO of the    *)
(* CAN peripheral, which is read by polling only.                          *)
(*                                                                         *)
(* The readers themselves are not in the repository: they hold one event   *)
(* until it is acknowledged and repeat it on every poll.  How a report     *)
(* reaches the server and where its answers come from is module EventPath; *)
(* here an answer may come at any turn.                                    *)
(***************************************************************************)
EXTENDS Integers, Sequences, FiniteSets

CONSTANTS
  Readers,     (* logic addresses of the readers                        *)
  BUSNUM_SIZE, (* the largest logic address                             *)
  FIFO_DEPTH,  (* messages the receive FIFO holds                       *)
  OVERFLOW,    (* Overflow_Flag: tries of 5 ms in a receive loop        *)
  MaxEvents,   (* bound: card events per reader                         *)
  MaxWire,     (* bound: frames under way                               *)
  Cards,       (* card numbers                                          *)
  Answers,     (* kinds of answers of the server: AA, BB, 55, CC        *)
  Buses        (* the buses considered, see the variable bus            *)

ASSUME ReaderAssumption ==
  /\ BUSNUM_SIZE \in Nat \ {0}
  /\ Readers \subseteq 1 .. BUSNUM_SIZE
  /\ Answers \subseteq {"AA", "BB", "55", "CC"}
  /\ FIFO_DEPTH \in Nat \ {0}
  /\ OVERFLOW \in Nat \ {0}
  /\ MaxEvents \in Nat /\ MaxWire \in Nat \ {0}
  /\ \A b \in Buses : /\ b.lossy \in BOOLEAN /\ b.late \in BOOLEAN
                       /\ b.full \in BOOLEAN
                       /\ b.readers \subseteq Readers
                       /\ b.answers \subseteq Answers
                       /\ b.events \in Nat /\ b.wire \in Nat

Kinds == {"ins", "pull"}

(* The money a card holds is told apart by the event that reports it: the  *)
(* amount in the second frame is the number of the event at its reader.    *)
Amounts == 0 .. MaxEvents

(* NoCard stands for an empty reader, and for bytes of a stack buffer that *)
(* are no card's number.                                                   *)
NoCard == "nocard"

ASSUME CardAssumption == NoCard \notin Cards

VARIABLES
  bus,      (* what may happen in this behaviour: may the bus lose a    *)
            (* frame (CAN_NART: no repetition), may an answer be slower *)
            (* than a try of 5 ms, may led_task find its queue full;    *)
            (* the registered readers, the answers of the server, the   *)
            (* bounds on events and frames under way                    *)
  (* readers (external) *)
  slot,     (* slot[r]: the card in reader r                            *)
  happened, (* happened[r]: the card events of r, in order              *)
  held,     (* held[r]: the last of them is not acknowledged yet        *)
  (* bus *)
  wire,     (* frames of the readers not yet received                   *)
  fifo,     (* CAN_FIFO0                                                *)
  (* led_task *)
  pc,       (* where it is in ReadRunningData                           *)
  Led_TaskCount, (* the turn                                            *)
  attempt,  (* first or second call of Can_SendPBus_Com                 *)
  over,     (* Overflow_Flag                                            *)
  stale,    (* Recebuf[1] still equals _uDat from an earlier frame      *)
  TempBuff, (* kind, card and money collected so far                    *)
  row,      (* g_RUNDate: the bits 0x80, 0x20, 0x02, 0x01 and the data  *)
  (* history *)
  reported, (* events led_task put in its queue, with their reader      *)
  again     (* an event was put in the queue once too often             *)

readerVars == <<slot, happened, held>>
busVars    == <<wire, fifo>>
pollVars   == <<pc, Led_TaskCount, attempt, over, stale, TempBuff>>
vars == <<bus, slot, happened, held, wire, fifo, pc, Led_TaskCount, attempt, over, stale,
          TempBuff, row, reported, again>>

Lossy == bus.lossy
Late  == bus.late

count(r) == Len(happened[r])

(* Report f has the card and the kind of the event whose money it has.     *)
Right(f) ==
  /\ f.no \in Readers
  /\ f.amt \in 1 .. count(f.no)
  /\ f.card = happened[f.no][f.amt].card
  /\ f.bits = {happened[f.no][f.amt].kind}

(* The event that reader r holds.                                          *)
Pending(r) == happened[r][count(r)]

FrameKinds == {"none", "ins1", "ins2", "pull1", "pull2"}

First(k)  == IF k = "ins" THEN "ins1" ELSE "pull1"
Second(k) == IF k = "ins" THEN "ins2" ELSE "pull2"

Frame(r, k, c, n) == [from |-> r, kind |-> k, card |-> c, amt |-> n]

(* What reader r answers to a poll.                                        *)
Reply(r) ==
  IF held[r]
  THEN <<Frame(r, First(Pending(r).kind), Pending(r).card, count(r)),
         Frame(r, Second(Pending(r).kind), NoCard, count(r))>>
  ELSE <<Frame(r, "none", NoCard, count(r))>>

(* Mutants: a FIFO without a bound; CAN_RFLM enabled (a full FIFO drops    *)
(* what arrives); the oldest message replaced instead of the newest.       *)
ReceivedUnbounded(q, f) == Append(q, f)
ReceivedLocked(q, f) == IF Len(q) < FIFO_DEPTH THEN Append(q, f) ELSE q
ReceivedOverOldest(q, f) ==
  IF Len(q) < FIFO_DEPTH THEN Append(q, f) ELSE [q EXCEPT ![1] = f]

(* CAN_RFLM disabled: a message that finds the FIFO full replaces the      *)
(* newest one in it.                                                       *)
Received(q, f) ==
  IF Len(q) < FIFO_DEPTH THEN Append(q, f) ELSE [q EXCEPT ![FIFO_DEPTH] = f]

(* ReadRunningData is called for the row after the one of the turn.        *)
no == Led_TaskCount + 1

Rows == 0 .. BUSNUM_SIZE

(* The low two bits of a number, as the flags they are taken for.          *)
LowBits(n) == (IF n % 2 = 1 THEN {"ins"} ELSE {}) \cup
              (IF (n \div 2) % 2 = 1 THEN {"pull"} ELSE {})

JunkBuff == [kind |-> "junk", card |-> NoCard]

-----------------------------------------------------------------------------
Init ==
  /\ bus \in Buses
  /\ slot \in [Readers -> Cards \cup {NoCard}]
  /\ \A r, s \in Readers : r # s /\ slot[r] = slot[s] => slot[r] = NoCard
  /\ happened = [r \in Readers |-> <<>>]
  /\ held = [r \in Readers |-> FALSE]
  /\ wire = <<>>
  /\ fifo = <<>>
  /\ pc = "idle"
  /\ Led_TaskCount = 0
  /\ attempt = 1
  /\ over = 0
  /\ stale = FALSE
  /\ TempBuff = JunkBuff
  /\ row = [r \in Rows |->
              [used |-> r \in bus.readers,
               bits |-> IF r = 0 THEN LowBits(Cardinality(bus.readers)) ELSE {},
               lost |-> FALSE, card |-> NoCard, amt |-> 0]]
  /\ reported = {}
  /\ again = FALSE

-----------------------------------------------------------------------------
(* Environment: a card is inserted or pulled; a frame arrives or is lost.  *)

Happens(r, k, c) ==
  /\ ~held[r]
  /\ count(r) < MaxEvents /\ count(r) < bus.events
  /\ happened' = [happened EXCEPT ![r] = Append(@, [kind |-> k, card |-> c])]
  /\ held' = [held EXCEPT ![r] = TRUE]
  /\ UNCHANGED <<busVars, pollVars, row, reported, again>>

InsertCard(r, c) ==
  /\ slot[r] = NoCard
  /\ \A s \in Readers : slot[s] # c
  /\ slot' = [slot EXCEPT ![r] = c]
  /\ Happens(r, "ins", c)

PullCard(r) ==
  /\ slot[r] # NoCard
  /\ slot' = [slot EXCEPT ![r] = NoCard]
  /\ Happens(r, "pull", slot[r])

Arrive ==
  /\ wire # <<>>
  /\ fifo' = Received(fifo, Head(wire))
  /\ wire' = Tail(wire)
  /\ UNCHANGED <<readerVars, pollVars, row, reported, again>>

LoseFrame ==
  /\ Lossy
  /\ wire # <<>>
  /\ wire' = Tail(wire)
  /\ UNCHANGED <<readerVars, fifo, pollVars, row, reported, again>>

-----------------------------------------------------------------------------
(* led_task                                                                *)

(* led_task's turn begins.  The rows at the end of the count, and those    *)
(* without the bit 0x80, are not polled.  ReadRunningData does not         *)
(* initialise TempBuff: it starts with what the last poll left on the      *)
(* stack or with other bytes.  Without Late the 10 ms at the end of        *)
(* led_task's loop have brought in what was sent.                          *)
StartPoll ==
  /\ pc = "idle"
  /\ Late \/ wire = <<>>
  /\ pc' = IF Led_TaskCount < BUSNUM_SIZE /\ row[no].used
           THEN "send" ELSE "forward"
  /\ attempt' = 1
  /\ TempBuff' \in {TempBuff, JunkBuff}
  /\ UNCHANGED <<readerVars, busVars, Led_TaskCount, over, stale, row, reported, again>>

(* Package_Send(0x05): the polled reader answers unless the frame is lost. *)
SendPoll ==
  /\ pc = "send"
  /\ Len(wire) < MaxWire /\ Len(wire) < bus.wire
  /\ \/ wire' = wire \o Reply(no)
     \/ Lossy /\ wire' = wire
  /\ pc' = "wait1"
  /\ over' = OVERFLOW
  /\ stale' = FALSE
  /\ UNCHANGED <<readerVars, fifo, Led_TaskCount, attempt, TempBuff, row, reported, again>>

(* ReadRunningData when Can_SendPBus_Com returned 0x00: once more, then    *)
(* the reader is marked lost.                                              *)
Failed ==
  IF attempt = 1
  THEN /\ pc' = "send"
       /\ attempt' = 2
       /\ UNCHANGED row
  ELSE /\ pc' = "forward"
       /\ row' = [row EXCEPT ![no].lost = TRUE]
       /\ UNCHANGED attempt

(* ... returned 0x02: nothing there, clears 0x20, 0x02 and 0x01.           *)
NothingThere ==
  /\ pc' = "forward"
  /\ row' = [row EXCEPT ![no].lost = FALSE, ![no].bits = {}]
  /\ UNCHANGED attempt

(* Mutant: the flag of the event is not written.                           *)
NoFlag == {}

(* A TempBuff[0] that is neither 0x05 nor 0x06 sets neither flag.          *)
EventFlag == {TempBuff.kind} \cap Kinds

(* ... returned 0xAA: sets the flag of the event and stores its data.      *)
Stored(n) ==
  /\ pc' = "ack"
  /\ row' = [row EXCEPT ![no].bits = @ \cup EventFlag,
                        ![no].card = TempBuff.card, ![no].amt = n]
  /\ UNCHANGED attempt

(* One try of a receive loop that got no frame of this reader: 5 ms pass.  *)
(* Without Late the answers on the wire arrive before that.                *)
Try(f) ==
  /\ f = <<>> => Late \/ wire = <<>>
  /\ over' = over - 1
  /\ stale' = FALSE
  /\ IF over = 1 THEN Failed ELSE UNCHANGED <<pc, attempt, row>>
  /\ UNCHANGED TempBuff

(* The first receive loop of Can_SendPBus_Com and the dispatch on the      *)
(* frame that ended it.  In the branch of 0x05 res is not cleared, so the  *)
(* loop that would fetch 0x06 is skipped, and the test for 0x06 looks at   *)
(* the 0x05 frame again and fails.                                         *)
Wait1 ==
  /\ pc = "wait1"
  /\ IF fifo # <<>> /\ Head(fifo).from = no
     THEN LET f == Head(fifo) IN
          /\ fifo' = Tail(fifo)
          /\ \/ /\ f.kind = "none"
                /\ NothingThere
                /\ UNCHANGED <<TempBuff, over, stale>>
             \/ /\ f.kind = "ins1"
                /\ TempBuff' = [kind |-> "ins", card |-> f.card]
                /\ over' = OVERFLOW
                /\ stale' = TRUE
                /\ pc' = "wait2"
                /\ UNCHANGED <<attempt, row>>
             \/ /\ f.kind = "pull1"
                /\ TempBuff' = [kind |-> "pull", card |-> f.card]
                /\ Failed
                /\ UNCHANGED <<over, stale>>
             \/ /\ f.kind \in {"ins2", "pull2"}
                /\ Stored(f.amt)
                /\ UNCHANGED <<TempBuff, over, stale>>
     ELSE /\ Try(fifo)
          /\ fifo' = IF fifo = <<>> THEN fifo ELSE Tail(fifo)
  /\ UNCHANGED <<readerVars, wire, Led_TaskCount, reported, again>>

(* The second receive loop, for 0x04.  Recebuf still holds 0x03 of this    *)
(* reader: with an empty FIFO the loop takes the continue of line 149,     *)
(* without the delay and without counting, until some frame arrives.       *)
Wait2 ==
  /\ pc = "wait2"
  /\ IF fifo # <<>> /\ Head(fifo).from = no
     THEN /\ fifo' = Tail(fifo)
          /\ IF Head(fifo).kind = "ins2"
             THEN Stored(Head(fifo).amt)
             ELSE Failed
          /\ UNCHANGED <<TempBuff, over, stale>>
     ELSE /\ fifo = <<>> => ~stale
          /\ Try(fifo)
          /\ fifo' = IF fifo = <<>> THEN fifo ELSE Tail(fifo)
  /\ UNCHANGED <<readerVars, wire, Led_TaskCount, reported, again>>

(* Can_ReadPBus_Succeed: the frame 0x07 with the card number and, by the   *)
(* bits of the row, 0xAA or 0x55; unless exactly one bit is set that byte  *)
(* was never written.  The reader lets go of an event of that card and     *)
(* kind.                                                                   *)
AckStates == IF row[no].bits \in {{"ins"}, {"pull"}} THEN row[no].bits
             ELSE Kinds \cup {"junk"}

Acknowledges(r, c, k) == held[r] /\ Pending(r) = [kind |-> k, card |-> c]

SendAck ==
  /\ pc = "ack"
  /\ \/ \E k \in AckStates :
          held' = [held EXCEPT ![no] = @ /\ ~Acknowledges(no, TempBuff.card, k)]
     \/ Lossy /\ UNCHANGED held
  /\ pc' = "forward"
  /\ UNCHANGED <<slot, happened, busVars, Led_TaskCount, attempt, over, stale,
                 TempBuff, row, reported, again>>

(* Mutants: the last row but one is left out too; the flags stay set.      *)
WaitsOneLess(n) == n < BUSNUM_SIZE - 1 /\ row[n].bits # {}
KeptFlags(w) == w

(* Row n has an event for the server; its flags once that is in the queue. *)
Waits(n) == n < BUSNUM_SIZE /\ row[n].bits # {}
ClearedFlags(w) == [w EXCEPT !.bits = {}]

(* Something of reader e.no's event e.amt is in the queue already, and it  *)
(* was right or this is not.                                               *)
Repeats(e) ==
  \E f \in reported : f.no = e.no /\ f.amt = e.amt /\ (Right(f) \/ ~Right(e))

(* What led_task makes of row n for the server.                            *)
Entry(n) == [no |-> n, bits |-> row[n].bits, card |-> row[n].card, amt |-> row[n].amt]

(* The rest of the turn looks at the row of the turn, which was polled in  *)
(* the turn before: its event is put in the queue and its flags cleared.   *)
(* A full queue refuses the event, and the flags are cleared all the same. *)
Forward ==
  /\ pc = "forward"
  /\ LET n == Led_TaskCount
     IN  \/ ~Waits(n) /\ UNCHANGED <<reported, again, row>>
         \/ /\ Waits(n)
            /\ \/ /\ reported' = reported \cup {Entry(n)}
                  /\ again' = (again \/ Repeats(Entry(n)))
               \/ bus.full /\ UNCHANGED <<reported, again>>
            /\ row' = [row EXCEPT ![n] = ClearedFlags(@)]
  /\ pc' = "serve"
  /\ UNCHANGED <<readerVars, busVars, Led_TaskCount, attempt, over, stale, TempBuff>>

(* The end of the turn.                                                    *)
NextTurn ==
  /\ pc' = "idle"
  /\ Led_TaskCount' = IF Led_TaskCount > BUSNUM_SIZE + 1 THEN 0
                      ELSE Led_TaskCount + 1

(* No answer of the server within a tick.                                  *)
NoAnswer ==
  /\ pc = "serve"
  /\ NextTurn
  /\ UNCHANGED <<readerVars, busVars, attempt, over, stale, TempBuff, row, reported, again>>

(* Mutant: the answer to a card event, too, writes the whole flag byte.    *)
FlagsWiped(a, w) ==
  IF a = "55" THEN [w EXCEPT !.used = FALSE]
  ELSE [w EXCEPT !.used = TRUE, !.lost = FALSE, !.bits = {}]

(* What WriteRFIDData makes of the flags of row w.                         *)
Flags(a, w) ==
  CASE a = "AA" -> [w EXCEPT !.used = TRUE]
    [] a = "BB" -> w
    [] a = "55" -> [w EXCEPT !.used = FALSE]
    [] a = "CC" -> [w EXCEPT !.used = TRUE, !.lost = FALSE, !.bits = {}]

(* WriteRFIDData with an answer to a card event or a heartbeat of r.       *)
Answer(a, r) ==
  /\ pc = "serve"
  /\ row' = [row EXCEPT ![r] = Flags(a, @)]
  /\ pc' = "drain"
  /\ UNCHANGED <<readerVars, busVars, Led_TaskCount, attempt, over, stale, TempBuff,
                 reported, again>>

(* The receive loop at the end of WriteRFIDData throws one frame away.     *)
Drain ==
  /\ pc = "drain"
  /\ \/ fifo # <<>> /\ fifo' = Tail(fifo)
     \/ fifo = <<>> /\ (Late \/ wire = <<>>) /\ UNCHANGED fifo
  /\ NextTurn
  /\ UNCHANGED <<readerVars, wire, attempt, over, stale, TempBuff, row, reported, again>>

LedTask ==
  \/ StartPoll \/ SendPoll \/ Wait1 \/ Wait2 \/ SendAck
  \/ Forward \/ NoAnswer \/ Drain
  \/ \E a \in bus.answers, r \in bus.readers : Answer(a, r)

Next ==
  /\ \/ \E r \in bus.readers, c \in Cards : InsertCard(r, c)
     \/ \E r \in bus.readers : PullCard(r)
     \/ Arrive
     \/ LoseFrame
     \/ LedTask
  /\ UNCHANGED bus

(* Frames that are not lost arrive: the bus is hardware.  No more than     *)
(* that is sure.  key_task has the higher priority and polls the serial    *)
(* line for a download without waiting; until a download begins and ends   *)
(* it may leave led_task no time at all, so what needs led_task to go on   *)
(* takes that as a condition.                                              *)
Spec == Init /\ [][Next]_vars /\ WF_vars(Arrive /\ UNCHANGED bus)

LedTaskRuns == WF_vars(LedTask /\ UNCHANGED bus)

-----------------------------------------------------------------------------
Frames == [from : Readers, kind : FrameKinds, card : Cards \cup {NoCard},
           amt : Amounts]

(* Type invariant.                                                         *)
TypeOK ==
  /\ slot \in [Readers -> Cards \cup {NoCard}]
  /\ happened \in [Readers -> Seq([kind : Kinds, card : Cards])]
  /\ held \in [Readers -> BOOLEAN]
  /\ wire \in Seq(Frames)
  /\ fifo \in Seq(Frames) /\ Len(fifo) <= FIFO_DEPTH
  /\ pc \in {"idle", "send", "wait1", "wait2", "ack", "forward", "serve", "drain"}
  /\ Led_TaskCount \in 0 .. BUSNUM_SIZE + 2
  /\ pc \in {"send", "wait1", "wait2", "ack"} => no \in Readers
  /\ attempt \in 1 .. 2
  /\ over \in 0 .. OVERFLOW
  /\ stale \in BOOLEAN
  /\ TempBuff \in [kind : Kinds \cup {"junk"}, card : Cards \cup {NoCard}]
  /\ row \in [Rows -> [used : BOOLEAN, bits : SUBSET Kinds, lost : BOOLEAN,
                       card : Cards \cup {NoCard}, amt : Amounts]]
  /\ reported \subseteq [no : Rows, bits : SUBSET Kinds,
                          card : Cards \cup {NoCard}, amt : Amounts]
  /\ again \in BOOLEAN

(* What is reported for a reader is one event of that reader: kind, card   *)
(* number and money belong together, whatever frames were in the FIFO when *)
(* ReadRunningData put them together.                                      *)
ReportsAreReal == \A e \in reported : e.no \in Readers => Right(e)

(* A bus that loses nothing and is never late.                             *)
GoodBus == ~Lossy /\ ~Late

(* Two readers at least are polled, and none in the last row.  The second  *)
(* poll for a pulled card leaves two frames in the FIFO, which the poll of *)
(* another reader throws away; a reader that is alone gets them in its     *)
(* next poll and reports the pull a second time.                           *)
Company ==
  /\ Cardinality(bus.readers) > 1 /\ \A r \in bus.readers : r < BUSNUM_SIZE
  /\ "55" \notin bus.answers

(* On a good bus with several readers led_task puts no event of a reader   *)
(* in its queue twice, although the reader repeats it on every poll until  *)
(* Can_ReadPBus_Succeed has reached it, and marks no reader lost (0x20).   *)
(* Events are told apart by reader and number.  The one exception is an    *)
(* event queued with a card or kind that is not its own (ReportsAreReal    *)
(* fails): the reader is not acknowledged and the event is queued a second *)
(* time, as it is.  Nothing is queued wrongly twice, or after it was right.*)
NoneTwice == GoodBus /\ Company => ~again /\ \A r \in Readers : ~row[r].lost

(* A reader lets go of an event only when ReadRunningData has stored it:   *)
(* bsp_powerbus.c:271, it is fetched and then confirmed.                   *)
AckStored ==
  \A r \in Readers :
    held[r] /\ ~held'[r] =>
      /\ row[r].amt = count(r)
      /\ row[r].card = Pending(r).card
      /\ Pending(r).kind \in row[r].bits

(* One reader is registered, not in the last row, which is never           *)
(* forwarded: nobody else's frames are in the FIFO or in TempBuff.  With   *)
(* two readers on a bus that loses frames AckStored may fail: TempBuff may *)
(* hold the card number that the other one sent.                           *)
Alone == \E r \in Readers : bus.readers = {r} /\ r < BUSNUM_SIZE

(* A reader on its own is acknowledged what was stored, whatever is lost   *)
(* or late: the acknowledgement names the card alone, so it could hit      *)
(* another event of that card.                                             *)
AckedIsStored == [][Alone => AckStored]_vars

(* The data ReadRunningData stores for a reader never goes back to an      *)
(* earlier event, whatever is lost, late or left over in the FIFO.         *)
NeverBackwards ==
  [][\A r \in Readers : row'[r].amt >= row[r].amt]_vars

(* The flags of an event change in one place only, on any bus: led_task    *)
(* clears them where it puts the event in its queue (main.c:324: sent, the *)
(* data flags are cleared) and, unless the queue is full, it is there.  A  *)
(* poll finds none to clear or to add to.  The exceptions are the last     *)
(* row, which is not forwarded, and the answer to a heartbeat, CC, which   *)
(* writes the whole flag byte.                                             *)
ClearedWhenSent ==
  [][\A r \in Readers :
       r < BUSNUM_SIZE /\ row[r].bits # {} /\ row'[r].bits # row[r].bits =>
       /\ row'[r].bits = {}
       /\ \/ pc = "forward" /\ (bus.full \/ Entry(r) \in reported')
          \/ pc = "serve" /\ "CC" \in bus.answers]_vars

(* The second frame of an answer was lost: Wait2 waits for any frame.      *)
SecondLost == Lossy /\ pc = "wait2" /\ stale /\ wire = <<>> /\ fifo = <<>>

(* If led_task gets time every turn of it ends: its receive loops give up  *)
(* after Overflow_Flag tries, late answers or not.  The one way not to end *)
(* is the loss of the second frame, which the loop of line 149 never       *)
(* notices.                                                                *)
PollEnds == LedTaskRuns => (pc # "idle" ~> pc = "idle" \/ SecondLost)

(* Nothing takes an event from led_task: no reader is taken out, no        *)
(* heartbeat is answered and the queue has room.                           *)
Undisturbed == GoodBus /\ ~bus.full /\ bus.answers \subseteq {"AA", "BB"}

(* On such a bus, if led_task gets time, every card event is put in the    *)
(* queue at last, with its money and its own card and kind, also after it  *)
(* was queued with others.  The last row is not forwarded.                 *)
EventReported ==
  LedTaskRuns =>
    \A r \in Readers, n \in 1 .. MaxEvents :
      Undisturbed /\ r < BUSNUM_SIZE /\ count(r) = n ~>
        \E e \in reported : e.no = r /\ e.amt = n /\ Right(e)
=============================================================================

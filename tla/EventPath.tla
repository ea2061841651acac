----------------------------- MODULE EventPath ------------------------------
(***************************************************************************)
(* The two message queues between led_task (main.c) and the TCP client     *)
(* (tcp_client_demo.c), and the memory their messages are in.              *)
(*                                                                         *)
(* led_task writes a card event into g_SendDate and posts its address in   *)
(* q_msg; the client sends what it finds there to the server.  The client  *)
(* writes an answer of the server into ser_Date and posts its address in   *)
(* q_msg_ser; led_task writes what it finds there to the reader.  Each     *)
(* buffer is allocated once, so that every entry of a queue is the same    *)
(* address, and each consumer gives the buffer back to the allocator after *)
(* every message.  The mailbox of a TCP connection comes from the same     *)
(* allocator (sys_arch.c).                                                 *)
(*                                                                         *)
(* The client (priority 8) runs before led_task (10): led_task steps only  *)
(* while the client is blocked.  lwIP and the server are external; polling *)
(* the readers is module ReaderPoll, heartbeats are left out but for their *)
(* answers.                                                                *)
(***************************************************************************)
EXTENDS Integers, Sequences

CONSTANTS
  MEMTBLSIZE,  (* blocks of the pool                                    *)
  MsgGrp_SIZE, (* entries of a queue                                    *)
  MaxEvents,   (* bound: card events                                    *)
  MaxAnswers,  (* bound: answers of the server                          *)
  Networks     (* values that Stable may have                           *)

ASSUME PathAssumption ==
  /\ MEMTBLSIZE \in Nat \ {0}
  /\ MsgGrp_SIZE \in Nat \ {0}
  /\ MaxEvents \in Nat /\ MaxAnswers \in Nat
  /\ Networks \subseteq BOOLEAN

VARIABLES
  memmap,    (* the allocator's table                                   *)
  cell,      (* cell[b]: what was last written into block b             *)
  ser_Date,  (* the client's buffer                                     *)
  g_SendDate,(* led_task's buffer                                       *)
  mbox,      (* the connection's recvmbox                               *)
  q_msg, q_msg_ser,
  tcp,       (* where the client is                                     *)
  led,       (* where led_task is                                       *)
  waited,    (* led_task's steps within the client's OSQPend            *)
  early,     (* the client's netconn_recv began before led_task's sleep *)
  p,         (* the message WriteRFIDData works on, and what it copied  *)
  TempBuff,
  up,        (* the server's end of the connection                      *)
  inbox,     (* segments received by lwIP, with the answers in each     *)
  events,    (* history: card events so far, answers so far             *)
  answers,
  Stable,    (* the connection is up before the first event and stays,  *)
             (* and the server takes what is written to it; this is     *)
             (* chosen once and for all in the initial state            *)
  sent,      (* history: what the server was sent                       *)
  written    (* history: packets sent to readers, rows written          *)

memVars  == <<memmap, cell>>
bufVars  == <<ser_Date, g_SendDate>>
netVars  == <<up, inbox, answers, Stable>>
ledVars  == <<led, waited, early, p, TempBuff>>
vars == <<memmap, cell, ser_Date, g_SendDate, mbox, q_msg, q_msg_ser, tcp, led, waited,
          early, p, TempBuff, up, inbox, events, answers, Stable, sent, written>>

(* The allocator, with its blocks of 32 bytes.                             *)
Pool == INSTANCE MemPool WITH
          MEMBLKSIZE <- 32, U16 <- 65536, Sizes <- {11, 16, 84},
          memrdy <- TRUE, live <- {}, ret <- 0

Blocks == 0 .. (MEMTBLSIZE - 1)
None == MEMTBLSIZE   (* no block: a pointer that is not set               *)

(* Contents of a block: the n-th event; the n-th answer, AA with two       *)
(* packets for a reader or another (BB, 55, CC); a mailbox; or nothing.    *)
Content(t, n) == [tag |-> t, n |-> n]
Nothing == Content("nothing", 0)
Mailbox == Content("mbox", 0)

(* sizeof(TQ_DESCR): a pointer and 20 entries.                             *)
MboxBlocks == Pool!nmemb(84)

MboxRun == IF mbox = None THEN {} ELSE mbox .. (mbox + MboxBlocks - 1)

-----------------------------------------------------------------------------
Init ==
  /\ memmap = [b \in Blocks |-> 0]
  /\ cell = [b \in Blocks |-> Nothing]
  /\ ser_Date = None /\ g_SendDate = None /\ mbox = None
  /\ q_msg = <<>> /\ q_msg_ser = <<>>
  /\ tcp = "start" /\ led = "start" /\ waited = 0 /\ early = FALSE
  /\ p = None /\ TempBuff = Nothing
  /\ up = FALSE /\ inbox = <<>>
  /\ events = 0 /\ answers = 0 /\ Stable \in Networks
  /\ sent = <<>> /\ written = <<>>

(* OSQPost of buffer b, and what the caller does when the queue is full:   *)
(* it frees the buffer, and goes on using it.                              *)
Posted(q, b) == IF Len(q) < MsgGrp_SIZE THEN Append(q, b) ELSE q
TableAfterPost(q, b) ==
  IF Len(q) < MsgGrp_SIZE THEN memmap ELSE Pool!Freed(memmap, b)

-----------------------------------------------------------------------------
(* The client.                                                             *)

TcpStart ==
  /\ tcp = "start"
  /\ \E o \in Pool!Found(memmap, Pool!nmemb(11)) :
       /\ ser_Date' = o
       /\ memmap' = Pool!Marked(memmap, o, Pool!nmemb(11))
  /\ tcp' = "new"
  /\ UNCHANGED <<cell, g_SendDate, mbox, q_msg, q_msg_ser, ledVars, netVars, events,
                 sent, written>>

(* netconn_new: sys_mbox_new allocates and clears the mailbox.             *)
NewConnection ==
  /\ tcp = "new"
  /\ \E o \in Pool!Found(memmap, MboxBlocks) :
       /\ mbox' = o
       /\ memmap' = Pool!Marked(memmap, o, MboxBlocks)
       /\ cell' = [b \in Blocks |->
                     IF b \in o .. (o + MboxBlocks - 1) THEN Mailbox ELSE cell[b]]
  /\ tcp' = "connecting"
  /\ UNCHANGED <<bufVars, q_msg, q_msg_ser, ledVars, netVars, events, sent, written>>

(* netconn_connect returns.                                                *)
Connected ==
  /\ tcp = "connecting"
  /\ tcp' = "pend"
  /\ up' = TRUE
  /\ UNCHANGED <<memVars, bufVars, mbox, q_msg, q_msg_ser, ledVars, inbox, answers, Stable,
                 events, sent, written>>

(* netconn_delete: sys_mbox_free.                                          *)
Deleted ==
  /\ memmap' = Pool!Freed(memmap, mbox)
  /\ mbox' = None
  /\ inbox' = <<>>
  /\ tcp' = "new"
  /\ UNCHANGED <<cell, bufVars, q_msg, q_msg_ser, ledVars, answers, Stable, events, sent, written>>

ConnectFails ==
  /\ tcp = "connecting"
  /\ Deleted
  /\ UNCHANGED up

(* netconn_recv begins.                                                    *)
ToRecv ==
  /\ tcp' = "recv"
  /\ waited' = 0
  /\ early' = FALSE
  /\ UNCHANGED <<led, p, TempBuff>>

(* Mutant: what is sent stays at the head of the queue.                    *)
Rest(q) == q

(* What the queue holds once its first message was taken.                  *)
Taken(q) == Tail(q)

(* OSQPend(q_msg): the event is sent (netconn_write reports an error when  *)
(* the connection is down, which is only printed), the buffer freed.       *)
SendCard ==
  /\ tcp = "pend" /\ q_msg # <<>>
  /\ sent' = IF up THEN Append(sent, cell[Head(q_msg)]) ELSE sent
  /\ memmap' = Pool!Freed(memmap, Head(q_msg))
  /\ q_msg' = Taken(q_msg)
  /\ ToRecv
  /\ UNCHANGED <<cell, bufVars, mbox, q_msg_ser, netVars, events, written>>

(* Mutant: OSQPend without a timeout.                                      *)
PendForever == FALSE

(* Steps of led_task that take less than the 500 ms of OSQPend: the        *)
(* longest are a poll and the sleep between two packets, 100 ms each.      *)
Patience == 3

(* OSQPend times out after 100 ticks.                                      *)
PendTimeout ==
  /\ tcp = "pend" /\ q_msg = <<>>
  /\ waited = Patience \/ led \in {"start", "boot"}
  /\ ToRecv
  /\ UNCHANGED <<memVars, bufVars, mbox, q_msg, q_msg_ser, netVars, events, sent, written>>

(* netconn_recv has a segment: the answer at the head of                   *)
(* tcp_client_recvbuf is put in ser_Date and posted.  Nothing looks at     *)
(* what stands behind it.                                                  *)
Looked(segment) == Head(segment)

Receive ==
  /\ tcp = "recv" /\ inbox # <<>>
  /\ cell' = [cell EXCEPT ![ser_Date] = Looked(Head(inbox))]
  /\ inbox' = Tail(inbox)
  /\ q_msg_ser' = Posted(q_msg_ser, ser_Date)
  /\ memmap' = TableAfterPost(q_msg_ser, ser_Date)
  /\ tcp' = "pend"
  /\ UNCHANGED <<bufVars, mbox, q_msg, ledVars, up, answers, Stable, events, sent, written>>

(* Mutant: a timeout only starts netconn_recv again.                       *)
ReceiveAgain ==
  /\ tcp = "recv" /\ inbox = <<>>
  /\ UNCHANGED vars

(* netconn_recv times out after 10 ms, or fails with an error that is not  *)
(* ERR_CLSD, as it does when the connection was reset.                     *)
ReceiveNothing ==
  /\ tcp = "recv" /\ inbox = <<>>
  /\ tcp' = "pend"
  /\ UNCHANGED <<memVars, bufVars, mbox, q_msg, q_msg_ser, ledVars, netVars, events,
                 sent, written>>

(* ERR_CLSD, or too many heartbeats without an answer.                     *)
CloseConnection ==
  /\ tcp = "recv" /\ inbox = <<>> /\ ~Stable
  /\ Deleted
  /\ up' = FALSE

-----------------------------------------------------------------------------
(* Server and network (external).                                          *)

(* The server answers card events and heartbeats; none is sent before      *)
(* g_PowerUpFlag is set.  n answers come in one segment.                   *)
AnswersArrive(kind, n) ==
  /\ up
  /\ led \notin {"start", "boot"}
  /\ answers + n <= MaxAnswers
  /\ answers' = answers + n
  /\ inbox' = Append(inbox, [i \in 1 .. n |-> Content(kind, answers + i)])
  /\ UNCHANGED <<memVars, bufVars, mbox, q_msg, q_msg_ser, tcp, ledVars, up, Stable, events,
                 sent, written>>

Breaks ==
  /\ ~Stable
  /\ up
  /\ up' = FALSE
  /\ UNCHANGED <<memVars, bufVars, mbox, q_msg, q_msg_ser, tcp, ledVars, inbox, answers, Stable,
                 events, sent, written>>

-----------------------------------------------------------------------------
(* led_task.                                                               *)

TcpBlocked ==
  \/ tcp = "connecting"
  \/ tcp = "pend" /\ q_msg = <<>>
  \/ tcp = "recv" /\ inbox = <<>>

LedRuns ==
  /\ TcpBlocked
  /\ waited' = IF tcp = "pend" /\ waited < Patience THEN waited + 1 ELSE waited

LedStart ==
  /\ led = "start" /\ LedRuns
  /\ \E o \in Pool!Found(memmap, Pool!nmemb(16)) :
       /\ g_SendDate' = o
       /\ memmap' = Pool!Marked(memmap, o, Pool!nmemb(16))
  /\ led' = "boot"
  /\ UNCHANGED <<cell, ser_Date, mbox, q_msg, q_msg_ser, tcp, early, p, TempBuff, netVars,
                 events, sent, written>>

(* The readers have been found and registered: g_PowerUpFlag.              *)
PowerUp ==
  /\ led = "boot" /\ LedRuns
  /\ led' = "post"
  /\ UNCHANGED <<memVars, bufVars, mbox, q_msg, q_msg_ser, tcp, early, p, TempBuff, netVars,
                 events, sent, written>>

(* Mutant: g_SendDate is cleared for the next event after the post.        *)
PostEventCleared ==
  /\ led = "post" /\ LedRuns
  /\ Stable => up
  /\ events < MaxEvents
  /\ events' = events + 1
  /\ cell' = [cell EXCEPT ![g_SendDate] = Nothing]
  /\ q_msg' = Posted(q_msg, g_SendDate)
  /\ memmap' = TableAfterPost(q_msg, g_SendDate)
  /\ led' = "serve"
  /\ UNCHANGED <<bufVars, mbox, q_msg_ser, tcp, early, p, TempBuff, netVars, sent, written>>

(* The row of this turn has an event.                                      *)
PostEvent ==
  /\ led = "post" /\ LedRuns
  /\ Stable => up
  /\ events < MaxEvents
  /\ events' = events + 1
  /\ cell' = [cell EXCEPT ![g_SendDate] = Content("event", events + 1)]
  /\ q_msg' = Posted(q_msg, g_SendDate)
  /\ memmap' = TableAfterPost(q_msg, g_SendDate)
  /\ led' = "serve"
  /\ UNCHANGED <<bufVars, mbox, q_msg_ser, tcp, early, p, TempBuff, netVars, sent, written>>

NoEvent ==
  /\ led = "post" /\ LedRuns
  /\ led' = "serve"
  /\ UNCHANGED <<memVars, bufVars, mbox, q_msg, q_msg_ser, tcp, early, p, TempBuff, netVars,
                 events, sent, written>>

Packet(i, to, of) == [i |-> i, to |-> to, of |-> of]

(* The 10 ms at the end of a turn begin.                                   *)
ToSleep ==
  /\ led' = "sleep"
  /\ early' = (tcp = "recv")

(* OSQPend(q_msg_ser) has a message: WriteRFIDData copies it and sends the *)
(* first packet or, for a heartbeat, writes the reader's row.  After AA it *)
(* sleeps for 100 ms before the second packet.                             *)
Serve ==
  /\ led = "serve" /\ LedRuns
  /\ q_msg_ser # <<>>
  /\ q_msg_ser' = Tail(q_msg_ser)
  /\ p' = Head(q_msg_ser)
  /\ TempBuff' = cell[p']
  /\ written' = IF TempBuff'.tag \in {"AA", "other"}
                THEN Append(written, Packet(1, TempBuff'.n, TempBuff'.n)) ELSE written
  /\ led' = IF TempBuff'.tag = "AA" THEN "write2" ELSE "drain"
  /\ UNCHANGED <<memVars, bufVars, mbox, q_msg, tcp, early, netVars, events, sent>>

ServeNone ==
  /\ led = "serve" /\ LedRuns
  /\ q_msg_ser = <<>>
  /\ ToSleep
  /\ UNCHANGED <<memVars, bufVars, mbox, q_msg, q_msg_ser, tcp, p, TempBuff, netVars,
                 events, sent, written>>

(* The second packet: the money from the copy, the reader's address from   *)
(* the message.                                                            *)
Write2 ==
  /\ led = "write2" /\ LedRuns
  /\ written' = Append(written, Packet(2, cell[p].n, TempBuff.n))
  /\ led' = "drain"
  /\ UNCHANGED <<memVars, bufVars, mbox, q_msg, q_msg_ser, tcp, early, p, TempBuff, netVars,
                 events, sent>>

(* WriteRFIDData waits for a frame of the reader; then the buffer is freed. *)
Drain ==
  /\ led = "drain" /\ LedRuns
  /\ memmap' = Pool!Freed(memmap, p)
  /\ ToSleep
  /\ UNCHANGED <<cell, bufVars, mbox, q_msg, q_msg_ser, tcp, p, TempBuff, netVars,
                 events, sent, written>>

(* The sleep and the timeout of netconn_recv are both two ticks: one that  *)
(* began before the sleep has ended, and the client, which goes first, has *)
(* gone on.                                                                *)
Wake ==
  /\ led = "sleep" /\ LedRuns
  /\ ~early \/ tcp # "recv"
  /\ led' = "post"
  /\ UNCHANGED <<memVars, bufVars, mbox, q_msg, q_msg_ser, tcp, early, p, TempBuff, netVars,
                 events, sent, written>>

-----------------------------------------------------------------------------
TcpClient ==
  \/ TcpStart \/ NewConnection \/ Connected \/ ConnectFails \/ SendCard
  \/ PendTimeout \/ Receive \/ ReceiveNothing \/ CloseConnection

LedTask ==
  \/ LedStart \/ PowerUp \/ PostEvent \/ NoEvent \/ Serve \/ ServeNone
  \/ Write2 \/ Drain \/ Wake

Next ==
  \/ TcpClient
  \/ LedTask
  \/ \E k \in {"AA", "other"}, n \in 1 .. MaxAnswers : AnswersArrive(k, n)
  \/ Breaks

(* The client goes on: but for the tasks of lwIP nothing is more urgent.   *)
(* The server can be reached again and again.                              *)
Spec ==
  /\ Init /\ [][Next]_vars
  /\ WF_vars(TcpClient) /\ SF_vars(Connected)

-----------------------------------------------------------------------------
Contents == [tag : {"nothing", "mbox", "event", "AA", "other"}, n : Nat]

(* Type invariant.                                                         *)
TypeOK ==
  /\ memmap \in [Blocks -> Nat]
  /\ cell \in [Blocks -> Contents]
  /\ {ser_Date, g_SendDate, mbox, p} \subseteq Blocks \cup {None}
  /\ q_msg \in Seq(Blocks) /\ q_msg_ser \in Seq(Blocks)
  /\ Len(q_msg) <= MsgGrp_SIZE /\ Len(q_msg_ser) <= MsgGrp_SIZE
  /\ tcp \in {"start", "new", "connecting", "pend", "recv"}
  /\ led \in {"start", "boot", "post", "serve", "write2", "drain", "sleep"}
  /\ waited \in 0 .. Patience /\ early \in BOOLEAN
  /\ TempBuff \in Contents
  /\ up \in BOOLEAN
  /\ inbox \in Seq(Seq(Contents) \ {<<>>})
  /\ events \in 0 .. MaxEvents /\ answers \in 0 .. MaxAnswers
  /\ sent \in Seq(Contents) /\ Stable \in BOOLEAN

(* The server is sent every card event, once and in order: a message is    *)
(* read from g_SendDate before led_task writes the next one there.         *)
EachOnce == Stable => \A i \in 1 .. Len(sent) : sent[i] = Content("event", i)

(* What the server is sent is always some card event that happened, and    *)
(* never one that is older than what it was sent before, also when         *)
(* connections break and g_SendDate was overwritten.                       *)
SentReal ==
  \A i \in 1 .. Len(sent) :
    /\ sent[i].tag = "event" /\ sent[i].n \in 1 .. events
    /\ \A j \in 1 .. i : sent[j].n <= sent[i].n

(* The connection's mailbox is not written by anyone but lwIP.             *)
MailboxIntact == \A b \in MboxRun : cell[b] = Mailbox

(* Every card event is sent to the server.                                 *)
EventSent == \A n \in 1 .. MaxEvents : Stable /\ events = n ~> Len(sent) >= n

(* led_task is given time whenever it can run for long enough.  The code   *)
(* does not see to that: key_task, which is more urgent, polls the line    *)
(* without a pause until a download begins and ends (main.c:149,           *)
(* ymodem.c:45), and only then sleeps for 50 ms.                           *)
LedTaskRuns == WF_vars(LedTask)

(* The n-th answer waits in lwIP at the head of its segment.               *)
Leads(n) == \E i \in 1 .. Len(inbox) : inbox[i][1].n = n

(* An answer that leads its segment is acted upon, or a newer one is,      *)
(* which has overwritten it in ser_Date, as long as led_task is given      *)
(* time.  An answer behind another one is never looked at.                 *)
NewestWritten ==
  LedTaskRuns =>
    \A n \in 1 .. MaxAnswers :
      Stable /\ Leads(n) ~>
        \E i \in 1 .. Len(written) : written[i].i = 1 /\ written[i].of >= n
=============================================================================

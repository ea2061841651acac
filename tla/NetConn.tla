------------------------------- MODULE NetConn -------------------------------
(***************************************************************************)
(* One TCP connection after the other, as tcp_client_thread uses it        *)
(* (tcp_client_demo.c): the heartbeats it sends row by row, the count of   *)
(* those without an answer, and the ways it notices that the server has    *)
(* gone.  Below it lies the receive mailbox of the connection: recv_tcp    *)
(* and err_tcp of tcpip_thread fill it, netconn_recv empties it (api_msg.c,*)
(* api_lib.c, sys_arch.c).                                                 *)
(*                                                                         *)
(* sys_mbox_valid calls a full mailbox invalid.  recv_tcp then drops what  *)
(* comes as if the mailbox were deleted, netconn_recv refuses to read it,  *)
(* and netconn_drain does not give it back.                                *)
(*                                                                         *)
(* netconn_write has no timeout: while the send buffer is full             *)
(* (TCP_SND_BUF, TCP_SND_QUEUELEN) it waits in the kernel for the server   *)
(* to acknowledge something, or for the connection to fail.                *)
(*                                                                         *)
(* What answers say and what becomes of them is module EventPath.          *)
(***************************************************************************)
EXTENDS Integers, Sequences
LOCAL INSTANCE Functions

CONSTANTS
  BUSNUM_SIZE, (* number of rows of the bus                               *)
  MaxCount,    (* heartbeats without an answer that are borne: 10         *)
  CountCap,    (* SendRecvCount is not counted above this: 200            *)
  MboxSize,    (* MAX_QUEUE_ENTRIES                                       *)
  Queues,      (* OS_MAX_QS less the queues of others                     *)
  RowSets,     (* the registrations considered                            *)
  MaxOwed      (* bound: messages the server has not answered yet         *)

ASSUME NetConnAssumption ==
  /\ BUSNUM_SIZE \in Nat \ {0}
  /\ MaxCount \in Nat /\ CountCap \in Nat /\ MaxCount < CountCap
  /\ MboxSize \in Nat \ {0}
  /\ Queues \in Nat \ {0}
  /\ MaxOwed \in Nat \ {0}
  /\ RowSets \subseteq [1 .. BUSNUM_SIZE -> {"used", "lost", "free"}]

VARIABLES
  rows,          (* g_RUNDate: used (0xC0), only lost (0x20), or free     *)
  tcp_client_flag, (* key_task asks for a heartbeat                       *)
  (* tcp_client_thread *)
  pc,            (* where it is in its loop                               *)
  i_SendCount,   (* the row of the last heartbeat                         *)
  SendRecvCount, (* heartbeats without an answer                          *)
  (* connection *)
  link,          (* what has become of the server                         *)
  mbox,          (* conn->recvmbox: the answers in each message, 0 = NULL *)
  lastFatal,     (* conn->last_err is fatal                               *)
  leaked,        (* mailboxes that were not given back                    *)
  (* server and history *)
  owed,          (* messages of this connection it has not answered       *)
  unseen         (* answers of this connection the client did not count   *)

clientVars == <<pc, i_SendCount, SendRecvCount>>
connVars   == <<link, mbox, lastFatal>>
vars == <<rows, tcp_client_flag, clientVars, connVars, leaked, owed, unseen>>

(* In netconn_write, with a heartbeat or with a card event.                *)
Writing == pc \in {"beating", "sending"}

Connected == pc \in {"beat", "beating", "event", "sending", "recv", "fetch"}

(* sys_mbox_valid: fewer messages than the queue has room for.             *)
mbox_valid == Len(mbox) < MboxSize

(* unseen is counted up to one more than the client bears.                 *)
Unseen(n) == IF unseen + n > MaxCount THEN MaxCount + 1 ELSE unseen + n

-----------------------------------------------------------------------------
Init ==
  /\ rows \in RowSets
  /\ tcp_client_flag = FALSE
  /\ pc = "new"
  /\ i_SendCount = 0
  /\ SendRecvCount = 0
  /\ link = "down"
  /\ mbox = <<>>
  /\ lastFatal = FALSE
  /\ leaked = 0
  /\ owed = 0
  /\ unseen = 0

-----------------------------------------------------------------------------
(* key_task                                                                *)

(* The pace of the heartbeats is left open.                                *)
KeyTask ==
  /\ ~(pc = "new" /\ leaked = Queues)
  /\ tcp_client_flag' = TRUE
  /\ UNCHANGED <<rows, clientVars, connVars, leaked, owed, unseen>>

-----------------------------------------------------------------------------
(* The server, and tcpip_thread on its behalf.                             *)

(* A message for the receive mailbox; a full one is taken for a deleted    *)
(* one and the message is acknowledged and dropped.                        *)
Posted(n) == IF mbox_valid THEN Append(mbox, n) ELSE mbox

(* recv_tcp with n answers that came in one segment.                       *)
Answers(n) ==
  /\ link = "up"
  /\ n <= owed
  /\ owed' = owed - n
  /\ mbox' = Posted(n)
  /\ unseen' = IF mbox_valid THEN unseen ELSE Unseen(n)
  /\ UNCHANGED <<rows, tcp_client_flag, clientVars, link, lastFatal, leaked>>

(* recv_tcp with NULL: the server has closed its side.                     *)
Closes ==
  /\ link = "up"
  /\ link' = "closed"
  /\ mbox' = Posted(0)
  /\ UNCHANGED <<rows, tcp_client_flag, clientVars, lastFatal, leaked, owed, unseen>>

(* The server is switched off or cut off; nothing says so.                 *)
FallsSilent ==
  /\ link = "up"
  /\ link' = "silent"
  /\ UNCHANGED <<rows, tcp_client_flag, clientVars, mbox, lastFatal, leaked, owed, unseen>>

(* err_tcp: a reset, or too many retransmissions.                          *)
Fails ==
  /\ link \in {"up", "closed", "silent"}
  /\ link' = "failed"
  /\ lastFatal' = TRUE
  /\ mbox' = Posted(0)
  /\ UNCHANGED <<rows, tcp_client_flag, clientVars, leaked, owed, unseen>>

-----------------------------------------------------------------------------
(* tcp_client_thread                                                       *)

(* netconn_new; without a queue left it fails, and the loop goes round     *)
(* without sleeping.                                                       *)
New ==
  /\ pc = "new"
  /\ leaked < Queues
  /\ pc' = "connect"
  /\ UNCHANGED <<rows, tcp_client_flag, i_SendCount, SendRecvCount, connVars,
                 leaked, owed, unseen>>

ConnectFails ==
  /\ pc = "connect"
  /\ pc' = "new"
  /\ UNCHANGED <<rows, tcp_client_flag, i_SendCount, SendRecvCount, connVars,
                 leaked, owed, unseen>>

(* Mutant: the count of the last connection goes on.                       *)
CountKept == SendRecvCount
CountAtStart == 0

Connects ==
  /\ pc = "connect"
  /\ pc' = "beat"
  /\ SendRecvCount' = CountAtStart
  /\ link' = "up"
  /\ mbox' = <<>>
  /\ lastFatal' = FALSE
  /\ owed' = 0
  /\ unseen' = 0
  /\ UNCHANGED <<rows, tcp_client_flag, i_SendCount, leaked>>

(* netconn_write is done: a server that is there owes an answer.           *)
Written ==
  /\ link = "up" => owed < MaxOwed
  /\ owed' = IF link = "up" THEN owed + 1 ELSE owed

(* netconn_write in a loop that goes on at next: there is room, or the     *)
(* connection has failed, which is only printed; or the client waits at    *)
(* wait.  How much the server has acknowledged is left open.               *)
Write(next, wait) ==
  \/ pc' = next /\ Written
  \/ ~lastFatal /\ pc' = wait /\ UNCHANGED owed

(* Mutants: the walk turns one row early; a heartbeat is counted only when *)
(* netconn_write succeeded.                                                *)
TurnsEarly(i) == IF i >= BUSNUM_SIZE - 1 THEN 1 ELSE i + 1
CountWritten(n) == IF n < CountCap /\ ~lastFatal THEN n + 1 ELSE n

NextRow(i) == IF i >= BUSNUM_SIZE THEN 1 ELSE i + 1
CountUp(n) == IF n < CountCap THEN n + 1 ELSE n

(* A heartbeat for the next row; one of a row that is only lost is not     *)
(* counted, and a free row is passed over.  What key_task asked for while  *)
(* netconn_write waited is cleared with the rest (line 117).               *)
Heartbeat ==
  /\ pc = "beat"
  /\ IF tcp_client_flag
     THEN LET i == NextRow(i_SendCount) IN
          /\ i_SendCount' = i
          /\ SendRecvCount' = IF rows[i] = "used" THEN CountUp(SendRecvCount)
                              ELSE SendRecvCount
          /\ IF rows[i] = "free" THEN pc' = "event" /\ UNCHANGED owed
                                 ELSE Write("event", "beating")
          /\ tcp_client_flag' = (pc' = "beating")
     ELSE /\ pc' = "event"
          /\ UNCHANGED <<i_SendCount, tcp_client_flag, SendRecvCount, owed>>
  /\ UNCHANGED <<rows, connVars, leaked, unseen>>

(* OSQPend: a card event is sent, uncounted; or none came in time.         *)
Event ==
  /\ pc = "event"
  /\ \/ Write("recv", "sending")
     \/ pc' = "recv" /\ UNCHANGED owed
  /\ UNCHANGED <<rows, tcp_client_flag, i_SendCount, SendRecvCount, connVars,
                 leaked, unseen>>

(* sent_tcp or poll_tcp has found room for the message that waited, or     *)
(* err_tcp has ended the wait.  No task gives it the time to: with a       *)
(* window that stays closed it does not happen.                            *)
WriteReturns ==
  /\ \/ pc = "beating" /\ pc' = "event" /\ tcp_client_flag' = FALSE
     \/ pc = "sending" /\ pc' = "recv" /\ UNCHANGED tcp_client_flag
  /\ link # "silent"
  /\ Written
  /\ UNCHANGED <<rows, i_SendCount, SendRecvCount, connVars, leaked, unseen>>

(* netconn_close and netconn_delete: netconn_drain frees the mailbox if it *)
(* takes it for valid.                                                     *)
Delete ==
  /\ pc' = "new"
  /\ link' = "down"
  /\ mbox' = <<>>
  /\ lastFatal' = FALSE
  /\ leaked' = IF mbox_valid THEN leaked ELSE leaked + 1

(* netconn_recv gave an error other than ERR_CLSD.                         *)
NothingReceived ==
  IF SendRecvCount > MaxCount
  THEN /\ SendRecvCount' = 0
       /\ Delete
  ELSE /\ pc' = "beat"
       /\ UNCHANGED <<SendRecvCount, connVars, leaked>>

(* netconn_recv: ERR_CONN on an invalid mailbox, last_err if it is fatal,  *)
(* else it waits for recv_timeout.                                         *)
Receive ==
  /\ pc = "recv"
  /\ IF ~mbox_valid \/ lastFatal
     THEN NothingReceived
     ELSE /\ pc' = "fetch"
          /\ UNCHANGED <<SendRecvCount, connVars, leaked>>
  /\ UNCHANGED <<rows, tcp_client_flag, i_SendCount, owed, unseen>>

FetchTimeout ==
  /\ pc = "fetch"
  /\ mbox = <<>>
  /\ NothingReceived
  /\ UNCHANGED <<rows, tcp_client_flag, i_SendCount, owed, unseen>>

(* One message, of which the loop looks at the first answer only.          *)
FetchAnswer ==
  /\ pc = "fetch"
  /\ mbox # <<>> /\ Head(mbox) > 0
  /\ mbox' = Tail(mbox)
  /\ SendRecvCount' = IF SendRecvCount > 0 THEN SendRecvCount - 1 ELSE 0
  /\ unseen' = Unseen(Head(mbox) - 1)
  /\ pc' = "beat"
  /\ UNCHANGED <<rows, tcp_client_flag, i_SendCount, link, lastFatal, leaked, owed>>

(* Mutant: a closed connection is treated as one that has nothing to say.  *)
ClosedIgnored == NothingReceived
ClosedNoticed == Delete /\ UNCHANGED SendRecvCount

(* ERR_CLSD.                                                               *)
FetchClosed ==
  /\ pc = "fetch"
  /\ mbox # <<>> /\ Head(mbox) = 0
  /\ ClosedNoticed
  /\ UNCHANGED <<rows, tcp_client_flag, i_SendCount, owed, unseen>>

Client ==
  \/ New \/ ConnectFails \/ Connects \/ Heartbeat \/ Event \/ Receive
  \/ FetchTimeout \/ FetchAnswer \/ FetchClosed

Server == \/ Closes \/ FallsSilent \/ Fails
          \/ \E n \in 1 .. MaxOwed : Answers(n)

Next == KeyTask \/ Server \/ Client \/ WriteReturns

(* The client goes on: but for the tasks of lwIP nothing is more urgent,   *)
(* and those wait for frames.  Of the server nothing is asked but that it  *)
(* does not leave the client at the bound of the model, where the next     *)
(* message finds no room in owed.                                          *)
Fairness ==
  /\ WF_vars(Client)
  /\ WF_vars(link = "up" /\ owed = MaxOwed /\ Server)

Spec == Init /\ [][Next]_vars /\ Fairness

-----------------------------------------------------------------------------
(* Type invariant.                                                         *)
TypeOK ==
  /\ rows \in RowSets
  /\ tcp_client_flag \in BOOLEAN
  /\ pc \in {"new", "connect", "beat", "beating", "event", "sending", "recv", "fetch"}
  /\ i_SendCount \in 0 .. BUSNUM_SIZE
  /\ SendRecvCount \in 0 .. CountCap
  /\ link \in {"down", "up", "closed", "silent", "failed"}
  /\ mbox \in Seq(0 .. MaxOwed) /\ Len(mbox) <= MboxSize
  /\ lastFatal \in BOOLEAN
  /\ leaked \in 0 .. Queues
  /\ owed \in 0 .. MaxOwed
  /\ unseen \in 0 .. MaxCount + 1

(* Answers that wait in the mailbox.                                       *)
Waiting == FoldFunction(+, 0, mbox)

(* The client leaves a server that is there only when more messages than   *)
(* it bears have no answer, or had one that it never looked at: dropped    *)
(* because the mailbox was full, or behind another one in a segment.       *)
CountAccounted ==
  pc \in {"recv", "fetch"} /\ link = "up" /\ SendRecvCount > MaxCount =>
    owed + Waiting + unseen > MaxCount

(* The mailbox is full and nobody is about to read it: nobody will.        *)
Deaf == ~mbox_valid /\ pc # "fetch"

(* What the code does not see to by itself.                                *)
(*                                                                         *)
(* key_task comes round again and again.  It does not while SerialDownload *)
(* (main.c:149) waits for a session.                                       *)
KeyTaskRuns == WF_vars(KeyTask)

(* netconn_write never waits for ever.  It does when a server holds its    *)
(* window closed, since tcp_slowtmr probes such a window without a limit.  *)
WritesEnd == []<>~Writing

(* A server that is gone, or one whose answers find no place, is left at   *)
(* last, as long as one reader is registered whose heartbeats are counted, *)
(* key_task asks for heartbeats and netconn_write comes back.              *)
DeadLeft ==
  (\E r \in 1 .. BUSNUM_SIZE : rows[r] = "used") /\ KeyTaskRuns /\ WritesEnd =>
    (Connected /\ (link # "up" \/ Deaf) ~> ~Connected)

(* A close that the mailbox had room for is noticed without the count, so  *)
(* also when no reader is registered or key_task is held up, as long as    *)
(* netconn_write comes back.                                               *)
CloseNoticed ==
  WritesEnd =>
    (link = "closed" /\ mbox_valid /\ (\E k \in 1 .. Len(mbox) : mbox[k] = 0) ~>
       ~Connected \/ link = "failed")

(* While heartbeats are asked for, every row is reached again and again,   *)
(* whatever happens to the connections in between.                         *)
RowsAnnounced ==
  []<>(pc = "beat" /\ tcp_client_flag) =>
    \A r \in 1 .. BUSNUM_SIZE : []<>(i_SendCount = r)
=============================================================================

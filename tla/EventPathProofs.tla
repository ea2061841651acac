-------------------------- MODULE EventPathProofs ---------------------------
(***************************************************************************)
(* Proofs about the queues between led_task and the TCP client, for a pool *)
(* and queues of any size, any number of events and answers, and any       *)
(* breaks of the connection.                                               *)
(*                                                                         *)
(* The buffers are given back to the allocator after every message and go  *)
(* on being used, so that nothing in the allocator keeps a mailbox away    *)
(* from g_SendDate.  What does is where the blocks were first handed out:  *)
(* the highest to the client's buffer, the next ones to the mailbox, and   *)
(* the one below them to g_SendDate (Layout).  That the client goes first  *)
(* leaves no more than one event in the queue (Turns).                     *)
(***************************************************************************)
EXTENDS EventPath, SequenceTheorems, TLAPS

(* The highest block, the two places a mailbox may be at, and the block    *)
(* below them all.                                                         *)
Top    == MEMTBLSIZE - 1
High   == MEMTBLSIZE - 3
Middle == MEMTBLSIZE - 4
Bottom == MEMTBLSIZE - 5

Connections == {"connecting", "pend", "recv"}

(* What the tasks were given by the allocator.                             *)
Pointers ==
  /\ ser_Date = (IF tcp = "start" THEN None ELSE Top)
  /\ IF tcp \in Connections THEN mbox \in {High, Middle} /\ mbox \in Blocks ELSE mbox = None
  /\ g_SendDate = (IF led = "start" THEN None ELSE Bottom)
  /\ led # "start" => tcp # "start" /\ Bottom \in Blocks

(* Where a mailbox can be, a block is marked when there is one.            *)
Between == {Middle, High, MEMTBLSIZE - 2}

(* The table: everything below g_SendDate is free, a mailbox has its run.  *)
(* Until led_task is given its buffer the client's is marked, so that the  *)
(* mailbox lies below it.                                                  *)
Marks ==
  /\ memmap \in [Blocks -> Nat]
  /\ \A b \in Blocks : b < Bottom => memmap[b] = 0
  /\ Bottom \in Blocks => memmap[Bottom] \in {0, 1}
  /\ \A b \in Blocks : b \in Between => memmap[b] = IF b \in MboxRun THEN 3 ELSE 0
  /\ memmap[Top] \in (IF mbox = High THEN {0, 3} ELSE {0, 1})
  /\ led = "start" => /\ Bottom \in Blocks => memmap[Bottom] = 0
                      /\ memmap[Top] = IF tcp = "start" THEN 0 ELSE 1
                      /\ mbox # High

Layout == Pointers /\ Marks

(* Every entry of a queue is the address of its one buffer.                *)
Queues ==
  /\ q_msg \in Seq({Bottom}) /\ q_msg_ser \in Seq({Top})
  /\ led \in {"start", "boot"} => q_msg = <<>> /\ q_msg_ser = <<>> /\ inbox = <<>>
  /\ q_msg # <<>> => events > 0
  /\ led \in {"write2", "drain"} => p = Top

(* g_SendDate holds the last card event.                                   *)
LastEvent ==
  events > 0 => led \notin {"start", "boot"} /\ cell[Bottom] = Content("event", events)

(* The client is at its queue or its connection before led_task has the    *)
(* next turn.                                                              *)
Turns ==
  Stable =>
    /\ up => tcp \in {"pend", "recv"}
    /\ Len(q_msg) <= 1
    /\ q_msg # <<>> => up /\ (\/ tcp = "pend"
                              \/ tcp = "recv" /\ led \in {"serve", "write2", "drain"}
                              \/ tcp = "recv" /\ led = "sleep" /\ early)
    /\ Len(sent) + Len(q_msg) = events
    /\ EachOnce

IInv == TypeOK /\ Layout /\ Queues /\ LastEvent /\ SentReal /\ Turns

-----------------------------------------------------------------------------
(* The pool                                                                *)

LEMMA Shape ==
  /\ MEMTBLSIZE \in Nat /\ MEMTBLSIZE > 0 /\ Top \in Blocks
  /\ MboxBlocks = 3 /\ Pool!nmemb(11) = 1 /\ Pool!nmemb(16) = 1
  /\ MsgGrp_SIZE \in Nat /\ MsgGrp_SIZE > 0 /\ MaxEvents \in Nat /\ MaxAnswers \in Nat
  /\ None \notin Blocks /\ \A b \in Blocks : b \in Nat
<1>1. /\ MEMTBLSIZE \in Nat /\ MEMTBLSIZE > 0 /\ MsgGrp_SIZE \in Nat /\ MsgGrp_SIZE > 0
      /\ MaxEvents \in Nat /\ MaxAnswers \in Nat
  BY PathAssumption
<1>2. MboxBlocks = 3 /\ Pool!nmemb(11) = 1 /\ Pool!nmemb(16) = 1
  BY DEF MboxBlocks, Pool!nmemb
<1> QED BY <1>1, <1>2 DEF Top, Blocks, None

(* The scan stops at the highest run that is free.                         *)
LEMMA FoundIs ==
  ASSUME NEW m, NEW n, NEW o \in Pool!Found(m, n)
  PROVE  /\ o \in Blocks /\ o + n <= MEMTBLSIZE /\ \A b \in o .. (o + n - 1) : m[b] = 0
         /\ \A c \in Blocks : c + n <= MEMTBLSIZE /\ (\A b \in c .. (c + n - 1) : m[b] = 0)
              => c <= o
PROOF BY DEF Pool!Found, Pool!Candidates, Pool!Blocks, Blocks

LEMMA MarkedIs ==
  ASSUME NEW m, NEW o, NEW n
  PROVE  /\ Pool!Marked(m, o, n) = [b \in Blocks |-> IF b \in o .. (o + n - 1) THEN n ELSE m[b]]
         /\ Pool!Freed(m, o) = [b \in Blocks |-> IF b \in o .. (o + m[o] - 1) THEN 0 ELSE m[b]]
PROOF BY DEF Pool!Marked, Pool!Freed, Pool!Blocks, Blocks

(* A buffer that is given back, the second time and later too, takes no    *)
(* mark of another with it.                                                *)
LEMMA BuffersFreed ==
  ASSUME Marks, NEW b \in {Bottom, Top}, b \in Blocks
  PROVE  /\ Pool!Freed(memmap, b) \in [Blocks -> Nat]
         /\ \A c \in Blocks : Pool!Freed(memmap, b)[c] = IF c = b THEN 0 ELSE memmap[c]
<1>1. Pool!Freed(memmap, b) =
           [c \in Blocks |-> IF c \in b .. (b + memmap[b] - 1) THEN 0 ELSE memmap[c]]
  BY MarkedIs
<1>2. ASSUME NEW c \in Blocks
      PROVE  (IF c \in b .. (b + memmap[b] - 1) THEN 0 ELSE memmap[c])
                = IF c = b THEN 0 ELSE memmap[c]
  <2>1. memmap[b] \in {0, 1, 3} /\ (b = Bottom => memmap[b] # 3) /\ c \in Nat /\ b \in Nat
    BY Shape DEF Marks, Top, Bottom
  <2>2. CASE memmap[b] = 0
    BY <2>1, <2>2
  <2>3. CASE memmap[b] = 1
    BY <2>1, <2>3
  <2>4. CASE memmap[b] = 3
    <3>1. b = Top /\ c <= Top
      BY <2>1, <2>4, Shape DEF Top, Blocks
    <3> QED BY <2>1, <2>4, <3>1
  <2> QED BY <2>1, <2>2, <2>3, <2>4
<1>3. memmap \in [Blocks -> Nat]
  BY DEF Marks
<1> QED BY <1>1, <1>2, <1>3

(* The layout stays while nobody is given a block, and when a buffer is    *)
(* given back.                                                             *)
LEMMA LayoutStays ==
  ASSUME Layout, UNCHANGED <<ser_Date, g_SendDate, mbox>>,
         tcp' = "start" <=> tcp = "start", tcp' \in Connections <=> tcp \in Connections,
         led' = "start" <=> led = "start",
         \/ memmap' = memmap
         \/ led # "start" /\ \E b \in {Bottom, Top} : memmap' = Pool!Freed(memmap, b)
  PROVE  Layout'
<1>1. Pointers'
  BY DEF Layout, Pointers
<1>2. MboxRun' = MboxRun
  BY DEF MboxRun
<1>3. CASE memmap' = memmap
  BY <1>1, <1>2, <1>3 DEF Layout, Marks
<1>4. CASE led # "start" /\ \E b \in {Bottom, Top} : memmap' = Pool!Freed(memmap, b)
  <2>1. PICK b \in {Bottom, Top} : memmap' = Pool!Freed(memmap, b)
    BY <1>4
  <2>2. b \in Blocks /\ Top \in Blocks
    BY <1>4, Shape DEF Layout, Pointers
  <2>3. /\ memmap' \in [Blocks -> Nat]
        /\ \A c \in Blocks : memmap'[c] = IF c = b THEN 0 ELSE memmap[c]
    BY <2>1, <2>2, BuffersFreed DEF Layout
  <2>4. b \notin Between
    BY Shape DEF Between, Bottom, Top, Middle, High
  <2>5. /\ \A c \in Blocks : c < Bottom => memmap'[c] = 0
        /\ Bottom \in Blocks => memmap'[Bottom] \in {0, 1}
        /\ \A c \in Blocks : c \in Between => memmap'[c] = IF c \in MboxRun THEN 3 ELSE 0
        /\ memmap'[Top] \in (IF mbox = High THEN {0, 3} ELSE {0, 1})
    BY <2>2, <2>3, <2>4 DEF Layout, Marks
  <2> QED BY <1>1, <1>2, <1>4, <2>3, <2>5 DEF Layout, Marks
<1> QED BY <1>3, <1>4

-----------------------------------------------------------------------------
(* What the tasks are given                                                *)

LEMMA StartLayout ==
  ASSUME Layout, TcpStart
  PROVE  Layout'
<1>1. PICK o \in Pool!Found(memmap, Pool!nmemb(11)) :
        ser_Date' = o /\ memmap' = Pool!Marked(memmap, o, Pool!nmemb(11))
  BY DEF TcpStart
<1>2. /\ tcp = "start" /\ tcp' = "new" /\ led = "start" /\ led' = led
      /\ mbox = None /\ mbox' = mbox /\ g_SendDate = None /\ g_SendDate' = g_SendDate
      /\ memmap[Top] = 0
  BY DEF TcpStart, ledVars, Layout, Pointers, Marks, Connections
<1>3. o = Top
  <2>1. o \in Blocks /\ (Top + 1 <= MEMTBLSIZE /\ (\A b \in Top .. Top : memmap[b] = 0) => Top <= o)
    BY <1>1, Shape, FoundIs
  <2> QED BY <1>2, <2>1, Shape DEF Top, Blocks
<1>4. memmap' = [b \in Blocks |-> IF b = Top THEN 1 ELSE memmap[b]]
  <2>1. memmap' = [b \in Blocks |-> IF b \in Top .. (Top + 1 - 1) THEN 1 ELSE memmap[b]]
    BY <1>1, <1>3, Shape, MarkedIs
  <2>2. \A b \in Blocks : b \in Top .. (Top + 1 - 1) <=> b = Top
    BY Shape DEF Top
  <2> QED BY <2>1, <2>2
<1>5. Pointers'
  BY <1>1, <1>2, <1>3 DEF Pointers, Connections
<1>6. MboxRun = {} /\ MboxRun' = {} /\ mbox' # High
  BY <1>2, Shape DEF MboxRun, None, High
<1>7. Top \notin Between /\ ~(Top < Bottom) /\ Top # Bottom
  BY Shape DEF Top, Between, Bottom, Middle, High
<1> QED BY <1>2, <1>4, <1>5, <1>6, <1>7, Shape DEF Layout, Marks

LEMMA MailboxPlace ==
  ASSUME Layout, tcp = "new", NEW o \in Pool!Found(memmap, 3)
  PROVE  /\ o = IF memmap[Top] = 0 THEN High ELSE Middle
         /\ o \in Blocks
<1>1. /\ o \in Blocks /\ o + 3 <= MEMTBLSIZE /\ \A b \in o .. (o + 3 - 1) : memmap[b] = 0
      /\ \A c \in Blocks : c + 3 <= MEMTBLSIZE /\ (\A b \in c .. (c + 3 - 1) : memmap[b] = 0)
              => c <= o
  BY FoundIs
<1>2. \A b \in Blocks \cap Between : memmap[b] = 0
  BY DEF Layout, Pointers, Marks, Connections, MboxRun, None
<1>3. CASE memmap[Top] = 0
  <2>1. High \in Blocks /\ High + 3 <= MEMTBLSIZE /\ o <= High
    BY <1>1, Shape DEF Blocks, High
  <2>2. \A b \in High .. (High + 3 - 1) : b \in Blocks \cap Between \/ b = Top
    BY <2>1, Shape DEF High, Top, Blocks, Between
  <2>3. High <= o
    BY <1>1, <1>2, <1>3, <2>1, <2>2
  <2> QED BY <1>1, <1>3, <2>1, <2>3, Shape DEF High
<1>4. CASE memmap[Top] # 0
  <2>1. Top \notin o .. (o + 3 - 1)
    BY <1>1, <1>4
  <2>2. o <= Middle /\ Middle \in Blocks /\ Middle + 3 <= MEMTBLSIZE
    BY <1>1, <2>1, Shape DEF Blocks, Middle, Top
  <2>3. \A b \in Middle .. (Middle + 3 - 1) : b \in Blocks \cap Between
    BY <2>2, Shape DEF Middle, High, Blocks, Between
  <2>4. Middle <= o
    BY <1>1, <1>2, <2>2, <2>3
  <2> QED BY <1>1, <1>4, <2>2, <2>4, Shape DEF Middle
<1> QED BY <1>3, <1>4

LEMMA NewLayout ==
  ASSUME Layout, NewConnection
  PROVE  Layout'
<1>1. PICK o \in Pool!Found(memmap, 3) : mbox' = o /\ memmap' = Pool!Marked(memmap, o, 3)
  BY Shape DEF NewConnection
<1>2. /\ tcp = "new" /\ tcp' = "connecting" /\ led' = led /\ mbox = None
      /\ ser_Date' = ser_Date /\ g_SendDate' = g_SendDate
  BY DEF NewConnection, ledVars, bufVars, Layout, Pointers, Connections
<1>3. o = (IF memmap[Top] = 0 THEN High ELSE Middle) /\ o \in Blocks
  BY <1>1, <1>2, MailboxPlace
<1>4. memmap' = [b \in Blocks |-> IF b \in o .. (o + 3 - 1) THEN 3 ELSE memmap[b]]
  BY <1>1, MarkedIs
<1>5. Pointers'
  BY <1>1, <1>2, <1>3 DEF Layout, Pointers, Connections
<1>6. MboxRun = {} /\ MboxRun' = o .. (o + 3 - 1)
  BY <1>1, <1>2, <1>3, Shape DEF MboxRun
<1>7. /\ \A b \in Blocks : b < Bottom => b \notin o .. (o + 3 - 1)
      /\ Bottom \notin o .. (o + 3 - 1)
      /\ Top \in o .. (o + 3 - 1) <=> o = High
      /\ Top \in Blocks
  BY <1>3, Shape DEF Bottom, Top, High, Middle, Blocks
<1>8. led = "start" => o # High
  BY <1>2, <1>3, Shape DEF Layout, Marks, High, Middle
<1>9. memmap' \in [Blocks -> Nat]
  BY <1>4 DEF Layout, Marks
<1>10. /\ \A b \in Blocks : b < Bottom => memmap'[b] = 0
       /\ Bottom \in Blocks => memmap'[Bottom] = memmap[Bottom]
       /\ \A b \in Blocks : b \in Between => memmap'[b] = IF b \in MboxRun' THEN 3 ELSE 0
  BY <1>4, <1>6, <1>7 DEF Layout, Marks
<1>11. memmap'[Top] = IF o = High THEN 3 ELSE memmap[Top]
  BY <1>4, <1>7
<1>12. memmap[Top] \in {0, 1}
  BY <1>2, Shape DEF Layout, Marks, None, High
<1> QED BY <1>1, <1>2, <1>5, <1>8, <1>9, <1>10, <1>11, <1>12 DEF Layout, Marks

LEMMA LedLayout ==
  ASSUME Layout, LedStart
  PROVE  Layout'
<1>1. PICK o \in Pool!Found(memmap, 1) : g_SendDate' = o /\ memmap' = Pool!Marked(memmap, o, 1)
  BY Shape DEF LedStart
<1>2. /\ tcp \in Connections /\ tcp' = tcp /\ led = "start" /\ led' = "boot"
      /\ mbox' = mbox /\ ser_Date' = ser_Date
  BY DEF LedStart, LedRuns, TcpBlocked, Connections
<1>3. /\ mbox = Middle /\ mbox \in Blocks /\ memmap[Top] = 1
      /\ MboxRun = Between
      /\ \A b \in Between : b \in Blocks /\ memmap[b] = 3
  <2>1. mbox = Middle /\ mbox \in Blocks /\ memmap[Top] = 1
    BY <1>2 DEF Layout, Pointers, Marks, Connections
  <2>2. MboxRun = Between /\ Between \subseteq Blocks
    BY <2>1, Shape DEF MboxRun, Between, Middle, High, None, Blocks
  <2> QED BY <2>1, <2>2 DEF Layout, Marks
<1>4. o \in Blocks /\ memmap[o] = 0 /\ \A c \in Blocks : memmap[c] = 0 => c <= o
  <2>1. /\ o \in Blocks /\ o + 1 <= MEMTBLSIZE /\ \A b \in o .. (o + 1 - 1) : memmap[b] = 0
        /\ \A c \in Blocks : c + 1 <= MEMTBLSIZE /\ (\A b \in c .. (c + 1 - 1) : memmap[b] = 0)
                => c <= o
    BY <1>1, FoundIs
  <2>2. \A c \in Blocks : c \in Nat /\ c + 1 <= MEMTBLSIZE /\ c .. (c + 1 - 1) = {c}
    BY Shape DEF Blocks
  <2> QED BY <2>1, <2>2
<1>5. o = Bottom
  <2>1. o \notin Between /\ o # Top
    BY <1>3, <1>4
  <2>2. o <= Bottom /\ Bottom \in Blocks
    BY <1>4, <2>1, Shape DEF Between, Bottom, Middle, High, Top, Blocks
  <2>3. memmap[Bottom] = 0
    BY <1>2, <2>2 DEF Layout, Marks
  <2> QED BY <1>4, <2>2, <2>3, Shape DEF Bottom
<1>6. memmap' = [b \in Blocks |-> IF b = Bottom THEN 1 ELSE memmap[b]]
  <2>1. memmap' = [b \in Blocks |-> IF b \in Bottom .. (Bottom + 1 - 1) THEN 1 ELSE memmap[b]]
    BY <1>1, <1>5, MarkedIs
  <2>2. \A b \in Blocks : b \in Bottom .. (Bottom + 1 - 1) <=> b = Bottom
    BY Shape DEF Bottom, Blocks
  <2> QED BY <2>1, <2>2
<1>7. Pointers'
  BY <1>1, <1>2, <1>4, <1>5 DEF Layout, Pointers, Connections
<1>8. MboxRun' = MboxRun
  BY <1>2 DEF MboxRun
<1>9. Bottom \notin Between /\ Top # Bottom /\ Top \in Blocks /\ ~(Bottom < Bottom)
  BY Shape DEF Top, Between, Bottom, Middle, High
<1>10. memmap' \in [Blocks -> Nat]
  BY <1>6 DEF Layout, Marks
<1>11. \A b \in Blocks : memmap'[b] = IF b = Bottom THEN 1 ELSE memmap[b]
  BY <1>6
<1> HIDE DEF Bottom
<1>12. /\ \A b \in Blocks : b < Bottom => memmap'[b] = 0
       /\ Bottom \in Blocks => memmap'[Bottom] \in {0, 1}
  BY <1>2, <1>9, <1>11 DEF Layout, Marks
<1>13. \A b \in Blocks : b \in Between => memmap'[b] = IF b \in MboxRun THEN 3 ELSE 0
  BY <1>9, <1>11 DEF Layout, Marks
<1>14. memmap'[Top] \in (IF mbox' = High THEN {0, 3} ELSE {0, 1})
  BY <1>2, <1>9, <1>11 DEF Layout, Marks
<1>15. Marks'
  BY <1>2, <1>8, <1>10, <1>12, <1>13, <1>14 DEF Marks
<1> QED BY <1>7, <1>15 DEF Layout

LEMMA DeletedLayout ==
  ASSUME Layout, tcp \in Connections, Deleted
  PROVE  Layout'
<1>1. /\ memmap' = [b \in Blocks |-> IF b \in mbox .. (mbox + memmap[mbox] - 1) THEN 0 ELSE memmap[b]]
      /\ mbox' = None /\ tcp' = "new" /\ led' = led
      /\ ser_Date' = ser_Date /\ g_SendDate' = g_SendDate
  <2>1. /\ memmap' = Pool!Freed(memmap, mbox) /\ mbox' = None /\ tcp' = "new"
        /\ led' = led /\ ser_Date' = ser_Date /\ g_SendDate' = g_SendDate
    BY DEF Deleted, bufVars, ledVars
  <2>2. Pool!Freed(memmap, mbox) =
          [b \in Blocks |-> IF b \in mbox .. (mbox + memmap[mbox] - 1) THEN 0 ELSE memmap[b]]
    BY MarkedIs
  <2> QED BY <2>1, <2>2
<1>2. mbox \in {High, Middle} /\ mbox \in Blocks /\ mbox \in Between
  BY DEF Layout, Pointers, Between
<1>3. MboxRun = mbox .. (mbox + 3 - 1) /\ MboxRun' = {}
  BY <1>1, <1>2, Shape DEF MboxRun
<1>4. memmap[mbox] = 3
  <2>1. mbox \in MboxRun
    BY <1>2, <1>3, Shape
  <2> QED BY <1>2, <2>1 DEF Layout, Marks
<1>5. memmap' = [b \in Blocks |-> IF b \in MboxRun THEN 0 ELSE memmap[b]]
  BY <1>1, <1>3, <1>4
<1>6. Pointers'
  BY <1>1 DEF Layout, Pointers, Connections
<1>7. /\ Bottom \notin MboxRun
      /\ Top \in MboxRun <=> mbox = High
      /\ \A b \in Blocks : b < Bottom => b \notin MboxRun
      /\ Top \in Blocks /\ None # High
  BY <1>2, <1>3, Shape DEF Bottom, Top, High, Middle, Blocks, None
<1>8. memmap' \in [Blocks -> Nat]
  BY <1>5 DEF Layout, Marks
<1>9. /\ \A b \in Blocks : b < Bottom => memmap'[b] = 0
      /\ Bottom \in Blocks => memmap'[Bottom] = memmap[Bottom]
      /\ \A b \in Blocks : b \in Between => memmap'[b] = 0
  BY <1>5, <1>7 DEF Layout, Marks
<1>10. memmap'[Top] = IF mbox = High THEN 0 ELSE memmap[Top]
  BY <1>5, <1>7
<1>11. tcp # "start"
  BY DEF Connections
<1>12. memmap'[Top] \in {0, 1}
  BY <1>10 DEF Layout, Marks
<1>13. led' = "start" => /\ Bottom \in Blocks => memmap'[Bottom] = 0
                         /\ memmap'[Top] = 1
  BY <1>1, <1>9, <1>10, <1>11 DEF Layout, Marks
<1>14. mbox' # High
  BY <1>1, <1>7
<1> QED BY <1>1, <1>3, <1>6, <1>8, <1>9, <1>12, <1>13, <1>14 DEF Layout, Marks

-----------------------------------------------------------------------------
(* Layout, for every step                                                  *)

(* What the entries of a queue are when there is one.                      *)
LEMMA Entries ==
  ASSUME Layout, Queues
  PROVE  /\ q_msg # <<>> => Head(q_msg) = Bottom /\ Bottom \in Blocks /\ led # "start"
         /\ inbox # <<>> => ser_Date = Top /\ led # "start"
         /\ led # "start" => g_SendDate = Bottom /\ Bottom \in Blocks
         /\ led \in {"write2", "drain"} => p = Top
         /\ q_msg_ser # <<>> => Head(q_msg_ser) = Top
         /\ Top \in Blocks
BY Shape DEF Layout, Pointers, Queues

LEMMA LayoutKept ==
  ASSUME Layout, Queues, Next
  PROVE  Layout'
<1>1. CASE TcpStart \/ NewConnection \/ LedStart
  BY <1>1, StartLayout, NewLayout, LedLayout
<1>2. CASE ConnectFails \/ CloseConnection
  BY <1>2, DeletedLayout DEF ConnectFails, CloseConnection, Connections
<1>3. CASE Connected
  BY <1>3, LayoutStays DEF Connected, memVars, bufVars, ledVars, Connections
<1>4. CASE SendCard
  <2>1. led # "start" /\ memmap' = Pool!Freed(memmap, Bottom)
    BY <1>4, Entries DEF SendCard
  <2> QED BY <1>4, <2>1, LayoutStays DEF SendCard, ToRecv, bufVars, Connections
<1>5. CASE PendTimeout \/ ReceiveNothing
  BY <1>5, LayoutStays DEF PendTimeout, ReceiveNothing, ToRecv, memVars, bufVars, ledVars, Connections
<1>6. CASE Receive
  <2>1. led # "start" /\ (memmap' = memmap \/ memmap' = Pool!Freed(memmap, Top))
    BY <1>6, Entries DEF Receive, TableAfterPost
  <2> QED BY <1>6, <2>1, LayoutStays DEF Receive, bufVars, ledVars, Connections
<1>7. CASE \/ \E k \in {"AA", "other"}, n \in 1 .. MaxAnswers : AnswersArrive(k, n)
           \/ Breaks
  BY <1>7, LayoutStays DEF AnswersArrive, Breaks, memVars, bufVars, ledVars
<1>8. CASE PostEvent
  <2>1. led # "start" /\ led' # "start" /\ (memmap' = memmap \/ memmap' = Pool!Freed(memmap, Bottom))
    BY <1>8, Entries DEF PostEvent, TableAfterPost
  <2> QED BY <1>8, <2>1, LayoutStays DEF PostEvent, bufVars
<1>9. CASE Drain
  <2>1. led # "start" /\ led' # "start" /\ memmap' = Pool!Freed(memmap, Top)
    BY <1>9, Entries DEF Drain, ToSleep
  <2> QED BY <1>9, <2>1, LayoutStays DEF Drain, bufVars
<1>10. CASE PowerUp \/ NoEvent \/ ServeNone \/ Write2 \/ Wake
  BY <1>10, LayoutStays DEF PowerUp, NoEvent, ServeNone, Write2, Wake, ToSleep, memVars, bufVars
<1>11. CASE Serve
  <2>1. led # "start" /\ led' # "start"
    BY <1>11 DEF Serve
  <2> QED BY <1>11, <2>1, LayoutStays DEF Serve, memVars, bufVars
<1> QED BY <1>1, <1>2, <1>3, <1>4, <1>5, <1>6, <1>7, <1>8, <1>9, <1>10, <1>11
        DEF Next, TcpClient, LedTask

-----------------------------------------------------------------------------
(* Types and queues, for every step                                        *)

LEMMA PostedIs ==
  ASSUME NEW S, NEW q \in Seq(S), NEW b \in S, Len(q) <= MsgGrp_SIZE
  PROVE  Posted(q, b) \in Seq(S) /\ Len(Posted(q, b)) <= MsgGrp_SIZE
BY Shape DEF Posted

LEMMA ContentsAre ==
  ASSUME NEW n \in Nat
  PROVE  /\ Nothing \in Contents /\ Mailbox \in Contents
         /\ \A t \in {"event", "AA", "other"} : Content(t, n) \in Contents
BY DEF Contents, Content, Nothing, Mailbox

LEMMA TypesKept ==
  ASSUME TypeOK, Layout, Queues, Next, Layout'
  PROVE  TypeOK'
<1> DEFINE Rest1 == /\ Len(q_msg) <= MsgGrp_SIZE /\ Len(q_msg_ser) <= MsgGrp_SIZE
                    /\ tcp \in {"start", "new", "connecting", "pend", "recv"}
                    /\ led \in {"start", "boot", "post", "serve", "write2", "drain", "sleep"}
                    /\ waited \in 0 .. Patience /\ early \in BOOLEAN
                    /\ up \in BOOLEAN
                    /\ Stable \in BOOLEAN
           Rest2 == /\ cell \in [Blocks -> Contents]
                    /\ p \in Blocks \cup {None}
                    /\ q_msg \in Seq(Blocks) /\ q_msg_ser \in Seq(Blocks)
                    /\ TempBuff \in Contents
                    /\ inbox \in Seq(Seq(Contents) \ {<<>>})
                    /\ events \in 0 .. MaxEvents /\ answers \in 0 .. MaxAnswers
                    /\ sent \in Seq(Contents)
<1>1. /\ memmap' \in [Blocks -> Nat]
      /\ {ser_Date, g_SendDate, mbox}' \subseteq Blocks \cup {None}
  BY Shape DEF Layout, Marks, Pointers
<1>2. Rest1' /\ Rest2'
  <2>0. Rest1 /\ Rest2
    BY DEF TypeOK
  <2> USE DEF Patience
  <2>1. CASE TcpStart
    BY <2>0, <2>1 DEF TcpStart, ledVars, netVars
  <2>2. CASE NewConnection
    BY <2>0, <2>2, ContentsAre DEF NewConnection, ledVars, netVars
  <2>3. CASE Connected
    BY <2>0, <2>3 DEF Connected, memVars, ledVars
  <2>4. CASE ConnectFails \/ CloseConnection
    <3>1. inbox' \in Seq(Seq(Contents) \ {<<>>})
      <4>1. inbox' = <<>>
        BY <2>4 DEF ConnectFails, CloseConnection, Deleted
      <4> QED BY <4>1
    <3> QED BY <2>0, <2>4, <3>1 DEF ConnectFails, CloseConnection, Deleted, ledVars
  <2>5. CASE SendCard
    <3>1. cell[Head(q_msg)] \in Contents
      BY <2>0, <2>5, Entries DEF SendCard
    <3>2. sent' \in Seq(Contents)
      BY <2>0, <2>5, <3>1 DEF SendCard
    <3>3. q_msg' \in Seq(Blocks) /\ Len(q_msg') <= MsgGrp_SIZE
      BY <2>0, <2>5, Shape DEF SendCard, Taken
    <3>4. early' \in BOOLEAN
      BY <2>5 DEF SendCard, ToRecv
    <3> QED BY <2>0, <2>5, <3>2, <3>3, <3>4 DEF SendCard, ToRecv, netVars
  <2>6. CASE PendTimeout \/ ReceiveNothing
    <3>1. early' \in BOOLEAN
      BY <2>0, <2>6 DEF PendTimeout, ReceiveNothing, ToRecv, ledVars
    <3>2. UNCHANGED <<memVars, netVars, q_msg, q_msg_ser, events, sent>>
      BY <2>6 DEF PendTimeout, ReceiveNothing
    <3>3. /\ tcp' \in {"recv", "pend"} /\ waited' \in 0 .. Patience
          /\ UNCHANGED <<led, p, TempBuff>>
      BY <2>0, <2>6 DEF PendTimeout, ReceiveNothing, ToRecv, ledVars
    <3>4. Rest1'
      BY <2>0, <3>1, <3>2, <3>3 DEF netVars
    <3>5. Rest2'
      BY <2>0, <3>2, <3>3 DEF memVars, netVars
    <3> QED BY <3>4, <3>5
  <2>7. CASE Receive
    <3>1. ser_Date \in Blocks
      BY <2>7, Entries DEF Receive
    <3>2. q_msg_ser' \in Seq(Blocks) /\ Len(q_msg_ser') <= MsgGrp_SIZE
      BY <2>0, <2>7, <3>1, PostedIs DEF Receive
    <3>3. Looked(Head(inbox)) \in Contents /\ inbox' \in Seq(Seq(Contents) \ {<<>>})
      <4> DEFINE Segments == Seq(Contents) \ {<<>>}
      <4>1. inbox \in Seq(Segments) /\ inbox # <<>> /\ inbox' = Tail(inbox)
        BY <2>0, <2>7 DEF Receive
      <4>2. Head(inbox) \in Segments /\ inbox' \in Seq(Segments)
        <5> HIDE DEF Segments
        <5> QED BY <4>1
      <4> QED BY <4>2 DEF Looked
    <3> QED BY <2>0, <2>7, <3>1, <3>2, <3>3 DEF Receive, ledVars
  <2>8. ASSUME NEW k \in {"AA", "other"}, NEW n \in 1 .. MaxAnswers, AnswersArrive(k, n)
        PROVE  Rest1' /\ Rest2'
    <3>1. answers' \in 0 .. MaxAnswers /\ answers' \in Nat
      BY <2>0, <2>8, Shape DEF AnswersArrive
    <3>2. inbox' \in Seq(Seq(Contents) \ {<<>>})
      <4> DEFINE Segments == Seq(Contents) \ {<<>>}
                 segment == [i \in 1 .. n |-> Content(k, answers + i)]
      <4>1. \A i \in 1 .. n : Content(k, answers + i) \in Contents
        BY <2>0, <2>8, Shape, ContentsAre
      <4>2. n \in Nat \ {0}
        BY Shape
      <4>3. segment \in Seq(Contents) /\ Len(segment) = n
        BY <4>1, <4>2
      <4>4. segment \in Segments
        BY <4>2, <4>3
      <4>5. inbox \in Seq(Segments) /\ inbox' = Append(inbox, segment)
        BY <2>0, <2>8 DEF AnswersArrive
      <4> HIDE DEF Segments, segment
      <4>6. inbox' \in Seq(Segments)
        BY <4>4, <4>5
      <4> QED BY <4>6 DEF Segments
    <3> QED BY <2>0, <2>8, <3>1, <3>2 DEF AnswersArrive, memVars, ledVars
  <2>9. CASE Breaks
    BY <2>0, <2>9 DEF Breaks, memVars, ledVars
  <2>10. ASSUME LedRuns
         PROVE  waited' \in 0 .. Patience
    BY <2>0, <2>10 DEF LedRuns
  <2>11. CASE LedStart
    BY <2>0, <2>10, <2>11 DEF LedStart, netVars
  <2>12. CASE PowerUp \/ NoEvent \/ Wake
    BY <2>0, <2>10, <2>12 DEF PowerUp, NoEvent, Wake, memVars, netVars
  <2>13. CASE PostEvent
    <3>1. g_SendDate \in Blocks
      BY <2>13, Entries DEF PostEvent
    <3>2. q_msg' \in Seq(Blocks) /\ Len(q_msg') <= MsgGrp_SIZE
      BY <2>0, <2>13, <3>1, PostedIs DEF PostEvent
    <3>3. events' \in 0 .. MaxEvents /\ events' \in Nat
      BY <2>0, <2>13, Shape DEF PostEvent
    <3>4. cell' \in [Blocks -> Contents]
      BY <2>0, <2>13, <3>3, ContentsAre DEF PostEvent
    <3> QED BY <2>0, <2>10, <2>13, <3>2, <3>3, <3>4 DEF PostEvent, netVars
  <2>14. CASE Serve
    <3>1. p' \in Blocks /\ TempBuff' \in Contents
      BY <2>0, <2>14, Entries DEF Serve
    <3>2. q_msg_ser' \in Seq(Blocks) /\ Len(q_msg_ser') <= MsgGrp_SIZE
      BY <2>0, <2>14, Shape DEF Serve
    <3> QED BY <2>0, <2>10, <2>14, <3>1, <3>2 DEF Serve, memVars, netVars
  <2>15. CASE ServeNone
    BY <2>0, <2>10, <2>15 DEF ServeNone, ToSleep, memVars, netVars
  <2>16. CASE Write2
    BY <2>0, <2>10, <2>16 DEF Write2, memVars, netVars
  <2>17. CASE Drain
    BY <2>0, <2>10, <2>17 DEF Drain, ToSleep, netVars
  <2> QED BY <2>1, <2>2, <2>3, <2>4, <2>5, <2>6, <2>7, <2>8, <2>9, <2>11, <2>12, <2>13,
             <2>14, <2>15, <2>16, <2>17 DEF Next, TcpClient, LedTask
<1> QED BY <1>1, <1>2 DEF TypeOK

LEMMA QueuesKept ==
  ASSUME TypeOK, Layout, Queues, Next
  PROVE  Queues'
<1> DEFINE Q1 == q_msg \in Seq({Bottom})
           Q2 == q_msg_ser \in Seq({Top})
           Q3 == led \in {"start", "boot"} => q_msg = <<>> /\ q_msg_ser = <<>> /\ inbox = <<>>
           Q4 == q_msg # <<>> => events > 0
           Q5 == led \in {"write2", "drain"} => p = Top
<1>1. Q1 /\ Q2 /\ Q3 /\ Q4 /\ Q5 /\ events \in Nat
  BY Shape DEF Queues, TypeOK
<1>2. Q1' /\ Q2' /\ Q3' /\ Q4' /\ Q5'
  <2>1. CASE TcpStart \/ NewConnection \/ LedStart
    BY <1>1, <2>1 DEF TcpStart, NewConnection, LedStart, bufVars, ledVars, netVars
  <2>2. CASE Connected
    BY <1>1, <2>2 DEF Connected, ledVars
  <2>3. CASE ConnectFails \/ CloseConnection
    BY <1>1, <2>3 DEF ConnectFails, CloseConnection, Deleted, ledVars
  <2>4. CASE SendCard
    <3>1. /\ q_msg' \in Seq({Bottom}) /\ q_msg' = Tail(q_msg) /\ q_msg # <<>>
          /\ events' = events /\ q_msg_ser' = q_msg_ser /\ led' = led /\ p' = p /\ inbox' = inbox
      BY <1>1, <2>4 DEF SendCard, Taken, ToRecv, netVars
    <3> QED BY <1>1, <3>1
  <2>5. CASE PendTimeout \/ ReceiveNothing
    BY <1>1, <2>5 DEF PendTimeout, ReceiveNothing, ToRecv, memVars, netVars, ledVars
  <2>6. CASE Receive
    <3>1. ser_Date = Top /\ inbox # <<>>
      BY <2>6, Entries DEF Receive
    <3>2. q_msg_ser' \in Seq({Top})
      BY <1>1, <2>6, <3>1, PostedIs DEF Receive, TypeOK
    <3> QED BY <1>1, <2>6, <3>1, <3>2 DEF Receive, ledVars
  <2>7. ASSUME NEW k \in {"AA", "other"}, NEW n \in 1 .. MaxAnswers, AnswersArrive(k, n)
        PROVE  Q1' /\ Q2' /\ Q3' /\ Q4' /\ Q5'
    BY <1>1, <2>7 DEF AnswersArrive, ledVars
  <2>8. CASE Breaks
    BY <1>1, <2>8 DEF Breaks, ledVars
  <2>9. CASE PowerUp \/ NoEvent \/ Wake
    BY <1>1, <2>9 DEF PowerUp, NoEvent, Wake, netVars
  <2>10. CASE PostEvent
    <3>1. g_SendDate = Bottom
      BY <2>10, Entries DEF PostEvent
    <3>2. q_msg' \in Seq({Bottom})
      BY <1>1, <2>10, <3>1, PostedIs DEF PostEvent, TypeOK
    <3> QED BY <1>1, <2>10, <3>2 DEF PostEvent
  <2>11. CASE Serve
    <3>1. p' = Top
      BY <2>11, Entries DEF Serve
    <3>2. q_msg_ser' \in Seq({Top})
      BY <1>1, <2>11 DEF Serve
    <3> QED BY <1>1, <2>11, <3>1, <3>2 DEF Serve, netVars
  <2>12. CASE ServeNone \/ Drain
    BY <1>1, <2>12 DEF ServeNone, Drain, ToSleep, netVars
  <2>13. CASE Write2
    BY <1>1, <2>13 DEF Write2, netVars
  <2> QED BY <2>1, <2>2, <2>3, <2>4, <2>5, <2>6, <2>7, <2>8, <2>9, <2>10, <2>11, <2>12, <2>13
          DEF Next, TcpClient, LedTask
<1> QED BY <1>2, Shape DEF Queues, Top, Bottom

-----------------------------------------------------------------------------
(* Events, for every step                                                  *)

(* Only led_task writes into its buffer.                                   *)
LEMMA BottomKept ==
  ASSUME TypeOK, Layout, Queues, Bottom \in Blocks, Next, ~PostEvent
  PROVE  cell'[Bottom] = cell[Bottom]
<1>1. CASE NewConnection
  <2>1. PICK o \in Pool!Found(memmap, 3) :
          cell' = [b \in Blocks |-> IF b \in o .. (o + 3 - 1) THEN Mailbox ELSE cell[b]]
    BY <1>1, Shape DEF NewConnection
  <2>2. o \in {High, Middle} /\ o \in Blocks
    BY <1>1, MailboxPlace DEF NewConnection
  <2>3. Bottom \notin o .. (o + 3 - 1)
    BY <2>2, Shape DEF High, Middle, Bottom
  <2> QED BY <2>1, <2>3
<1>2. CASE Receive
  <2>1. ser_Date = Top /\ Top # Bottom
    BY <1>2, Entries, Shape DEF Receive, Top, Bottom
  <2> QED BY <1>2, <2>1 DEF Receive, TypeOK
<1>3. ASSUME ~NewConnection, ~Receive
      PROVE  cell' = cell
  BY <1>3 DEF Next, TcpClient, LedTask, TcpStart, Connected, ConnectFails, Deleted, SendCard,
     PendTimeout, ReceiveNothing, CloseConnection, AnswersArrive, Breaks, LedStart, PowerUp,
     NoEvent, Serve, ServeNone, Write2, Drain, Wake, memVars
<1> QED BY <1>1, <1>2, <1>3

(* The two buffers are the only blocks the tasks write.                    *)
LEMMA CellWritten ==
  ASSUME Layout, Queues, TypeOK, [Next]_vars, ~NewConnection
  PROVE  \A b \in Blocks : b # Top /\ b # Bottom => cell'[b] = cell[b]
<1>1. CASE PostEvent
  BY <1>1, Entries DEF PostEvent, TypeOK
<1>2. CASE Receive
  BY <1>2, Entries DEF Receive, TypeOK
<1>3. CASE ~PostEvent /\ ~Receive
  BY <1>3 DEF Next, TcpClient, LedTask, TcpStart, Connected, ConnectFails, Deleted, SendCard,
     PendTimeout, ReceiveNothing, CloseConnection, AnswersArrive, Breaks, LedStart, PowerUp,
     NoEvent, Serve, ServeNone, Write2, Drain, Wake, memVars, vars
<1> QED BY <1>1, <1>2, <1>3

LEMMA EventsCounted ==
  ASSUME Next
  PROVE  /\ ~PostEvent => events' = events
         /\ PostEvent => events' = events + 1
         /\ led \notin {"start", "boot"} => led' \notin {"start", "boot"}
<1>1. ~PostEvent => events' = events
  BY DEF Next, TcpClient, LedTask, TcpStart, NewConnection, Connected, ConnectFails, Deleted,
     SendCard, PendTimeout, Receive, ReceiveNothing, CloseConnection, AnswersArrive, Breaks,
     LedStart, PowerUp, NoEvent, Serve, ServeNone, Write2, Drain, Wake
<1>2. TcpClient => led' = led
  BY DEF TcpClient, TcpStart, NewConnection, Connected, ConnectFails, Deleted,
     SendCard, PendTimeout, Receive, ReceiveNothing, CloseConnection, ToRecv, ledVars
<1>3. LedTask => led' \in {"post", "serve", "write2", "drain", "sleep"} \/ led = "start"
  BY DEF LedTask, LedStart, PowerUp, PostEvent, NoEvent, Serve, ServeNone, Write2, Drain, Wake,
     ToSleep
<1>4. (\E k \in {"AA", "other"}, n \in 1 .. MaxAnswers : AnswersArrive(k, n)) \/ Breaks => led' = led
  BY DEF AnswersArrive, Breaks, ledVars
<1> QED BY <1>1, <1>2, <1>3, <1>4 DEF Next, PostEvent

LEMMA LastEventKept ==
  ASSUME TypeOK, Layout, Queues, LastEvent, Next
  PROVE  LastEvent'
<1>1. CASE PostEvent
  <2>1. g_SendDate = Bottom /\ Bottom \in Blocks
    BY <1>1, Entries DEF PostEvent
  <2> QED BY <1>1, <2>1 DEF PostEvent, LastEvent, TypeOK
<1>2. CASE ~PostEvent
  <2>1. events' = events /\ (led \notin {"start", "boot"} => led' \notin {"start", "boot"})
    BY <1>2, EventsCounted
  <2>2. led \notin {"start", "boot"} => Bottom \in Blocks
    BY DEF Layout, Pointers
  <2> QED BY <1>2, <2>1, <2>2, BottomKept DEF LastEvent
<1> QED BY <1>1, <1>2

(* What is sent is the last card event.                                    *)
LEMMA SentIs ==
  ASSUME TypeOK, Layout, Queues, LastEvent, Next
  PROVE  \/ sent' = sent
         \/ /\ SendCard /\ up
            /\ sent' = Append(sent, Content("event", events)) /\ events > 0
<1>1. CASE SendCard
  BY <1>1, Entries DEF SendCard, Queues, LastEvent
<1>2. ~SendCard => sent' = sent
  BY DEF Next, TcpClient, LedTask, TcpStart, NewConnection, Connected, ConnectFails, Deleted,
     PendTimeout, Receive, ReceiveNothing, CloseConnection, AnswersArrive, Breaks,
     LedStart, PowerUp, PostEvent, NoEvent, Serve, ServeNone, Write2, Drain, Wake
<1> QED BY <1>1, <1>2

LEMMA SentRealKept ==
  ASSUME TypeOK, Layout, Queues, LastEvent, SentReal, Next
  PROVE  SentReal'
<1>1. events \in Nat /\ events' \in Nat /\ events <= events' /\ sent \in Seq(Contents)
  <2>1. events \in Nat /\ sent \in Seq(Contents)
    BY Shape DEF TypeOK
  <2>2. events' = events \/ events' = events + 1
    BY EventsCounted
  <2> QED BY <2>1, <2>2
<1>2. CASE sent' = sent
  <2>1. SentReal
    OBVIOUS
  <2> QED BY <1>1, <1>2, <2>1 DEF SentReal
<1>3. CASE sent' = Append(sent, Content("event", events)) /\ events > 0
  <2>1. ASSUME NEW i \in 1 .. Len(sent')
        PROVE  /\ sent'[i].tag = "event" /\ sent'[i].n \in 1 .. events
               /\ i <= Len(sent) => sent'[i] = sent[i]
               /\ i > Len(sent) => sent'[i].n = events
    BY <1>1, <1>3 DEF SentReal, Content
  <2>2. ASSUME NEW i \in 1 .. Len(sent'), NEW j \in 1 .. i
        PROVE  sent'[j].n <= sent'[i].n
    <3>1. j \in 1 .. Len(sent') /\ Len(sent) \in Nat
      BY <1>1, <1>3
    <3>2. CASE i <= Len(sent)
      BY <2>1, <2>2, <3>1, <3>2 DEF SentReal
    <3>3. CASE i > Len(sent)
      <4>1. sent'[i].n = events /\ sent'[j].n \in 1 .. events
        BY <2>1, <3>1, <3>3
      <4> QED BY <1>1, <4>1
    <3> QED BY <3>1, <3>2, <3>3
  <2>3. events' \in Nat /\ \A n \in 1 .. events : n \in 1 .. events'
    BY <1>1
  <2>4. ASSUME NEW i \in 1 .. Len(sent')
        PROVE  sent'[i].tag = "event" /\ sent'[i].n \in 1 .. events'
    BY <2>1, <2>3
  <2> QED BY <2>2, <2>4 DEF SentReal
<1> QED BY <1>2, <1>3, SentIs

LEMMA OneEntry ==
  ASSUME NEW S, NEW q \in Seq(S), Len(q) <= 1, q # <<>>
  PROVE  Len(q) = 1 /\ Tail(q) = <<>>
<1>1. Len(q) = 1
  <2>1. Len(q) \in Nat /\ Len(q) # 0
    BY EmptySeq
  <2> QED BY <2>1
<1>2. Tail(q) \in Seq(S) /\ Len(Tail(q)) = 0
  BY <1>1
<1> QED BY <1>1, <1>2, EmptySeq

(* One event is in the queue at most, because the client takes it before   *)
(* led_task comes to the next turn.                                        *)
LEMMA TurnsKept ==
  ASSUME IInv, Next, Queues'
  PROVE  Turns'
<1> DEFINE T1 == up => tcp \in {"pend", "recv"}
           T2 == Len(q_msg) <= 1
           T3 == q_msg # <<>> => up /\ (\/ tcp = "pend"
                                        \/ tcp = "recv" /\ led \in {"serve", "write2", "drain"}
                                        \/ tcp = "recv" /\ led = "sleep" /\ early)
           T4 == Len(sent) + Len(q_msg) = events
           T5 == \A i \in 1 .. Len(sent) : sent[i] = Content("event", i)
<1>1. Stable' = Stable
  BY DEF Next, TcpClient, LedTask, TcpStart, NewConnection, Connected, ConnectFails, Deleted,
     SendCard, PendTimeout, Receive, ReceiveNothing, CloseConnection, AnswersArrive, Breaks,
     LedStart, PowerUp, PostEvent, NoEvent, Serve, ServeNone, Write2, Drain, Wake, netVars
<1> SUFFICES ASSUME Stable
             PROVE  T1' /\ T2' /\ T3' /\ T4' /\ T5'
  BY <1>1 DEF Turns, EachOnce
<1>2. /\ T1 /\ T2 /\ T3 /\ T4 /\ T5
      /\ sent \in Seq(Contents) /\ q_msg \in Seq({Bottom}) /\ events \in Nat
      /\ led = "start" \/ led = "boot" => q_msg = <<>>
      /\ q_msg # <<>> => Len(q_msg) = 1 /\ Tail(q_msg) = <<>>
  <2>1. T1 /\ T2 /\ T3 /\ T4 /\ T5
    BY DEF IInv, Turns, EachOnce
  <2>2. sent \in Seq(Contents) /\ q_msg \in Seq({Bottom}) /\ events \in Nat
    BY Shape DEF IInv, TypeOK, Queues
  <2>3. led = "start" \/ led = "boot" => q_msg = <<>>
    BY DEF IInv, Queues
  <2>4. q_msg # <<>> => Len(q_msg) = 1 /\ Tail(q_msg) = <<>>
    BY <2>1, <2>2, OneEntry
  <2> HIDE DEF T1, T2, T3, T4, T5
  <2> QED BY <2>1, <2>2, <2>3, <2>4
<1>3. T1'
  BY <1>2 DEF Next, TcpClient, LedTask, TcpStart, NewConnection, Connected, ConnectFails, Deleted,
     SendCard, PendTimeout, Receive, ReceiveNothing, CloseConnection, AnswersArrive, Breaks, ToRecv,
     LedStart, PowerUp, PostEvent, NoEvent, Serve, ServeNone, Write2, Drain, Wake, netVars
<1>4. CASE SendCard
  <2>1. /\ q_msg' = <<>> /\ events' = events /\ sent' = Append(sent, Content("event", events))
        /\ Len(sent) + 1 = events
    <3>1. up
      BY <1>2, <1>4 DEF SendCard
    <3>2. cell[Head(q_msg)] = Content("event", events)
      BY <1>4, Entries DEF IInv, SendCard, Queues, LastEvent
    <3> QED BY <1>2, <1>4, <3>1, <3>2 DEF SendCard, Taken
  <2> QED BY <1>2, <1>3, <2>1
<1>5. CASE PostEvent
  <2>1. q_msg = <<>> /\ up /\ (tcp = "pend" \/ tcp = "recv")
    BY <1>2, <1>5 DEF PostEvent, LedRuns, TcpBlocked
  <2>2. q_msg' = <<g_SendDate>> /\ Len(q_msg') = 1
    BY <1>5, <2>1, Shape DEF PostEvent, Posted
  <2>3. /\ events' = events + 1 /\ sent' = sent /\ up' = up /\ tcp' = tcp /\ led' = "serve"
    BY <1>5 DEF PostEvent, netVars
  <2> QED BY <1>2, <1>3, <2>1, <2>2, <2>3
<1>6. CASE ServeNone \/ Drain
  <2>1. /\ q_msg' = q_msg /\ sent' = sent /\ events' = events /\ up' = up /\ tcp' = tcp
        /\ led' = "sleep" /\ led \in {"serve", "drain"}
    BY <1>6 DEF ServeNone, Drain, ToSleep, netVars
  <2>2. tcp = "recv" => early'
    BY <1>6 DEF ServeNone, Drain, ToSleep
  <2> QED BY <1>2, <1>3, <2>1, <2>2
<1>7. CASE Wake
  <2>1. q_msg # <<>> => FALSE
    BY <1>2, <1>7 DEF Wake, LedRuns, TcpBlocked
  <2> QED BY <1>2, <1>3, <1>7, <2>1 DEF Wake
<1>8. CASE \/ TcpStart \/ NewConnection \/ Connected \/ ConnectFails
           \/ PendTimeout \/ Receive \/ ReceiveNothing
  <2>1. q_msg' = q_msg /\ sent' = sent /\ events' = events
    BY <1>8 DEF TcpStart, NewConnection, Connected, ConnectFails, Deleted, PendTimeout,
       Receive, ReceiveNothing
  <2>2. q_msg # <<>> => up' /\ tcp' = "pend"
    BY <1>2, <1>8 DEF TcpStart, NewConnection, Connected, ConnectFails, PendTimeout,
       Receive, ReceiveNothing, netVars
  <2> QED BY <1>2, <1>3, <2>1, <2>2
<1>9. CASE \/ CloseConnection \/ Breaks
           \/ \E k \in {"AA", "other"}, n \in 1 .. MaxAnswers : AnswersArrive(k, n)
  <2>1. /\ q_msg' = q_msg /\ sent' = sent /\ events' = events /\ up' = up /\ tcp' = tcp
        /\ led' = led /\ early' = early
    BY <1>9 DEF CloseConnection, Breaks, AnswersArrive, ledVars
  <2> QED BY <1>2, <1>3, <2>1
<1>10. CASE LedStart \/ PowerUp
  BY <1>2, <1>3, <1>10 DEF LedStart, PowerUp
<1>11. CASE NoEvent \/ Serve \/ Write2
  <2>1. /\ q_msg' = q_msg /\ sent' = sent /\ events' = events /\ up' = up /\ tcp' = tcp
        /\ led' \in {"serve", "write2", "drain"} /\ led \in {"post", "serve", "write2"}
    BY <1>11 DEF NoEvent, Serve, Write2, netVars
  <2> QED BY <1>2, <1>3, <2>1
<1> QED BY <1>4, <1>5, <1>6, <1>7, <1>8, <1>9, <1>10, <1>11 DEF Next, TcpClient, LedTask

-----------------------------------------------------------------------------
(* Results                                                                 *)

LEMMA InitIInv ==
  ASSUME Init
  PROVE  IInv
<1>1. Stable \in BOOLEAN
  BY PathAssumption DEF Init
<1>2. TypeOK
  <2>1. Nothing \in Contents
    BY ContentsAre
  <2>2. /\ q_msg \in Seq(Blocks) /\ q_msg_ser \in Seq(Blocks) /\ inbox \in Seq(Seq(Contents) \ {<<>>})
        /\ sent \in Seq(Contents)
    BY DEF Init
  <2>3. /\ memmap \in [Blocks -> Nat] /\ cell \in [Blocks -> Contents]
        /\ {ser_Date, g_SendDate, mbox, p} \subseteq Blocks \cup {None}
        /\ TempBuff \in Contents
    BY <2>1 DEF Init
  <2>4. Len(q_msg) <= MsgGrp_SIZE /\ Len(q_msg_ser) <= MsgGrp_SIZE
    BY Shape DEF Init
  <2>5. /\ waited \in 0 .. Patience /\ events \in 0 .. MaxEvents /\ answers \in 0 .. MaxAnswers
    BY Shape DEF Init, Patience
  <2>6. early \in BOOLEAN /\ up \in BOOLEAN
    BY DEF Init
  <2> QED BY <1>1, <2>2, <2>3, <2>4, <2>5, <2>6 DEF Init, TypeOK
<1>3. Layout
  BY Shape DEF Init, Layout, Pointers, Marks, MboxRun, Connections, Between, High, Top, None, Bottom
<1>4. Queues /\ LastEvent /\ SentReal /\ Turns
  BY DEF Init, Queues, LastEvent, SentReal, Turns, EachOnce
<1> QED BY <1>2, <1>3, <1>4 DEF IInv

LEMMA NextIInv ==
  ASSUME IInv, [Next]_vars
  PROVE  IInv'
<1>1. CASE Next
  <2>1. Layout'
    BY <1>1, LayoutKept DEF IInv
  <2>2. TypeOK' /\ Queues'
    BY <1>1, <2>1, TypesKept, QueuesKept DEF IInv
  <2>3. LastEvent' /\ SentReal'
    BY <1>1, LastEventKept, SentRealKept DEF IInv
  <2> QED BY <1>1, <2>1, <2>2, <2>3, TurnsKept DEF IInv
<1>2. CASE UNCHANGED vars
  BY <1>2 DEF vars, IInv, TypeOK, Layout, Pointers, Marks, MboxRun, Queues, LastEvent, SentReal,
     Turns, EachOnce
<1> QED BY <1>1, <1>2

(* The buffers and the mailbox lie where they were first handed out, and   *)
(* the queues hold what Queues and Turns say, in every state: the two      *)
(* tasks of main.c and tcp_client_demo.c and the mailbox of sys_arch.c.    *)
THEOREM PathInvariant == Spec => []IInv
<1>1. Init => IInv
  BY InitIInv
<1>2. IInv /\ [Next]_vars => IInv'
  BY NextIInv
<1> QED BY <1>1, <1>2, PTL DEF Spec

(* Every variable has its type: the queues never hold more than their      *)
(* entries.                                                                *)
THEOREM PathTypes == Spec => []TypeOK
<1>1. IInv => TypeOK
  BY DEF IInv
<1> QED BY <1>1, PathInvariant, PTL

(* What the client sends from q_msg is always a card event, in order, also *)
(* when the connection breaks and whatever is freed twice.                 *)
THEOREM PathSentReal == Spec => []SentReal
<1>1. IInv => SentReal
  BY DEF IInv
<1> QED BY <1>1, PathInvariant, PTL

(* On a connection that stays, the n-th message the server is sent is the  *)
(* n-th card event.                                                        *)
THEOREM PathEachOnce == Spec => []EachOnce
<1>1. IInv => EachOnce
  BY DEF IInv, Turns, EachOnce
<1> QED BY <1>1, PathInvariant, PTL

(* A mailbox that lies below the client's buffer, as the first connection's *)
(* does, is written by no one but lwIP.                                    *)
FirstIntact == mbox = Middle => MailboxIntact

(* What is lost to MailboxIntact is lost to one cause: a mailbox that is   *)
(* allocated while the client's buffer counts as free takes its block.     *)
THEOREM PathFirstMailbox == Spec => []FirstIntact
<1>1. Init => FirstIntact
  BY Shape DEF Init, FirstIntact, MailboxIntact, MboxRun, None, Middle
<1>2. ASSUME IInv, FirstIntact, [Next]_vars
      PROVE  FirstIntact'
  <2>1. CASE NewConnection
    <3>1. PICK o \in Pool!Found(memmap, 3) :
            /\ mbox' = o
            /\ cell' = [b \in Blocks |-> IF b \in o .. (o + 3 - 1) THEN Mailbox ELSE cell[b]]
      BY <2>1, Shape DEF NewConnection
    <3>2. o \in Blocks /\ o + 3 <= MEMTBLSIZE
      BY FoundIs
    <3>3. \A b \in MboxRun' : b \in Blocks /\ b \in o .. (o + 3 - 1)
      BY <3>1, <3>2, Shape DEF MboxRun, Blocks
    <3> QED BY <3>1, <3>3 DEF FirstIntact, MailboxIntact, Mailbox, Content
  <2>2. CASE ~NewConnection /\ mbox' = mbox
    <3>1. mbox = Middle => MboxRun' = MboxRun /\ Top \notin MboxRun /\ Bottom \notin MboxRun
      BY <2>2, Shape DEF MboxRun, Middle, Top, Bottom, None
    <3>2. \A b \in Blocks : b # Top /\ b # Bottom => cell'[b] = cell[b]
      BY <1>2, <2>2, CellWritten DEF IInv
    <3>3. mbox = Middle => \A b \in MboxRun : b \in Blocks
      <4>1. mbox = Middle => mbox \in Blocks
        BY <1>2, Shape DEF IInv, Layout, Pointers, None, Middle
      <4> QED BY <4>1, Shape DEF MboxRun, Blocks, Middle
    <3> QED BY <1>2, <2>2, <3>1, <3>2, <3>3 DEF FirstIntact, MailboxIntact
  <2>3. CASE ConnectFails \/ CloseConnection
    BY <2>3, Shape DEF ConnectFails, CloseConnection, Deleted, FirstIntact, None, Middle
  <2> QED BY <1>2, <2>1, <2>2, <2>3 DEF Next, TcpClient, LedTask, TcpStart, Connected, SendCard,
     PendTimeout, Receive, ReceiveNothing, AnswersArrive, Breaks, LedStart, PowerUp, PostEvent,
     NoEvent, Serve, ServeNone, Write2, Drain, Wake, vars
<1> QED BY <1>1, <1>2, PathInvariant, PTL DEF Spec
=============================================================================

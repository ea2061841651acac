-------------------------- MODULE ReaderPollProofs --------------------------
(***************************************************************************)
(* For any number of readers, cards, events and FIFO places, and whether   *)
(* or not frames are lost or late: what led_task stores for a reader never *)
(* goes back to an earlier event of that reader; an event's flag is        *)
(* cleared only where the event is put in the queue, if that has room; and *)
(* a reader that is alone is acknowledged only what was stored.  With      *)
(* several readers on a bus that loses nothing and is never late no event  *)
(* is put in the queue twice, unless it was wrong the first time.          *)
(*                                                                         *)
(* The first argument follows a frame on its way wire, FIFO, row: seen     *)
(* from the row, the event numbers of one reader's frames never decrease   *)
(* along that way, and none is above the number of events that happened.   *)
(* The second is about the turns, one for the poll of a row and the next   *)
(* for its report.  The third joins both: TempBuff is of the last event    *)
(* or of the one before it, and these differ in kind.                      *)
(* The fourth follows every frame the second poll for a pulled card leaves *)
(* in the FIFO to the poll that throws it away.                            *)
(***************************************************************************)
EXTENDS ReaderPoll, SequenceTheorems, FiniteSetTheorems, TLAPS

(* Frames of one reader in q are in the order of their events.             *)
Sorted(q) ==
  \A i, j \in 1 .. Len(q) :
    i <= j /\ q[i].from = q[j].from => q[i].amt <= q[j].amt

(* Frames of one reader in f are not younger than those in w.              *)
Before(f, w) ==
  \A i \in 1 .. Len(f), j \in 1 .. Len(w) :
    f[i].from = w[j].from => f[i].amt <= w[j].amt

(* The event numbers in q lie between what is stored and what happened.    *)
Between(q, s, c) ==
  \A i \in 1 .. Len(q) : s[q[i].from] <= q[i].amt /\ q[i].amt <= c[q[i].from]

(* f the FIFO, w the wire, s the event stored last and c the number of     *)
(* events of each reader.                                                  *)
Flow(f, w, s, c) ==
  /\ f \in Seq(Frames) /\ w \in Seq(Frames)
  /\ s \in [Readers -> Amounts] /\ c \in [Readers -> Amounts]
  /\ Sorted(f) /\ Sorted(w) /\ Before(f, w)
  /\ Between(f, s, c) /\ Between(w, s, c)
  /\ \A r \in Readers : s[r] <= c[r]

Stores == [r \in Readers |-> row[r].amt]
Counts == [r \in Readers |-> count(r)]

(* The inductive invariant: types, the flow of the frames, a reader that   *)
(* holds an event has had one, only rows of readers are polled, and the    *)
(* receive loops run while tries are left.                                 *)
IInv ==
  /\ TypeOK
  /\ pc \in {"wait1", "wait2"} => over > 0
  /\ \A n \in Rows : row[n].used => n \in Readers
  /\ Flow(fifo, wire, Stores, Counts)
  /\ \A r \in Readers : held[r] => count(r) > 0

(* What may happen on the bus is fixed at the start.                       *)
BusKept == bus \in Buses

-----------------------------------------------------------------------------
(* The fields of a frame of a queue.                                       *)
LEMMA FrameAt ==
  ASSUME NEW q \in Seq(Frames), NEW i \in 1 .. Len(q)
  PROVE  /\ q[i] \in Frames
         /\ q[i].from \in Readers
         /\ q[i].amt \in Amounts
<1>1. q[i] \in Frames
  BY ElementOfSeq
<1>2. QED
  BY <1>1 DEF Frames

(* Taking the oldest frame of the FIFO, with or without storing it.        *)
LEMMA FlowPop ==
  ASSUME NEW f, NEW w, NEW s, NEW c, Flow(f, w, s, c), f # <<>>
  PROVE  Flow(Tail(f), w, s, c)
<1>1. /\ Tail(f) \in Seq(Frames)
      /\ Len(Tail(f)) = Len(f) - 1
      /\ \A i \in 1 .. Len(Tail(f)) : Tail(f)[i] = f[i + 1]
  BY HeadTailProperties DEF Flow
<1>2. Len(f) \in Nat
  BY LenProperties DEF Flow
<1>3. \A i \in 1 .. Len(Tail(f)) : i + 1 \in 1 .. Len(f)
  BY <1>1, <1>2
<1>4. Sorted(Tail(f))
  BY <1>1, <1>3 DEF Flow, Sorted
<1>5. Before(Tail(f), w)
  BY <1>1, <1>3 DEF Flow, Before
<1>6. Between(Tail(f), s, c)
  BY <1>1, <1>3 DEF Flow, Between
<1>7. QED
  BY <1>1, <1>4, <1>5, <1>6 DEF Flow

LEMMA FlowStore ==
  ASSUME NEW f, NEW w, NEW s, NEW c, Flow(f, w, s, c), f # <<>>
  PROVE  /\ s[Head(f).from] <= Head(f).amt
         /\ Flow(Tail(f), w, [s EXCEPT ![Head(f).from] = Head(f).amt], c)
<1> DEFINE h == Head(f)
           t == [s EXCEPT ![h.from] = h.amt]
<1>1. /\ h \in Frames
      /\ Len(Tail(f)) = Len(f) - 1
      /\ \A i \in 1 .. Len(Tail(f)) : Tail(f)[i] = f[i + 1]
  BY HeadTailProperties DEF Flow
<1>2. Len(f) \in Nat /\ Len(f) > 0 /\ h = f[1]
  BY LenProperties, EmptySeq DEF Flow
<1>3. h.from \in Readers /\ h.amt \in Amounts
  BY <1>1 DEF Frames
<1>4. s[h.from] <= h.amt /\ h.amt <= c[h.from]
  BY <1>2 DEF Flow, Between
<1>5. t \in [Readers -> Amounts] /\ \A r \in Readers : t[r] <= c[r]
  BY <1>3, <1>4 DEF Flow
<1>6. Flow(Tail(f), w, s, c)
  BY FlowPop
<1>7. Between(Tail(f), t, c)
  <2> SUFFICES ASSUME NEW i \in 1 .. Len(Tail(f))
               PROVE  /\ t[Tail(f)[i].from] <= Tail(f)[i].amt
                      /\ Tail(f)[i].amt <= c[Tail(f)[i].from]
    BY DEF Between
  <2>1. i + 1 \in 1 .. Len(f) /\ Tail(f)[i] = f[i + 1] /\ 1 \in 1 .. Len(f)
    BY <1>1, <1>2
  <2>2. f[i + 1] \in Frames /\ f[i + 1].from \in Readers
    BY <2>1, FrameAt DEF Flow
  <2>3. /\ s[f[i + 1].from] <= f[i + 1].amt
        /\ f[i + 1].amt <= c[f[i + 1].from]
    BY <2>1 DEF Flow, Between
  <2>4. f[i + 1].from = h.from => h.amt <= f[i + 1].amt
    BY <2>1, <1>2 DEF Flow, Sorted
  <2>5. QED
    BY <2>1, <2>2, <2>3, <2>4, <1>3 DEF Flow
<1>8. Between(w, t, c)
  <2> SUFFICES ASSUME NEW i \in 1 .. Len(w)
               PROVE  t[w[i].from] <= w[i].amt /\ w[i].amt <= c[w[i].from]
    BY DEF Between
  <2>1. w[i] \in Frames /\ w[i].from \in Readers
    BY FrameAt DEF Flow
  <2>2. s[w[i].from] <= w[i].amt /\ w[i].amt <= c[w[i].from]
    BY DEF Flow, Between
  <2>3. w[i].from = h.from => h.amt <= w[i].amt
    BY <1>2 DEF Flow, Before
  <2>4. QED
    BY <2>1, <2>2, <2>3, <1>3 DEF Flow
<1>9. QED
  BY <1>4, <1>5, <1>6, <1>7, <1>8 DEF Flow

(* A frame leaves the wire.                                                *)
LEMMA FlowLose ==
  ASSUME NEW f, NEW w, NEW s, NEW c, Flow(f, w, s, c), w # <<>>
  PROVE  Flow(f, Tail(w), s, c)
<1>1. /\ Tail(w) \in Seq(Frames)
      /\ Len(Tail(w)) = Len(w) - 1
      /\ \A i \in 1 .. Len(Tail(w)) : Tail(w)[i] = w[i + 1]
  BY HeadTailProperties DEF Flow
<1>2. Len(w) \in Nat
  BY LenProperties DEF Flow
<1>3. \A i \in 1 .. Len(Tail(w)) : i + 1 \in 1 .. Len(w)
  BY <1>1, <1>2
<1>4. Sorted(Tail(w))
  BY <1>1, <1>3 DEF Flow, Sorted
<1>5. Before(f, Tail(w))
  BY <1>1, <1>3 DEF Flow, Before
<1>6. Between(Tail(w), s, c)
  BY <1>1, <1>3 DEF Flow, Between
<1>7. QED
  BY <1>1, <1>4, <1>5, <1>6 DEF Flow

(* A frame goes from the wire into the FIFO, full or not: the new FIFO is  *)
(* a prefix of the old one and the frame behind it.                        *)
LEMMA FlowArrive ==
  ASSUME NEW f, NEW w, NEW s, NEW c, Flow(f, w, s, c), w # <<>>,
         Len(f) <= FIFO_DEPTH
  PROVE  /\ Flow(Received(f, Head(w)), Tail(w), s, c)
         /\ Len(Received(f, Head(w))) <= FIFO_DEPTH
<1> DEFINE h == Head(w)
           g == Received(f, h)
           n == Len(g)
<1>1. h \in Frames /\ Flow(f, Tail(w), s, c)
  BY FlowLose, HeadTailProperties DEF Flow
<1>2. Len(f) \in Nat /\ FIFO_DEPTH \in Nat \ {0} /\ f \in Seq(Frames)
  BY LenProperties, ReaderAssumption DEF Flow
<1>3. /\ g \in Seq(Frames) /\ n \in Nat \ {0} /\ n <= FIFO_DEPTH
      /\ g[n] = h
      /\ \A i \in 1 .. (n - 1) : i \in 1 .. Len(f) /\ g[i] = f[i]
  <2>1. CASE Len(f) < FIFO_DEPTH
    <3>1. g = Append(f, h)
      BY <2>1 DEF Received
    <3>2. /\ g \in Seq(Frames) /\ n = Len(f) + 1 /\ g[Len(f) + 1] = h
          /\ \A i \in 1 .. Len(f) : g[i] = f[i]
      BY <3>1, <1>1, <1>2, AppendProperties
    <3>3. QED
      BY <3>2, <1>2, <2>1
  <2>2. CASE ~(Len(f) < FIFO_DEPTH)
    <3>1. Len(f) = FIFO_DEPTH /\ FIFO_DEPTH \in 1 .. Len(f)
      BY <2>2, <1>2
    <3>2. g = [f EXCEPT ![FIFO_DEPTH] = h]
      BY <2>2 DEF Received
    <3>3. /\ g \in Seq(Frames) /\ n = Len(f)
          /\ \A j \in 1 .. Len(f) : g[j] = IF j = FIFO_DEPTH THEN h ELSE f[j]
      BY <3>1, <3>2, <1>1, <1>2, ExceptSeq
    <3>4. QED
      BY <3>1, <3>3, <1>2
  <2>3. QED
    BY <2>1, <2>2
<1> HIDE DEF g, n
<1>4. /\ Len(w) \in Nat /\ Len(w) > 0 /\ h = w[1]
      /\ Len(Tail(w)) = Len(w) - 1
      /\ \A i \in 1 .. Len(Tail(w)) : Tail(w)[i] = w[i + 1]
  BY LenProperties, EmptySeq, HeadTailProperties DEF Flow
<1>5. \A i \in 1 .. Len(f) : f[i].from = h.from => f[i].amt <= h.amt
  BY <1>4 DEF Flow, Before
<1>6. \A i \in 1 .. Len(Tail(w)) : h.from = Tail(w)[i].from => h.amt <= Tail(w)[i].amt
  <2> SUFFICES ASSUME NEW i \in 1 .. Len(Tail(w)), h.from = Tail(w)[i].from
               PROVE  h.amt <= Tail(w)[i].amt
    OBVIOUS
  <2>1. 1 \in 1 .. Len(w) /\ i + 1 \in 1 .. Len(w) /\ 1 <= i + 1
    BY <1>4
  <2>2. QED
    BY <2>1, <1>4 DEF Flow, Sorted
<1>7. s[h.from] <= h.amt /\ h.amt <= c[h.from] /\ h.amt <= h.amt
  <2>1. 1 \in 1 .. Len(w) /\ h = w[1]
    BY <1>4
  <2>2. h.amt \in Nat
    BY <1>1, ReaderAssumption DEF Frames, Amounts
  <2>3. QED
    BY <2>1, <2>2 DEF Flow, Between
<1>8. Sorted(g)
  <2> SUFFICES ASSUME NEW i \in 1 .. n, NEW j \in 1 .. n, i <= j, g[i].from = g[j].from
               PROVE  g[i].amt <= g[j].amt
    BY DEF Sorted, n
  <2>1. CASE j = n
    <3>1. i = n \/ i \in 1 .. (n - 1)
      BY <1>3
    <3>2. QED
      BY <2>1, <3>1, <1>3, <1>5, <1>7
  <2>2. CASE j # n
    <3>1. i \in 1 .. (n - 1) /\ j \in 1 .. (n - 1)
      BY <2>2, <1>3
    <3>2. QED
      BY <3>1, <1>3 DEF Flow, Sorted
  <2>3. QED
    BY <2>1, <2>2
<1>9. Before(g, Tail(w))
  <2> SUFFICES ASSUME NEW i \in 1 .. n, NEW j \in 1 .. Len(Tail(w)),
                      g[i].from = Tail(w)[j].from
               PROVE  g[i].amt <= Tail(w)[j].amt
    BY DEF Before, n
  <2>1. i = n \/ i \in 1 .. (n - 1)
    BY <1>3
  <2>2. Before(f, Tail(w))
    BY <1>1 DEF Flow
  <2>3. QED
    BY <2>1, <2>2, <1>3, <1>6 DEF Before
<1>10. Between(g, s, c)
  <2> SUFFICES ASSUME NEW i \in 1 .. n
               PROVE  s[g[i].from] <= g[i].amt /\ g[i].amt <= c[g[i].from]
    BY DEF Between, n
  <2>1. i = n \/ i \in 1 .. (n - 1)
    BY <1>3
  <2>2. QED
    BY <2>1, <1>3, <1>7 DEF Flow, Between
<1>11. QED
  BY <1>1, <1>3, <1>8, <1>9, <1>10 DEF Flow, g, n

(* Reader r answers a poll: its frames carry the number of its last event. *)
LEMMA FlowSend ==
  ASSUME NEW f, NEW w, NEW s, NEW c, Flow(f, w, s, c),
         NEW r \in Readers, NEW m \in Seq(Frames),
         \A i \in 1 .. Len(m) : m[i].from = r /\ m[i].amt = c[r]
  PROVE  Flow(f, w \o m, s, c)
<1> DEFINE g == w \o m
<1>1. /\ Len(w) \in Nat /\ Len(m) \in Nat /\ w \in Seq(Frames)
      /\ c[r] \in Nat /\ s[r] <= c[r]
  BY LenProperties, ReaderAssumption DEF Flow, Amounts
<1>2. /\ g \in Seq(Frames) /\ Len(g) = Len(w) + Len(m)
      /\ \A i \in 1 .. Len(g) : g[i] = IF i <= Len(w) THEN w[i] ELSE m[i - Len(w)]
  BY <1>1, ConcatProperties
<1> HIDE DEF g
<1>3. \A i \in 1 .. Len(g) :
        \/ i \in 1 .. Len(w) /\ g[i] = w[i]
        \/ i > Len(w) /\ g[i].from = r /\ g[i].amt = c[r]
  <2> SUFFICES ASSUME NEW i \in 1 .. Len(g)
               PROVE  \/ i \in 1 .. Len(w) /\ g[i] = w[i]
                      \/ i > Len(w) /\ g[i].from = r /\ g[i].amt = c[r]
    OBVIOUS
  <2>1. CASE i <= Len(w)
    BY <2>1, <1>1, <1>2
  <2>2. CASE ~(i <= Len(w))
    <3>1. i - Len(w) \in 1 .. Len(m) /\ g[i] = m[i - Len(w)] /\ i > Len(w)
      BY <2>2, <1>1, <1>2
    <3>2. QED
      BY <3>1
  <2>3. QED
    BY <2>1, <2>2
<1>4. \A i \in 1 .. Len(w) : w[i].from = r => w[i].amt <= c[r]
  BY DEF Flow, Between
<1>5. Sorted(g)
  <2> SUFFICES ASSUME NEW i \in 1 .. Len(g), NEW j \in 1 .. Len(g), i <= j,
                      g[i].from = g[j].from
               PROVE  g[i].amt <= g[j].amt
    BY DEF Sorted
  <2>1. CASE j \in 1 .. Len(w) /\ g[j] = w[j]
    <3>1. i \in 1 .. Len(w) /\ g[i] = w[i]
      BY <2>1, <1>1, <1>3
    <3>2. QED
      BY <2>1, <3>1 DEF Flow, Sorted
  <2>2. CASE g[j].from = r /\ g[j].amt = c[r]
    BY <2>2, <1>1, <1>3, <1>4
  <2>3. QED
    BY <2>1, <2>2, <1>3
<1>6. Before(f, g)
  <2>1. \A i \in 1 .. Len(f) : f[i].from = r => f[i].amt <= c[r]
    BY DEF Flow, Between
  <2>2. QED
    BY <2>1, <1>3 DEF Flow, Before
<1>7. Between(g, s, c)
  BY <1>1, <1>3 DEF Flow, Between
<1>8. QED
  BY <1>2, <1>5, <1>6, <1>7 DEF Flow, g

(* One more event at reader r.                                             *)
LEMMA FlowHappen ==
  ASSUME NEW f, NEW w, NEW s, NEW c, Flow(f, w, s, c),
         NEW r \in Readers, c[r] < MaxEvents
  PROVE  Flow(f, w, s, [c EXCEPT ![r] = c[r] + 1])
<1> DEFINE d == [c EXCEPT ![r] = c[r] + 1]
<1>1. /\ d \in [Readers -> Amounts]
      /\ \A t \in Readers : c[t] \in Nat /\ d[t] \in Nat /\ c[t] <= d[t]
  BY ReaderAssumption DEF Flow, Amounts
<1> HIDE DEF d
<1>2. ASSUME NEW q \in Seq(Frames), Between(q, s, c)
      PROVE  Between(q, s, d)
  <2> SUFFICES ASSUME NEW i \in 1 .. Len(q)
               PROVE  s[q[i].from] <= q[i].amt /\ q[i].amt <= d[q[i].from]
    BY DEF Between
  <2>1. q[i].from \in Readers /\ q[i].amt \in Nat
    BY FrameAt, ReaderAssumption DEF Amounts
  <2>2. QED
    BY <2>1, <1>1, <1>2 DEF Between
<1>3. \A t \in Readers : s[t] \in Nat /\ s[t] <= d[t]
  BY <1>1, ReaderAssumption DEF Flow, Amounts
<1>4. QED
  BY <1>1, <1>2, <1>3 DEF Flow, d

-----------------------------------------------------------------------------
(* What a step that touches neither frames nor events nor the stored event *)
(* numbers leaves as it is.                                                *)
LEMMA FlowKept ==
  ASSUME IInv, UNCHANGED <<fifo, wire, happened>>,
         \A r \in Readers : row'[r].amt = row[r].amt
  PROVE  Flow(fifo, wire, Stores, Counts)'
<1>1. Stores' = Stores /\ Counts' = Counts
  BY DEF Stores, Counts, count
<1>2. Flow(fifo', wire', Stores', Counts') <=> Flow(fifo, wire, Stores, Counts)
  BY <1>1
<1>3. QED
  BY <1>2 DEF IInv

RowType == [used : BOOLEAN, bits : SUBSET Kinds, lost : BOOLEAN,
            card : Cards \cup {NoCard}, amt : Amounts]

(* Rows are updated one at a time, all but ReadRunningData's 0xAA without  *)
(* touching the event number.                                              *)
LEMMA RowUpdate ==
  ASSUME NEW R \in [Rows -> RowType], NEW n \in Rows, NEW w \in RowType
  PROVE  /\ [R EXCEPT ![n] = w] \in [Rows -> RowType]
         /\ \A r \in Readers : r \in Rows
         /\ \A r \in Rows : [R EXCEPT ![n] = w][r] = IF r = n THEN w ELSE R[r]
<1>1. \A r \in Readers : r \in Rows
  BY ReaderAssumption DEF Rows
<1>2. QED
  BY <1>1

(* The polled reader's row.                                                *)
LEMMA PolledRow ==
  ASSUME TypeOK, pc \in {"send", "wait1", "wait2", "ack"}
  PROVE  no \in Readers /\ no \in Rows /\ row[no] \in RowType
<1>1. no \in Readers
  BY DEF TypeOK
<1>2. no \in Rows
  BY <1>1, ReaderAssumption DEF Rows
<1>3. row \in [Rows -> RowType]
  BY DEF TypeOK, RowType
<1>4. QED
  BY <1>1, <1>2, <1>3

(* Can_SendPBus_Com failed: retry or mark the reader lost.                 *)
LEMMA FailedKeeps ==
  ASSUME TypeOK, pc \in {"wait1", "wait2"}, Failed, UNCHANGED Led_TaskCount
  PROVE  /\ row' \in [Rows -> RowType]
         /\ attempt' \in 1 .. 2
         /\ pc' \in {"send", "forward"}
         /\ no' = no
         /\ \A n \in Rows : row'[n].used = row[n].used
         /\ \A r \in Readers : row'[r].amt = row[r].amt
<1>1. no \in Readers /\ no \in Rows /\ row[no] \in RowType
  BY PolledRow
<1>2. row \in [Rows -> RowType] /\ \A r \in Readers : r \in Rows
  BY ReaderAssumption DEF TypeOK, RowType, Rows
<1>3. CASE attempt = 1
  BY <1>2, <1>3 DEF Failed, no
<1>4. CASE attempt # 1
  <2>1. row' = [row EXCEPT ![no] = [row[no] EXCEPT !.lost = TRUE]]
    BY <1>4 DEF Failed
  <2>2. /\ [row[no] EXCEPT !.lost = TRUE] \in RowType
        /\ [row[no] EXCEPT !.lost = TRUE].amt = row[no].amt
        /\ [row[no] EXCEPT !.lost = TRUE].used = row[no].used
    BY <1>1 DEF RowType
  <2>3. /\ row' \in [Rows -> RowType]
        /\ \A n \in Rows : row'[n].used = row[n].used
        /\ \A r \in Readers : row'[r].amt = row[r].amt
    BY <2>1, <2>2, <1>1, <1>2, RowUpdate
  <2>4. QED
    BY <2>3, <1>4 DEF Failed, no, TypeOK
<1>5. QED
  BY <1>3, <1>4

LEMMA NothingKeeps ==
  ASSUME TypeOK, pc \in {"wait1", "wait2"}, NothingThere, UNCHANGED Led_TaskCount
  PROVE  /\ row' \in [Rows -> RowType]
         /\ pc' = "forward" /\ attempt' = attempt
         /\ \A n \in Rows : row'[n].used = row[n].used
         /\ \A r \in Readers : row'[r].amt = row[r].amt
<1> DEFINE w == [row[no] EXCEPT !.lost = FALSE, !.bits = {}]
<1>1. no \in Readers /\ no \in Rows /\ row[no] \in RowType
  BY PolledRow
<1>2. row \in [Rows -> RowType]
  BY DEF TypeOK, RowType
<1>3. row' = [row EXCEPT ![no] = w]
  BY <1>1, <1>2 DEF NothingThere
<1>4. w \in RowType /\ w.amt = row[no].amt /\ w.used = row[no].used
  BY <1>1 DEF RowType
<1>5. QED
  BY <1>1, <1>2, <1>3, <1>4, RowUpdate DEF NothingThere

LEMMA StoredRow ==
  ASSUME TypeOK, pc \in {"wait1", "wait2"}, NEW n \in Amounts, Stored(n),
         UNCHANGED Led_TaskCount
  PROVE  /\ row' \in [Rows -> RowType]
         /\ pc' = "ack" /\ attempt' = attempt /\ no' = no
         /\ \A m \in Rows : row'[m].used = row[m].used
         /\ \A r \in Readers : row'[r].amt = IF r = no THEN n ELSE row[r].amt
<1> DEFINE w == [row[no] EXCEPT !.bits = @ \cup EventFlag, !.card = TempBuff.card, !.amt = n]
<1>1. no \in Readers /\ no \in Rows /\ row[no] \in RowType
  BY PolledRow
<1>2. row \in [Rows -> RowType]
  BY DEF TypeOK, RowType
<1>3. row' = [row EXCEPT ![no] = w]
  BY <1>1, <1>2 DEF Stored
<1>4. TempBuff.card \in Cards \cup {NoCard} /\ EventFlag \in SUBSET Kinds
  BY DEF TypeOK, EventFlag
<1>5. w \in RowType /\ w.amt = n /\ w.used = row[no].used
  BY <1>1, <1>4 DEF RowType
<1>6. QED
  BY <1>1, <1>2, <1>3, <1>5, RowUpdate DEF Stored, no

-----------------------------------------------------------------------------
(* No step takes the number of the event stored for a reader back.         *)
NoneBack == \A r \in Readers : row'[r].amt >= row[r].amt

(* Stored event numbers are numbers.                                       *)
LEMMA StoresTyped ==
  ASSUME TypeOK
  PROVE  \A r \in Readers : row[r].amt \in Nat
<1>1. row \in [Rows -> RowType]
  BY DEF TypeOK, RowType
<1>2. QED
  BY <1>1, ReaderAssumption DEF Rows, RowType, Amounts

(* A card is inserted or pulled.                                           *)
LEMMA HappensStep ==
  ASSUME IInv, NEW r \in Readers, NEW k \in Kinds, NEW cd \in Cards,
         Happens(r, k, cd), slot' \in [Readers -> Cards \cup {NoCard}]
  PROVE  IInv' /\ NoneBack
<1> USE DEF Happens
<1>1. [kind |-> k, card |-> cd] \in [kind : Kinds, card : Cards]
  OBVIOUS
<1>2. /\ happened \in [Readers -> Seq([kind : Kinds, card : Cards])]
      /\ \A t \in Readers : count(t) \in Nat
  BY LenProperties DEF IInv, TypeOK, count
<1>3. /\ Append(happened[r], [kind |-> k, card |-> cd]) \in Seq([kind : Kinds, card : Cards])
      /\ Len(Append(happened[r], [kind |-> k, card |-> cd])) = count(r) + 1
  <2>1. happened[r] \in Seq([kind : Kinds, card : Cards])
    BY <1>2
  <2>2. QED
    BY <1>1, <2>1, AppendProperties DEF count
<1>4. /\ happened' \in [Readers -> Seq([kind : Kinds, card : Cards])]
      /\ \A t \in Readers : count(t)' = IF t = r THEN count(r) + 1 ELSE count(t)
  BY <1>2, <1>3 DEF count
<1>5. Counts' = [Counts EXCEPT ![r] = Counts[r] + 1] /\ Stores' = Stores /\ Counts[r] = count(r)
  BY <1>4 DEF Counts, Stores
<1>6. Flow(fifo, wire, Stores, [Counts EXCEPT ![r] = Counts[r] + 1])
  BY <1>5, FlowHappen DEF IInv
<1>7. Flow(fifo, wire, Stores, Counts)'
  <2>1. fifo' = fifo /\ wire' = wire
    BY DEF busVars
  <2>2. QED
    BY <1>5, <1>6, <2>1
<1>8. \A t \in Readers : held'[t] => count(t)' > 0
  BY <1>2, <1>4 DEF IInv, TypeOK
<1>9. TypeOK'
  BY <1>4 DEF IInv, TypeOK, busVars, pollVars, no
<1>10. NoneBack
  BY StoresTyped DEF NoneBack, IInv
<1>11. QED
  BY <1>7, <1>8, <1>9, <1>10 DEF IInv, Rows, pollVars

LEMMA InsertStep ==
  ASSUME IInv, NEW r \in Readers, NEW cd \in Cards, InsertCard(r, cd)
  PROVE  IInv' /\ NoneBack
<1>1. slot' \in [Readers -> Cards \cup {NoCard}]
  BY DEF InsertCard, IInv, TypeOK
<1>2. QED
  BY <1>1, HappensStep DEF InsertCard, Kinds

LEMMA PullStep ==
  ASSUME IInv, NEW r \in Readers, PullCard(r)
  PROVE  IInv' /\ NoneBack
<1>1. slot' \in [Readers -> Cards \cup {NoCard}] /\ slot[r] \in Cards
  BY DEF PullCard, IInv, TypeOK
<1>2. QED
  BY <1>1, HappensStep DEF PullCard, Kinds

(* A frame reaches the FIFO or is lost.                                    *)
LEMMA ArriveStep ==
  ASSUME IInv, Arrive
  PROVE  IInv' /\ NoneBack
<1> USE DEF Arrive
<1>1. Stores' = Stores /\ Counts' = Counts
  BY DEF Stores, Counts, count, readerVars
<1>2. /\ Flow(Received(fifo, Head(wire)), Tail(wire), Stores, Counts)
      /\ Len(Received(fifo, Head(wire))) <= FIFO_DEPTH
  BY FlowArrive DEF IInv, TypeOK
<1>3. Flow(fifo, wire, Stores, Counts)' /\ Len(fifo') <= FIFO_DEPTH
  BY <1>1, <1>2
<1>4. TypeOK'
  BY <1>3 DEF IInv, TypeOK, Flow, readerVars, pollVars, no
<1>5. (\A t \in Readers : held[t] => count(t) > 0)'
  BY DEF IInv, readerVars, count
<1>6. NoneBack
  BY StoresTyped DEF NoneBack, IInv
<1>7. QED
  BY <1>3, <1>4, <1>5, <1>6 DEF IInv, Rows, pollVars

LEMMA LoseStep ==
  ASSUME IInv, LoseFrame
  PROVE  IInv' /\ NoneBack
<1> USE DEF LoseFrame
<1>1. Stores' = Stores /\ Counts' = Counts
  BY DEF Stores, Counts, count, readerVars
<1>2. Flow(fifo, Tail(wire), Stores, Counts)
  BY FlowLose DEF IInv
<1>3. Flow(fifo, wire, Stores, Counts)'
  BY <1>1, <1>2
<1>4. TypeOK'
  BY <1>3 DEF IInv, TypeOK, Flow, readerVars, pollVars, no
<1>5. (\A t \in Readers : held[t] => count(t) > 0)'
  BY DEF IInv, readerVars, count
<1>6. NoneBack
  BY StoresTyped DEF NoneBack, IInv
<1>7. QED
  BY <1>3, <1>4, <1>5, <1>6 DEF IInv, Rows, pollVars

-----------------------------------------------------------------------------
(* Steps of led_task that leave the frames, the events and the stored      *)
(* event numbers alone preserve the invariant if they preserve types and   *)
(* the rest of it.                                                         *)
LEMMA QuietStep ==
  ASSUME IInv, TypeOK', UNCHANGED <<fifo, wire, happened>>,
         \A r \in Readers : row'[r].amt = row[r].amt,
         \A n \in Rows : row'[n].used => n \in Readers,
         pc' \notin {"wait1", "wait2"},
         \A r \in Readers : held'[r] => held[r]
  PROVE  IInv' /\ NoneBack
<1>1. Flow(fifo, wire, Stores, Counts)'
  BY FlowKept
<1>2. (\A t \in Readers : held[t] => count(t) > 0)'
  BY DEF IInv, count
<1>3. NoneBack
  BY StoresTyped DEF NoneBack, IInv
<1>4. QED
  BY <1>1, <1>2, <1>3 DEF IInv, Rows

LEMMA StartPollStep ==
  ASSUME IInv, StartPoll
  PROVE  IInv' /\ NoneBack
<1> USE DEF StartPoll
<1>1. pc' = "send" => no \in Readers
  <2>1. Led_TaskCount < BUSNUM_SIZE => no \in Rows
    BY ReaderAssumption DEF IInv, TypeOK, no, Rows
  <2>2. QED
    BY <2>1 DEF IInv
<1>2. TempBuff' \in [kind : Kinds \cup {"junk"}, card : Cards \cup {NoCard}]
  BY DEF IInv, TypeOK, JunkBuff
<1>3. TypeOK'
  <2>1. pc' \in {"send", "forward"} /\ no' = no /\ attempt' \in 1 .. 2
    BY DEF no
  <2>2. QED
    BY <1>1, <1>2, <2>1 DEF IInv, TypeOK, readerVars, busVars
<1>4. QED
  BY <1>3, QuietStep DEF IInv, readerVars, busVars

LEMMA SendPollStep ==
  ASSUME IInv, SendPoll
  PROVE  IInv' /\ NoneBack
<1> USE DEF SendPoll
<1>1. no \in Readers
  BY DEF IInv, TypeOK
<1>2. Stores' = Stores /\ Counts' = Counts /\ Counts[no] = count(no)
  BY <1>1 DEF Stores, Counts, count, readerVars
<1>3. /\ Reply(no) \in Seq(Frames)
      /\ \A i \in 1 .. Len(Reply(no)) :
            Reply(no)[i].from = no /\ Reply(no)[i].amt = Counts[no]
  <2>1. Counts[no] \in Amounts
    BY <1>1 DEF IInv, Flow
  <2>2. CASE held[no]
    <3>1. Pending(no) \in [kind : Kinds, card : Cards]
      <4>1. happened[no] \in Seq([kind : Kinds, card : Cards])
        BY <1>1 DEF IInv, TypeOK
      <4>2. count(no) \in 1 .. Len(happened[no])
        BY <1>1, <2>2, <4>1, LenProperties DEF IInv, count
      <4>3. QED
        BY <4>1, <4>2, ElementOfSeq DEF Pending
    <3>2. /\ Frame(no, First(Pending(no).kind), Pending(no).card, count(no)) \in Frames
          /\ Frame(no, Second(Pending(no).kind), NoCard, count(no)) \in Frames
      BY <1>1, <1>2, <2>1, <3>1 DEF Frame, Frames, First, Second, FrameKinds
    <3>3. QED
      BY <1>2, <2>2, <3>2 DEF Reply, Frame
  <2>3. CASE ~held[no]
    <3>1. Frame(no, "none", NoCard, count(no)) \in Frames
      BY <1>1, <1>2, <2>1 DEF Frame, Frames, FrameKinds
    <3>2. QED
      BY <1>2, <2>3, <3>1 DEF Reply, Frame
  <2>4. QED
    BY <2>2, <2>3
<1>4. Flow(fifo, wire, Stores, Counts)'
  <2>1. Flow(fifo, wire \o Reply(no), Stores, Counts)
    BY <1>1, <1>3, FlowSend DEF IInv
  <2>2. CASE wire' = wire \o Reply(no)
    BY <1>2, <2>1, <2>2
  <2>3. CASE wire' = wire
    BY <1>2, <2>3 DEF IInv
  <2>4. QED
    BY <2>2, <2>3
<1>5. TypeOK'
  <2>1. wire' \in Seq(Frames) /\ over' \in 0 .. OVERFLOW /\ no' = no
    BY <1>4, ReaderAssumption DEF Flow, no
  <2>2. QED
    BY <1>1, <2>1 DEF IInv, TypeOK, readerVars
<1>6. (\A t \in Readers : held[t] => count(t) > 0)'
  BY DEF IInv, readerVars, count
<1>7. NoneBack
  BY StoresTyped DEF NoneBack, IInv
<1>8. QED
  BY <1>4, <1>5, <1>6, <1>7, ReaderAssumption DEF IInv, Rows

-----------------------------------------------------------------------------
(* The receive loops.  One that takes nothing, or takes a frame without    *)
(* storing it; one that stores it.                                         *)
LEMMA PopStep ==
  ASSUME IInv, TypeOK',
         \/ fifo # <<>> /\ fifo' = Tail(fifo)
         \/ fifo' = fifo,
         UNCHANGED <<readerVars, wire>>,
         \A r \in Readers : row'[r].amt = row[r].amt,
         \A n \in Rows : row'[n].used => n \in Readers,
         pc' \in {"wait1", "wait2"} => over' > 0
  PROVE  IInv' /\ NoneBack
<1>1. Stores' = Stores /\ Counts' = Counts
  BY DEF Stores, Counts, count, readerVars
<1>2. Flow(fifo', wire, Stores, Counts)
  BY FlowPop DEF IInv
<1>3. Flow(fifo, wire, Stores, Counts)'
  BY <1>1, <1>2
<1>4. (\A t \in Readers : held[t] => count(t) > 0)'
  BY DEF IInv, readerVars, count
<1>5. NoneBack
  BY StoresTyped DEF NoneBack, IInv
<1>6. QED
  BY <1>3, <1>4, <1>5 DEF IInv, Rows

LEMMA StoreStep ==
  ASSUME IInv, pc \in {"wait1", "wait2"}, fifo # <<>>, Head(fifo).from = no,
         fifo' = Tail(fifo), Stored(Head(fifo).amt),
         UNCHANGED <<readerVars, wire, Led_TaskCount, TempBuff, over, stale, reported, again>>
  PROVE  IInv' /\ NoneBack
<1> DEFINE h == Head(fifo)
<1>1. h.amt \in Amounts /\ no \in Readers /\ TypeOK
  <2>1. h \in Frames
    BY HeadTailProperties DEF IInv, TypeOK
  <2>2. QED
    BY <2>1, PolledRow DEF IInv, Frames
<1>2. /\ row' \in [Rows -> RowType]
      /\ pc' = "ack" /\ attempt' = attempt /\ no' = no
      /\ \A m \in Rows : row'[m].used = row[m].used
      /\ \A r \in Readers : row'[r].amt = IF r = no THEN h.amt ELSE row[r].amt
  BY <1>1, StoredRow
<1>3. Stores' = [Stores EXCEPT ![no] = h.amt] /\ Counts' = Counts
  BY <1>1, <1>2 DEF Stores, Counts, count, readerVars
<1>4. /\ Stores[no] <= h.amt
      /\ Flow(Tail(fifo), wire, [Stores EXCEPT ![no] = h.amt], Counts)
  BY FlowStore DEF IInv
<1>5. Flow(fifo, wire, Stores, Counts)'
  BY <1>3, <1>4
<1>6. TypeOK'
  <2>1. fifo' \in Seq(Frames) /\ Len(fifo') <= FIFO_DEPTH
    <3>1. fifo \in Seq(Frames) /\ Len(fifo) \in Nat /\ Len(fifo) <= FIFO_DEPTH
      BY LenProperties DEF IInv, TypeOK
    <3>2. QED
      BY <3>1, HeadTailProperties, ReaderAssumption
  <2>2. QED
    BY <1>1, <1>2, <2>1 DEF TypeOK, RowType, readerVars
<1>7. NoneBack
  <2>1. Stores[no] = row[no].amt
    BY <1>1 DEF Stores
  <2>2. h.amt \in Nat /\ \A r \in Readers : row[r].amt \in Nat
    BY <1>1, StoresTyped, ReaderAssumption DEF Amounts
  <2>3. QED
    BY <1>2, <1>4, <2>1, <2>2 DEF NoneBack
<1>8. (\A t \in Readers : held[t] => count(t) > 0)'
  BY DEF IInv, readerVars, count
<1>9. QED
  BY <1>2, <1>5, <1>6, <1>7, <1>8 DEF IInv, Rows

(* A try that got no frame of the polled reader.                           *)
LEMMA TryKeeps ==
  ASSUME IInv, pc \in {"wait1", "wait2"}, NEW f, Try(f), UNCHANGED Led_TaskCount
  PROVE  /\ row' \in [Rows -> RowType]
         /\ attempt' \in 1 .. 2
         /\ pc' \in {"send", "forward", "wait1", "wait2"}
         /\ over' \in 0 .. OVERFLOW
         /\ pc' \in {"wait1", "wait2"} => over' > 0
         /\ no' = no /\ stale' \in BOOLEAN
         /\ \A n \in Rows : row'[n].used = row[n].used
         /\ \A r \in Readers : row'[r].amt = row[r].amt
<1> USE DEF Try
<1>1. over \in 1 .. OVERFLOW /\ OVERFLOW \in Nat /\ TypeOK
  <2>1. TypeOK /\ over > 0
    BY DEF IInv
  <2>2. over \in 0 .. OVERFLOW
    BY <2>1 DEF TypeOK
  <2>3. QED
    BY <2>1, <2>2, ReaderAssumption
<1>2. over' \in 0 .. OVERFLOW /\ (over # 1 => over' > 0)
  BY <1>1
<1>3. CASE over = 1
  BY <1>1, <1>2, <1>3, FailedKeeps
<1>4. CASE over # 1
  <2>1. row' = row /\ attempt' = attempt /\ pc' = pc
    BY <1>4
  <2>2. QED
    BY <1>1, <1>2, <1>4, <2>1 DEF TypeOK, RowType, no
<1>5. QED
  BY <1>3, <1>4

(* The FIFO without its oldest frame.                                      *)
LEMMA TailTyped ==
  ASSUME TypeOK, fifo # <<>>
  PROVE  /\ Tail(fifo) \in Seq(Frames) /\ Len(Tail(fifo)) <= FIFO_DEPTH
         /\ Head(fifo) \in Frames
<1>1. fifo \in Seq(Frames) /\ Len(fifo) \in Nat /\ Len(fifo) <= FIFO_DEPTH
  BY LenProperties DEF TypeOK
<1>2. QED
  BY <1>1, HeadTailProperties, ReaderAssumption

(* A try in either loop.                                                   *)
LEMMA TryStep ==
  ASSUME IInv, pc \in {"wait1", "wait2"}, Try(fifo),
         fifo' = IF fifo = <<>> THEN fifo ELSE Tail(fifo),
         UNCHANGED <<readerVars, wire, Led_TaskCount, reported, again>>
  PROVE  IInv' /\ NoneBack
<1>1. TypeOK /\ no \in Readers
  BY PolledRow DEF IInv
<1>2. /\ row' \in [Rows -> RowType]
      /\ attempt' \in 1 .. 2
      /\ pc' \in {"send", "forward", "wait1", "wait2"}
      /\ over' \in 0 .. OVERFLOW
      /\ pc' \in {"wait1", "wait2"} => over' > 0
      /\ no' = no /\ stale' \in BOOLEAN
      /\ \A n \in Rows : row'[n].used = row[n].used
      /\ \A r \in Readers : row'[r].amt = row[r].amt
  BY TryKeeps
<1>3. fifo' \in Seq(Frames) /\ Len(fifo') <= FIFO_DEPTH
  BY <1>1, TailTyped DEF TypeOK
<1>4. TempBuff' = TempBuff
  BY DEF Try
<1>5. TypeOK'
  BY <1>1, <1>2, <1>3, <1>4 DEF TypeOK, RowType, readerVars
<1>6. \A n \in Rows : row'[n].used => n \in Readers
  BY <1>2 DEF IInv
<1>7. QED
  BY <1>2, <1>5, <1>6, PopStep

(* A frame of the polled reader that makes this attempt fail.              *)
LEMMA FailStep ==
  ASSUME IInv, pc \in {"wait1", "wait2"}, fifo # <<>>, fifo' = Tail(fifo), Failed,
         TempBuff' \in [kind : Kinds \cup {"junk"}, card : Cards \cup {NoCard}],
         UNCHANGED <<readerVars, wire, Led_TaskCount, over, stale, reported, again>>
  PROVE  IInv' /\ NoneBack
<1>1. TypeOK /\ no \in Readers
  BY PolledRow DEF IInv
<1>2. /\ row' \in [Rows -> RowType]
      /\ attempt' \in 1 .. 2
      /\ pc' \in {"send", "forward"}
      /\ no' = no
      /\ \A n \in Rows : row'[n].used = row[n].used
      /\ \A r \in Readers : row'[r].amt = row[r].amt
  BY <1>1, FailedKeeps
<1>3. fifo' \in Seq(Frames) /\ Len(fifo') <= FIFO_DEPTH
  BY <1>1, TailTyped
<1>4. TypeOK'
  BY <1>1, <1>2, <1>3 DEF TypeOK, RowType, readerVars
<1>5. \A n \in Rows : row'[n].used => n \in Readers
  BY <1>2 DEF IInv
<1>6. QED
  BY <1>2, <1>4, <1>5, PopStep

LEMMA Wait1Step ==
  ASSUME IInv, Wait1
  PROVE  IInv' /\ NoneBack
<1> USE DEF Wait1
<1> DEFINE f == Head(fifo)
<1>1. TypeOK /\ no \in Readers /\ pc = "wait1"
  BY PolledRow DEF IInv
<1>2. CASE ~(fifo # <<>> /\ f.from = no)
  BY <1>1, <1>2, TryStep
<1>3. CASE fifo # <<>> /\ f.from = no
  <2>1. /\ f \in Frames /\ f.card \in Cards \cup {NoCard}
        /\ Tail(fifo) \in Seq(Frames) /\ Len(Tail(fifo)) <= FIFO_DEPTH
        /\ fifo' = Tail(fifo)
    BY <1>1, <1>3, TailTyped DEF Frames
  <2>2. CASE f.kind = "none" /\ NothingThere /\ UNCHANGED <<TempBuff, over, stale>>
    <3>1. /\ row' \in [Rows -> RowType]
          /\ pc' = "forward" /\ attempt' = attempt
          /\ \A n \in Rows : row'[n].used = row[n].used
          /\ \A r \in Readers : row'[r].amt = row[r].amt
      BY <1>1, <2>2, NothingKeeps
    <3>2. TypeOK'
      BY <1>1, <2>1, <2>2, <3>1 DEF TypeOK, RowType, readerVars
    <3>3. \A n \in Rows : row'[n].used => n \in Readers
      BY <3>1 DEF IInv
    <3>4. QED
      BY <1>3, <2>1, <3>1, <3>2, <3>3, PopStep
  <2>3. CASE /\ f.kind = "ins1"
             /\ TempBuff' = [kind |-> "ins", card |-> f.card]
             /\ over' = OVERFLOW /\ stale' = TRUE /\ pc' = "wait2"
             /\ UNCHANGED <<attempt, row>>
    <3>1. /\ TempBuff' \in [kind : Kinds \cup {"junk"}, card : Cards \cup {NoCard}]
          /\ over' \in 0 .. OVERFLOW /\ over' > 0 /\ no' = no
      BY <2>1, <2>3, ReaderAssumption DEF Kinds, no
    <3>2. TypeOK'
      BY <1>1, <2>1, <2>3, <3>1 DEF TypeOK, readerVars
    <3>3. QED
      BY <1>3, <2>1, <2>3, <3>1, <3>2, PopStep DEF IInv
  <2>4. CASE /\ f.kind = "pull1"
             /\ TempBuff' = [kind |-> "pull", card |-> f.card]
             /\ Failed /\ UNCHANGED <<over, stale>>
    <3>1. TempBuff' \in [kind : Kinds \cup {"junk"}, card : Cards \cup {NoCard}]
      BY <2>1, <2>4 DEF Kinds
    <3>2. QED
      BY <1>1, <1>3, <2>1, <2>4, <3>1, FailStep
  <2>5. CASE Stored(f.amt) /\ UNCHANGED <<TempBuff, over, stale>>
    BY <1>1, <1>3, <2>1, <2>5, StoreStep
  <2>6. QED
    BY <1>3, <2>2, <2>3, <2>4, <2>5
<1>4. QED
  BY <1>2, <1>3

LEMMA Wait2Step ==
  ASSUME IInv, Wait2
  PROVE  IInv' /\ NoneBack
<1> USE DEF Wait2
<1>1. TypeOK /\ no \in Readers /\ pc = "wait2"
  BY PolledRow DEF IInv
<1>2. CASE ~(fifo # <<>> /\ Head(fifo).from = no)
  BY <1>1, <1>2, TryStep
<1>3. CASE fifo # <<>> /\ Head(fifo).from = no
  <2>1. CASE Head(fifo).kind = "ins2"
    BY <1>1, <1>3, <2>1, StoreStep
  <2>2. CASE Head(fifo).kind # "ins2"
    <3>1. TempBuff' \in [kind : Kinds \cup {"junk"}, card : Cards \cup {NoCard}]
      BY <1>1, <1>3 DEF TypeOK
    <3>2. QED
      BY <1>1, <1>3, <2>2, <3>1, FailStep
  <2>3. QED
    BY <2>1, <2>2
<1>4. QED
  BY <1>2, <1>3

-----------------------------------------------------------------------------
(* The rest of a turn of led_task.                                         *)
LEMMA SendAckStep ==
  ASSUME IInv, SendAck
  PROVE  IInv' /\ NoneBack
<1> USE DEF SendAck
<1>1. held' \in [Readers -> BOOLEAN] /\ \A r \in Readers : held'[r] => held[r]
  <2>1. held \in [Readers -> BOOLEAN] /\ no \in Readers
    BY DEF IInv, TypeOK
  <2>2. CASE \E k \in AckStates :
               held' = [held EXCEPT ![no] = @ /\ ~Acknowledges(no, TempBuff.card, k)]
    <3>1. PICK k \in AckStates :
             held' = [held EXCEPT ![no] = held[no] /\ ~Acknowledges(no, TempBuff.card, k)]
      BY <2>2
    <3>2. (held[no] /\ ~Acknowledges(no, TempBuff.card, k)) \in BOOLEAN
      OBVIOUS
    <3>3. QED
      BY <2>1, <3>1, <3>2, Zenon
  <2>3. CASE UNCHANGED held
    BY <2>1, <2>3
  <2>4. QED
    BY <2>2, <2>3
<1>2. TypeOK'
  BY <1>1 DEF IInv, TypeOK, busVars, no
<1>3. QED
  BY <1>1, <1>2, QuietStep DEF IInv, busVars

LEMMA ForwardStep ==
  ASSUME IInv, Forward
  PROVE  IInv' /\ NoneBack
<1> USE DEF Forward
<1> DEFINE n == Led_TaskCount
           w == ClearedFlags(row[n])
           Reports == [no : Rows, bits : SUBSET Kinds,
                       card : Cards \cup {NoCard}, amt : Amounts]
<1>1. row \in [Rows -> RowType] /\ reported \subseteq Reports /\ again \in BOOLEAN
  BY DEF IInv, TypeOK, RowType
<1>2. /\ row' \in [Rows -> RowType]
      /\ reported' \subseteq Reports /\ again' \in BOOLEAN
      /\ \A m \in Rows : row'[m].used = row[m].used
      /\ \A r \in Readers : row'[r].amt = row[r].amt
  <2>1. CASE ~Waits(n)
    <3>1. row' = row /\ reported' = reported /\ again' = again
      BY <2>1
    <3>2. QED
      BY <1>1, <3>1
  <2>2. CASE Waits(n)
    <3>1. n \in Rows
      BY <2>2, ReaderAssumption DEF IInv, TypeOK, Rows, Waits
    <3>2. row[n] \in RowType
      BY <1>1, <3>1
    <3>3. w \in RowType /\ w.used = row[n].used /\ w.amt = row[n].amt
      BY <3>2 DEF RowType, ClearedFlags
    <3>4. /\ row' = [row EXCEPT ![n] = w]
          /\ \/ reported' = reported \cup {Entry(n)} /\ again' = (again \/ Repeats(Entry(n)))
             \/ UNCHANGED <<reported, again>>
      BY <2>2
    <3>5. /\ row' \in [Rows -> RowType]
          /\ \A r \in Readers : r \in Rows
          /\ \A r \in Rows : row'[r] = IF r = n THEN w ELSE row[r]
      BY <1>1, <3>1, <3>3, <3>4, RowUpdate
    <3>6. Entry(n) \in Reports
      BY <3>1, <3>2 DEF RowType, Entry
    <3>7. reported' \subseteq Reports
      BY <1>1, <3>4, <3>6
    <3>8. again' \in BOOLEAN
      BY <1>1, <3>4, Zenon
    <3>9. QED
      BY <3>3, <3>5, <3>7, <3>8
  <2>3. QED
    BY <2>1, <2>2
<1>3. TypeOK'
  BY <1>2 DEF IInv, TypeOK, RowType, readerVars, busVars, no
<1>4. QED
  BY <1>2, <1>3, QuietStep DEF IInv, readerVars, busVars

LEMMA TurnTyped ==
  ASSUME TypeOK, NextTurn
  PROVE  Led_TaskCount' \in 0 .. BUSNUM_SIZE + 2
BY ReaderAssumption DEF TypeOK, NextTurn

LEMMA NoAnswerStep ==
  ASSUME IInv, NoAnswer
  PROVE  IInv' /\ NoneBack
<1>1. TypeOK'
  BY TurnTyped DEF IInv, TypeOK, NoAnswer, NextTurn, readerVars, busVars
<1>2. QED
  BY <1>1, QuietStep DEF IInv, NoAnswer, NextTurn, readerVars, busVars

LEMMA AnswerStep ==
  ASSUME IInv, NEW a \in Answers, NEW r \in Readers, Answer(a, r)
  PROVE  IInv' /\ NoneBack
<1> USE DEF Answer
<1> DEFINE w == Flags(a, row[r])
<1>1. r \in Rows /\ row \in [Rows -> RowType] /\ row[r] \in RowType
  <2>1. r \in Rows
    BY ReaderAssumption DEF Rows
  <2>2. QED
    BY <2>1 DEF IInv, TypeOK, RowType
<1>2. w \in RowType /\ w.amt = row[r].amt
  <2>1. CASE a = "AA"
    BY <1>1, <2>1 DEF Flags, RowType
  <2>2. CASE a = "BB"
    BY <1>1, <2>2 DEF Flags, RowType
  <2>3. CASE a = "55"
    BY <1>1, <2>3 DEF Flags, RowType
  <2>4. CASE a = "CC"
    BY <1>1, <2>4 DEF Flags, RowType
  <2>5. QED
    BY <2>1, <2>2, <2>3, <2>4, ReaderAssumption
<1>3. row' = [row EXCEPT ![r] = w]
  OBVIOUS
<1>4. /\ row' \in [Rows -> RowType]
      /\ \A t \in Readers : t \in Rows
      /\ \A t \in Rows : row'[t] = IF t = r THEN w ELSE row[t]
  BY <1>1, <1>2, <1>3, RowUpdate
<1>5. TypeOK'
  BY <1>4 DEF IInv, TypeOK, RowType, readerVars, busVars, no
<1>6. /\ \A t \in Readers : row'[t].amt = row[t].amt
      /\ \A n \in Rows : row'[n].used => n \in Readers
  BY <1>2, <1>4 DEF IInv
<1>7. QED
  BY <1>5, <1>6, QuietStep DEF IInv, readerVars, busVars

LEMMA DrainStep ==
  ASSUME IInv, Drain
  PROVE  IInv' /\ NoneBack
<1> USE DEF Drain
<1>1. fifo' \in Seq(Frames) /\ Len(fifo') <= FIFO_DEPTH
  BY TailTyped DEF IInv, TypeOK
<1>2. TypeOK'
  BY <1>1, TurnTyped DEF IInv, TypeOK, NextTurn, readerVars
<1>3. QED
  BY <1>2, PopStep DEF IInv, NextTurn

-----------------------------------------------------------------------------
(* The readers and the answers of one bus are among those of the model.    *)
LEMMA BusParts ==
  ASSUME BusKept
  PROVE  bus.readers \subseteq Readers /\ bus.answers \subseteq Answers
BY ReaderAssumption DEF BusKept

LEMMA InitInv == Init => IInv /\ BusKept
<1> SUFFICES ASSUME Init PROVE IInv
  BY DEF Init, BusKept
<1> USE DEF Init
<1>0. bus.readers \subseteq Readers
  BY BusParts DEF BusKept
<1>1. \A r \in Readers : r \in Rows /\ r # 0
  BY ReaderAssumption DEF Rows
<1>2. row \in [Rows -> RowType] /\ \A r \in Rows : row[r].amt = 0 /\ row[r].used = (r \in bus.readers)
  BY ReaderAssumption DEF RowType, LowBits, Kinds, Amounts
<1>3. <<>> \in Seq(Frames) /\ Len(<<>>) = 0 /\ <<>> \in Seq([kind : Kinds, card : Cards])
  BY EmptySeq
<1>4. TypeOK
  <2>1. happened \in [Readers -> Seq([kind : Kinds, card : Cards])]
    BY <1>3
  <2>2. TempBuff \in [kind : Kinds \cup {"junk"}, card : Cards \cup {NoCard}]
    BY DEF JunkBuff
  <2>3. fifo \in Seq(Frames) /\ wire \in Seq(Frames) /\ Len(fifo) <= FIFO_DEPTH
    BY <1>3, ReaderAssumption
  <2>4. over \in 0 .. OVERFLOW /\ Led_TaskCount \in 0 .. BUSNUM_SIZE + 2 /\ attempt \in 1 .. 2
    BY ReaderAssumption
  <2>5. QED
    BY <1>2, <2>1, <2>2, <2>3, <2>4 DEF TypeOK, RowType
<1>5. Flow(fifo, wire, Stores, Counts)
  <2>1. Stores = [r \in Readers |-> 0] /\ Counts = [r \in Readers |-> 0]
    BY <1>1, <1>2, <1>3 DEF Stores, Counts, count
  <2>2. QED
    BY <2>1, <1>3, ReaderAssumption DEF Flow, Sorted, Before, Between, Amounts
<1>6. QED
  BY <1>0, <1>2, <1>4, <1>5 DEF IInv

LEMMA NextInv ==
  ASSUME IInv, BusKept, [Next]_vars
  PROVE  IInv' /\ BusKept' /\ NoneBack
<1>0. BusKept' /\ bus.readers \subseteq Readers /\ bus.answers \subseteq Answers
  BY BusParts DEF BusKept, Next, vars
<1> SUFFICES IInv' /\ NoneBack
  BY <1>0
<1>1. CASE \E r \in bus.readers, cd \in Cards : InsertCard(r, cd)
  BY <1>0, <1>1, InsertStep
<1>2. CASE \E r \in bus.readers : PullCard(r)
  BY <1>0, <1>2, PullStep
<1>3. CASE Arrive
  BY <1>3, ArriveStep
<1>4. CASE LoseFrame
  BY <1>4, LoseStep
<1>5. CASE LedTask
  <2>1. CASE StartPoll
    BY <2>1, StartPollStep
  <2>2. CASE SendPoll
    BY <2>2, SendPollStep
  <2>3. CASE Wait1
    BY <2>3, Wait1Step
  <2>4. CASE Wait2
    BY <2>4, Wait2Step
  <2>5. CASE SendAck
    BY <2>5, SendAckStep
  <2>6. CASE Forward
    BY <2>6, ForwardStep
  <2>7. CASE NoAnswer
    BY <2>7, NoAnswerStep
  <2>8. CASE Drain
    BY <2>8, DrainStep
  <2>9. CASE \E a \in bus.answers, r \in bus.readers : Answer(a, r)
    BY <1>0, <2>9, AnswerStep
  <2>10. QED
    BY <1>5, <2>1, <2>2, <2>3, <2>4, <2>5, <2>6, <2>7, <2>8, <2>9 DEF LedTask
<1>6. CASE UNCHANGED vars
  <2>1. TypeOK'
    BY <1>6 DEF IInv, TypeOK, vars, no
  <2>2. Flow(fifo, wire, Stores, Counts)'
    BY <1>6, FlowKept DEF vars
  <2>3. NoneBack
    BY <1>6, StoresTyped DEF NoneBack, IInv, vars
  <2>4. QED
    BY <1>6, <2>1, <2>2, <2>3 DEF IInv, vars, count, Rows
<1>7. QED
  BY <1>1, <1>2, <1>3, <1>4, <1>5, <1>6 DEF Next

(* The inductive invariant holds always.                                   *)
THEOREM PollInvariant == Spec => [](IInv /\ BusKept)
<1>1. IInv /\ BusKept /\ [Next]_vars => IInv' /\ BusKept'
  BY NextInv
<1>2. QED
  BY InitInv, <1>1, PTL DEF Spec

(* The types of ReadRunningData's and led_task's data, among them that the *)
(* FIFO never holds more than its places, that only registered readers are *)
(* polled and that Overflow_Flag never wraps around.                       *)
THEOREM PollTypes == Spec => []TypeOK
<1>1. IInv /\ BusKept => TypeOK
  BY DEF IInv
<1>2. QED
  BY PollInvariant, <1>1, PTL

(* The data stored for a reader never goes back to an earlier event: for   *)
(* any readers and FIFO, with frames lost, late or overwritten.            *)
THEOREM PollNeverBackwards == Spec => NeverBackwards
<1>1. IInv /\ BusKept /\ [Next]_vars => [\A r \in Readers : row'[r].amt >= row[r].amt]_vars
  BY NextInv DEF NoneBack
<1>2. QED
  BY PollInvariant, <1>1, PTL DEF Spec, NeverBackwards

-----------------------------------------------------------------------------
(* When a row has an event                                                 *)

(* Row n is polled in turn n - 1 and forwarded in turn n: in between, and  *)
(* at no other time, it may have an event.                                 *)
Fetched(n) ==
  \/ Led_TaskCount + 1 = n /\ pc \in {"ack", "forward", "serve", "drain"}
  \/ Led_TaskCount = n /\ pc \in {"idle", "send", "wait1", "wait2", "ack", "forward"}

(* The rows that are forwarded.                                            *)
Forwarded(n) == n \in Rows /\ n > 0 /\ n < BUSNUM_SIZE

BitsWhen == \A n \in Rows : Forwarded(n) /\ row[n].bits # {} => Fetched(n)

(* What was stored is what is acknowledged.                                *)
AckKept ==
  pc = "ack" => /\ row[no].card = TempBuff.card
                /\ Forwarded(no) => row[no].bits = EventFlag

LEMMA RowsAre ==
  ASSUME TypeOK
  PROVE  /\ row \in [Rows -> RowType] /\ Led_TaskCount \in Nat /\ no \in Nat
         /\ \A n \in Rows : row[n].bits \subseteq Kinds /\ n \in Nat
         /\ BUSNUM_SIZE \in Nat /\ \A r \in Readers : r \in Rows /\ r > 0
<1>1. row \in [Rows -> RowType]
  BY DEF TypeOK, RowType
<1>2. BUSNUM_SIZE \in Nat /\ \A r \in Readers : r \in Rows /\ r > 0
  BY ReaderAssumption DEF Rows
<1>3. Led_TaskCount \in Nat /\ no \in Nat /\ \A n \in Rows : n \in Nat
  BY <1>2 DEF TypeOK, no, Rows
<1> QED BY <1>1, <1>2, <1>3 DEF RowType

(* What ReadRunningData makes of the row it polls, when it ends without a  *)
(* frame to store, and when it stores one.                                 *)
Fruitless ==
  /\ pc' \in {"send", "forward", "wait1", "wait2"}
  /\ \A n \in Rows : row'[n].amt = row[n].amt /\ row'[n].used = row[n].used
  /\ \A n \in Rows : n # no => row'[n].bits = row[n].bits
  /\ row'[no].bits = row[no].bits \/ row'[no].bits = {}

Fruitful ==
  /\ pc' = "ack" /\ TempBuff' = TempBuff
  /\ fifo # <<>> /\ Head(fifo).from = no /\ fifo' = Tail(fifo)
  /\ \A n \in Rows : row'[n].used = row[n].used
  /\ \A n \in Rows : n # no => row'[n].bits = row[n].bits /\ row'[n].amt = row[n].amt
  /\ row'[no].amt = Head(fifo).amt /\ row'[no].card = TempBuff.card
  /\ row'[no].bits = row[no].bits \cup EventFlag

LEMMA FailedFruitless ==
  ASSUME TypeOK, pc \in {"wait1", "wait2"}, Failed
  PROVE  Fruitless
<1>1. no \in Rows /\ row[no] \in RowType /\ row \in [Rows -> RowType]
  BY PolledRow, RowsAre
<1>2. CASE attempt = 1
  BY <1>1, <1>2 DEF Failed, Fruitless
<1>3. CASE attempt # 1
  <2>1. pc' = "forward" /\ row' = [row EXCEPT ![no] = [row[no] EXCEPT !.lost = TRUE]]
    BY <1>3 DEF Failed
  <2>2. /\ \A n \in Rows : n # no => row'[n] = row[n]
        /\ row'[no] = [row[no] EXCEPT !.lost = TRUE]
    BY <1>1, <2>1
  <2>3. row'[no].amt = row[no].amt /\ row'[no].used = row[no].used /\ row'[no].bits = row[no].bits
    BY <1>1, <2>2 DEF RowType
  <2> QED BY <1>1, <2>1, <2>2, <2>3 DEF Fruitless
<1> QED BY <1>2, <1>3

LEMMA NothingFruitless ==
  ASSUME TypeOK, pc \in {"wait1", "wait2"}, NothingThere
  PROVE  Fruitless
<1>1. no \in Rows /\ row[no] \in RowType /\ row \in [Rows -> RowType]
  BY PolledRow, RowsAre
<1> DEFINE w == [row[no] EXCEPT !.lost = FALSE, !.bits = {}]
<1>2. pc' = "forward" /\ row' = [row EXCEPT ![no] = w]
  BY DEF NothingThere
<1>3. w.amt = row[no].amt /\ w.used = row[no].used /\ w.bits = {}
  BY <1>1 DEF RowType
<1> HIDE DEF w
<1>4. row'[no] = w /\ \A n \in Rows : n # no => row'[n] = row[n]
  BY <1>1, <1>2
<1> QED BY <1>1, <1>2, <1>3, <1>4 DEF Fruitless

LEMMA StoredFruitful ==
  ASSUME TypeOK, pc \in {"wait1", "wait2"}, Stored(Head(fifo).amt), TempBuff' = TempBuff,
         fifo # <<>>, Head(fifo).from = no, fifo' = Tail(fifo)
  PROVE  Fruitful
<1>1. no \in Rows /\ row[no] \in RowType /\ row \in [Rows -> RowType]
  BY PolledRow, RowsAre
<1> DEFINE w == [row[no] EXCEPT !.bits = @ \cup EventFlag, !.card = TempBuff.card,
                                !.amt = Head(fifo).amt]
<1>2. pc' = "ack" /\ row' = [row EXCEPT ![no] = w]
  BY DEF Stored
<1>3. /\ w.amt = Head(fifo).amt /\ w.used = row[no].used
      /\ w.bits = row[no].bits \cup EventFlag /\ w.card = TempBuff.card
  BY <1>1 DEF RowType
<1> HIDE DEF w
<1>4. row'[no] = w /\ \A n \in Rows : n # no => row'[n] = row[n]
  BY <1>1, <1>2
<1> QED BY <1>1, <1>2, <1>3, <1>4 DEF Fruitful

(* The frame that is taken, and what TempBuff holds then.                  *)
LEMMA WaitOutcome ==
  ASSUME TypeOK, Wait1 \/ Wait2
  PROVE  /\ pc \in {"wait1", "wait2"} /\ Led_TaskCount' = Led_TaskCount /\ no' = no
         /\ UNCHANGED <<readerVars, wire, reported, again>>
         /\ fifo' = fifo \/ (fifo # <<>> /\ fifo' = Tail(fifo))
         /\ Fruitless \/ Fruitful
         /\ \/ TempBuff' = TempBuff
            \/ /\ Fruitless
               /\ fifo # <<>> /\ Head(fifo).from = no /\ fifo' = Tail(fifo)
               /\ \/ Head(fifo).kind = "ins1"
                     /\ TempBuff' = [kind |-> "ins", card |-> Head(fifo).card]
                  \/ Head(fifo).kind = "pull1"
                     /\ TempBuff' = [kind |-> "pull", card |-> Head(fifo).card]
<1>1. /\ pc \in {"wait1", "wait2"} /\ Led_TaskCount' = Led_TaskCount /\ no' = no
      /\ UNCHANGED <<readerVars, wire, reported, again>>
  BY DEF Wait1, Wait2, no
<1>2. /\ row \in [Rows -> RowType]
      /\ row' = row /\ pc' \in {"send", "forward", "wait1", "wait2"} => Fruitless
  BY RowsAre DEF Fruitless
<1>3. ASSUME NEW f, Try(f)
      PROVE  Fruitless /\ TempBuff' = TempBuff
  BY <1>1, <1>2, <1>3, FailedFruitless DEF Try
<1>4. CASE Wait1
  <2>1. CASE ~(fifo # <<>> /\ Head(fifo).from = no)
    BY <1>1, <1>3, <1>4, <2>1 DEF Wait1
  <2>2. CASE fifo # <<>> /\ Head(fifo).from = no
    <3> DEFINE f == Head(fifo)
    <3>1. /\ fifo' = Tail(fifo)
          /\ \/ /\ f.kind = "none"
                /\ NothingThere
                /\ UNCHANGED <<TempBuff, over, stale>>
             \/ /\ f.kind = "ins1"
                /\ TempBuff' = [kind |-> "ins", card |-> f.card]
                /\ over' = OVERFLOW
                /\ stale' = TRUE
                /\ pc' = "wait2"
                /\ UNCHANGED <<attempt, row>>
             \/ /\ f.kind = "pull1"
                /\ TempBuff' = [kind |-> "pull", card |-> f.card]
                /\ Failed
                /\ UNCHANGED <<over, stale>>
             \/ /\ f.kind \in {"ins2", "pull2"}
                /\ Stored(f.amt)
                /\ UNCHANGED <<TempBuff, over, stale>>
      BY <1>4, <2>2 DEF Wait1
    <3>2. CASE f.kind = "none" /\ NothingThere /\ UNCHANGED TempBuff
      BY <1>1, <2>2, <3>1, <3>2, NothingFruitless
    <3>3. CASE f.kind = "ins1" /\ TempBuff' = [kind |-> "ins", card |-> f.card] /\ pc' = "wait2"
               /\ UNCHANGED row
      BY <1>1, <1>2, <2>2, <3>1, <3>3
    <3>4. CASE f.kind = "pull1" /\ TempBuff' = [kind |-> "pull", card |-> f.card] /\ Failed
      BY <1>1, <2>2, <3>1, <3>4, FailedFruitless
    <3>5. CASE Stored(f.amt) /\ UNCHANGED TempBuff
      BY <1>1, <2>2, <3>1, <3>5, StoredFruitful
    <3> QED BY <3>1, <3>2, <3>3, <3>4, <3>5
  <2> QED BY <2>1, <2>2
<1>5. CASE Wait2
  <2>1. CASE ~(fifo # <<>> /\ Head(fifo).from = no)
    BY <1>1, <1>3, <1>5, <2>1 DEF Wait2
  <2>2. CASE fifo # <<>> /\ Head(fifo).from = no
    <3>1. /\ fifo' = Tail(fifo) /\ UNCHANGED TempBuff
          /\ Stored(Head(fifo).amt) \/ Failed
      BY <1>5, <2>2 DEF Wait2
    <3> QED BY <1>1, <2>2, <3>1, StoredFruitful, FailedFruitless
  <2> QED BY <2>1, <2>2
<1> QED BY <1>4, <1>5

LEMMA EventFlagIs ==
  EventFlag = {TempBuff.kind} \cap Kinds /\ (UNCHANGED TempBuff => EventFlag' = EventFlag)
BY DEF EventFlag, Kinds

(* The flags of a row that is forwarded are set and cleared only here.     *)
Cleared(n) ==
  /\ pc = "forward" /\ pc' = "serve" /\ Led_TaskCount = n /\ Led_TaskCount' = n
  /\ row'[n].bits = {}
  /\ bus.full \/ Entry(n) \in reported'

LEMMA ForwardClears ==
  ASSUME TypeOK, Forward
  PROVE  /\ pc = "forward" /\ pc' = "serve" /\ Led_TaskCount' = Led_TaskCount
         /\ \A n \in Rows : n # Led_TaskCount => row'[n] = row[n]
         /\ \A n \in Rows : row'[n].amt = row[n].amt /\ row'[n].used = row[n].used
         /\ Led_TaskCount \in Rows /\ Led_TaskCount < BUSNUM_SIZE =>
              \/ row[Led_TaskCount].bits = {} /\ row' = row
              \/ Cleared(Led_TaskCount)
         /\ Led_TaskCount \notin Rows \/ ~(Led_TaskCount < BUSNUM_SIZE) => row' = row
<1> DEFINE n == Led_TaskCount
<1>1. /\ pc = "forward" /\ pc' = "serve" /\ Led_TaskCount' = n
      /\ IF Waits(n) THEN /\ bus.full \/ Entry(n) \in reported'
                          /\ row' = [row EXCEPT ![n] = ClearedFlags(row[n])]
                     ELSE row' = row
  BY DEF Forward
<1>2. /\ row \in [Rows -> RowType] /\ n \in Nat /\ (n < BUSNUM_SIZE => n \in Rows)
  BY RowsAre DEF Rows
<1>3. CASE ~Waits(n)
  BY <1>1, <1>2, <1>3 DEF Waits
<1>4. CASE Waits(n)
  <2> DEFINE w == ClearedFlags(row[n])
  <2>1. n \in Rows /\ n < BUSNUM_SIZE /\ row[n] \in RowType
    BY <1>2, <1>4 DEF Waits
  <2>2. w.bits = {} /\ w.amt = row[n].amt /\ w.used = row[n].used
    BY <2>1 DEF ClearedFlags, RowType
  <2> HIDE DEF w
  <2>3. row'[n] = w /\ \A m \in Rows : m # n => row'[m] = row[m]
    BY <1>1, <1>2, <1>4, <2>1 DEF w
  <2>4. Cleared(n)
    BY <1>1, <1>4, <2>2, <2>3 DEF Cleared
  <2> QED BY <1>1, <2>1, <2>2, <2>3, <2>4
<1> QED BY <1>3, <1>4

LEMMA AnswerKeeps ==
  ASSUME TypeOK, NEW a \in {"AA", "BB", "55", "CC"}, NEW r \in Readers, Answer(a, r)
  PROVE  /\ pc = "serve" /\ pc' = "drain" /\ Led_TaskCount' = Led_TaskCount
         /\ \A n \in Rows : /\ row'[n].amt = row[n].amt
                            /\ n # r => row'[n] = row[n]
                            /\ row'[n].bits = row[n].bits \/ (a = "CC" /\ row'[n].bits = {})
<1>1. row \in [Rows -> RowType] /\ r \in Rows /\ row[r] \in RowType
  BY RowsAre
<1>2. /\ pc = "serve" /\ pc' = "drain" /\ Led_TaskCount' = Led_TaskCount
      /\ row' = [row EXCEPT ![r] = Flags(a, row[r])]
  BY DEF Answer
<1> DEFINE w == Flags(a, row[r])
<1>3. w.amt = row[r].amt /\ (w.bits = row[r].bits \/ (a = "CC" /\ w.bits = {}))
  <2>1. CASE a = "AA"
    BY <1>1, <2>1 DEF Flags, RowType
  <2>2. CASE a = "BB"
    BY <1>1, <2>2 DEF Flags, RowType
  <2>3. CASE a = "55"
    BY <1>1, <2>3 DEF Flags, RowType
  <2>4. CASE a = "CC"
    BY <1>1, <2>4 DEF Flags, RowType
  <2> QED BY <2>1, <2>2, <2>3, <2>4
<1> HIDE DEF w
<1>4. row'[r] = w /\ \A n \in Rows : n # r => row'[n] = row[n]
  BY <1>1, <1>2 DEF w
<1> QED BY <1>2, <1>3, <1>4

(* What each step does to the flags of a row that is forwarded.            *)
LEMMA BitsStep ==
  ASSUME IInv, BusKept, BitsWhen, [Next]_vars, NEW n \in Rows, Forwarded(n)
  PROVE  /\ row'[n].bits # {} => Fetched(n)'
         /\ \/ row'[n].bits = row[n].bits
            \/ row[n].bits = {}
            \/ Cleared(n)
            \/ pc = "serve" /\ "CC" \in bus.answers /\ row'[n].bits = {}
<1>0. /\ TypeOK /\ row \in [Rows -> RowType] /\ Led_TaskCount \in Nat /\ no = Led_TaskCount + 1
      /\ n \in Nat /\ n > 0 /\ n < BUSNUM_SIZE /\ BUSNUM_SIZE \in Nat
      /\ row[n].bits # {} => Fetched(n)
  BY RowsAre DEF IInv, no, BitsWhen, Forwarded
<1>1. CASE UNCHANGED <<row, pc, Led_TaskCount>>
  BY <1>0, <1>1 DEF Fetched
<1>2. CASE StartPoll \/ SendPoll \/ SendAck
  <2>1. /\ row' = row /\ Led_TaskCount' = Led_TaskCount
        /\ \/ pc = "idle" /\ pc' \in {"send", "forward"}
           \/ pc = "send" /\ pc' = "wait1"
           \/ pc = "ack" /\ pc' = "forward"
    BY <1>2 DEF StartPoll, SendPoll, SendAck
  <2> QED BY <1>0, <2>1 DEF Fetched
<1>3. CASE Wait1 \/ Wait2
  <2>1. /\ pc \in {"wait1", "wait2"} /\ Led_TaskCount' = Led_TaskCount
        /\ Fruitless \/ Fruitful
    BY <1>0, <1>3, WaitOutcome
  <2>2. n = no => row[n].bits = {}
    BY <1>0, <2>1 DEF Fetched
  <2>3. CASE Fruitless
    BY <1>0, <2>1, <2>2, <2>3 DEF Fruitless, Fetched
  <2>4. CASE Fruitful
    BY <1>0, <2>1, <2>2, <2>4 DEF Fruitful, Fetched
  <2> QED BY <2>1, <2>3, <2>4
<1>4. CASE Forward
  <2>1. /\ pc = "forward" /\ pc' = "serve" /\ Led_TaskCount' = Led_TaskCount
        /\ n # Led_TaskCount => row'[n] = row[n]
        /\ n = Led_TaskCount => (row[n].bits = {} /\ row' = row) \/ Cleared(n)
    BY <1>0, <1>4, ForwardClears
  <2>2. CASE n # Led_TaskCount
    BY <1>0, <2>1, <2>2 DEF Fetched
  <2>3. CASE n = Led_TaskCount
    BY <1>0, <2>1, <2>3 DEF Cleared
  <2> QED BY <2>2, <2>3
<1>5. CASE NoAnswer \/ Drain
  <2>1. /\ row' = row /\ pc \in {"serve", "drain"} /\ NextTurn
    BY <1>5 DEF NoAnswer, Drain
  <2> QED BY <1>0, <2>1 DEF Fetched, NextTurn
<1>6. CASE \E a \in bus.answers, r \in bus.readers : Answer(a, r)
  <2>1. PICK a \in bus.answers, r \in bus.readers : Answer(a, r)
    BY <1>6
  <2>2. a \in {"AA", "BB", "55", "CC"} /\ r \in Readers
    BY BusParts, ReaderAssumption
  <2>3. /\ pc = "serve" /\ pc' = "drain" /\ Led_TaskCount' = Led_TaskCount
        /\ row'[n].bits = row[n].bits \/ (a = "CC" /\ row'[n].bits = {})
    BY <1>0, <2>1, <2>2, AnswerKeeps
  <2> QED BY <1>0, <2>1, <2>3 DEF Fetched
<1> QED
  <2>1. (\E r \in bus.readers, c \in Cards : InsertCard(r, c)) \/ (\E r \in bus.readers : PullCard(r))
          => UNCHANGED <<row, pc, Led_TaskCount>>
    BY DEF InsertCard, PullCard, Happens, pollVars
  <2>2. Arrive \/ LoseFrame \/ UNCHANGED vars => UNCHANGED <<row, pc, Led_TaskCount>>
    BY DEF Arrive, LoseFrame, pollVars, vars
  <2> QED BY <1>1, <1>2, <1>3, <1>4, <1>5, <1>6, <2>1, <2>2 DEF Next, LedTask

LEMMA BitsWhenKept ==
  ASSUME IInv, BusKept, BitsWhen, [Next]_vars
  PROVE  BitsWhen'
BY BitsStep DEF BitsWhen, Forwarded, Rows

LEMMA BitsWhenInit == Init => BitsWhen
BY ReaderAssumption DEF Init, BitsWhen, Forwarded, Rows

(* The flags of an event in a row below the last change only where it is   *)
(* put in the queue, and there they are cleared and the event is in the    *)
(* queue unless that was full, or by the answer to a heartbeat: for any    *)
(* number of readers, on any bus, lost, late and left over frames          *)
(* included.                                                               *)
THEOREM PollClearedWhenSent == Spec => ClearedWhenSent
<1> DEFINE A == \A r \in Readers :
                  r < BUSNUM_SIZE /\ row[r].bits # {} /\ row'[r].bits # row[r].bits =>
                  /\ row'[r].bits = {}
                  /\ \/ pc = "forward" /\ (bus.full \/ Entry(r) \in reported')
                     \/ pc = "serve" /\ "CC" \in bus.answers
<1>1. IInv /\ BusKept /\ BitsWhen /\ [Next]_vars => A
  <2> SUFFICES ASSUME IInv, BusKept, BitsWhen, [Next]_vars, NEW r \in Readers,
                      r < BUSNUM_SIZE, row[r].bits # {}, row'[r].bits # row[r].bits
               PROVE  /\ row'[r].bits = {}
                      /\ \/ pc = "forward" /\ (bus.full \/ Entry(r) \in reported')
                         \/ pc = "serve" /\ "CC" \in bus.answers
    OBVIOUS
  <2>1. Forwarded(r) /\ r \in Rows
    BY RowsAre DEF IInv, Forwarded
  <2>2. Cleared(r) \/ (pc = "serve" /\ "CC" \in bus.answers /\ row'[r].bits = {})
    BY <2>1, BitsStep
  <2> QED BY <2>2 DEF Cleared
<1>2. IInv /\ BusKept /\ BitsWhen /\ [Next]_vars => BitsWhen'
  BY BitsWhenKept
<1>3. IInv /\ BusKept /\ BitsWhen /\ [Next]_vars => [A]_vars
  BY <1>1
<1> HIDE DEF A
<1>4. Spec => [][A]_vars
  BY BitsWhenInit, <1>2, <1>3, PollInvariant, PTL DEF Spec
<1> QED BY <1>4 DEF ClearedWhenSent, A

-----------------------------------------------------------------------------
(* A reader on its own                                                     *)

(* The frames under way.                                                   *)
Flying == {fifo[i] : i \in 1 .. Len(fifo)} \cup {wire[i] : i \in 1 .. Len(wire)}

(* A frame with a card number is about the event it is numbered with.      *)
Truthful(f, h) ==
  f.kind \in {"ins1", "pull1"} =>
    /\ f.amt \in 1 .. Len(h)
    /\ h[f.amt] = [kind |-> IF f.kind = "ins1" THEN "ins" ELSE "pull", card |-> f.card]

(* A card can only be pulled after it was inserted.                        *)
Alternates(r) ==
  /\ \A i \in 1 .. (count(r) - 1) : happened[r][i].kind # happened[r][i + 1].kind
  /\ count(r) > 0 => (Pending(r).kind = "ins" <=> slot[r] # NoCard)

(* What is stored is the last event or, until that is acknowledged, the    *)
(* one before it.                                                          *)
StoredOf(r) == row[r].amt >= count(r) - 1 /\ (~held[r] => row[r].amt = count(r))

(* TempBuff is of the last event, all frames with an older one being gone; *)
(* or of the one before, when the last is not acknowledged yet; or holds   *)
(* no card's number.                                                       *)
BuffLast(r) ==
  /\ count(r) > 0 /\ TempBuff = Pending(r)
  /\ \A f \in Flying : f.amt >= count(r)
  /\ pc = "ack" => row[r].amt = count(r)

BuffBefore(r) == held[r] /\ count(r) > 1 /\ TempBuff = happened[r][count(r) - 1]

BuffOf(r) == TempBuff = JunkBuff \/ BuffLast(r) \/ BuffBefore(r)

Single(r) == bus.readers = {r} /\ r < BUSNUM_SIZE

OneReader(r) ==
  /\ \A n \in Rows : row[n].used => n = r
  /\ pc \in {"send", "wait1", "wait2", "ack"} => no = r
  /\ \A f \in Flying : f.from = r /\ Truthful(f, happened[r])
  /\ Alternates(r)
  /\ StoredOf(r)
  /\ BuffOf(r)

AloneInv == AckKept /\ \A r \in Readers : Single(r) => OneReader(r)

LEMMA CountsAre ==
  ASSUME TypeOK
  PROVE  /\ \A r \in Readers : /\ count(r) \in Nat
                               /\ happened[r] \in Seq([kind : Kinds, card : Cards])
                               /\ row[r].amt \in Nat
         /\ \A r \in Readers : count(r) > 0 => Pending(r) \in [kind : Kinds, card : Cards]
<1>1. \A r \in Readers : happened[r] \in Seq([kind : Kinds, card : Cards])
  BY DEF TypeOK
<1>2. \A r \in Readers : row[r].amt \in Nat
  BY StoresTyped
<1>3. \A r \in Readers : count(r) \in Nat
  BY <1>1, LenProperties DEF count
<1>4. ASSUME NEW r \in Readers, count(r) > 0
      PROVE  Pending(r) \in [kind : Kinds, card : Cards]
  <2>1. count(r) \in 1 .. Len(happened[r])
    BY <1>3, <1>4 DEF count
  <2> QED BY <1>1, <2>1, ElementOfSeq DEF Pending
<1> QED BY <1>1, <1>2, <1>3, <1>4

(* The frames under way are between what is stored and what happened.      *)
LEMMA FlyingBetween ==
  ASSUME IInv
  PROVE  \A f \in Flying : /\ f \in Frames /\ f.from \in Readers /\ f.amt \in Nat
                           /\ row[f.from].amt <= f.amt /\ f.amt <= count(f.from)
<1>1. /\ Between(fifo, Stores, Counts) /\ Between(wire, Stores, Counts)
      /\ fifo \in Seq(Frames) /\ wire \in Seq(Frames)
  BY DEF IInv, Flow
<1> SUFFICES ASSUME NEW q \in {fifo, wire}, NEW i \in 1 .. Len(q)
             PROVE  /\ q[i] \in Frames /\ q[i].from \in Readers /\ q[i].amt \in Nat
                    /\ row[q[i].from].amt <= q[i].amt /\ q[i].amt <= count(q[i].from)
  BY DEF Flying
<1>2. q[i] \in Frames /\ q[i].from \in Readers /\ q[i].amt \in Amounts
  BY <1>1, FrameAt
<1>3. q[i].amt \in Nat
  BY <1>2, ReaderAssumption DEF Amounts
<1>4. Stores[q[i].from] <= q[i].amt /\ q[i].amt <= Counts[q[i].from]
  BY <1>1 DEF Between
<1> QED BY <1>2, <1>3, <1>4 DEF Stores, Counts

(* What a reader answers is true.                                          *)
LEMMA ReplyIs ==
  ASSUME IInv, NEW r \in Readers
  PROVE  /\ Reply(r) \in Seq(Frames)
         /\ \A i \in 1 .. Len(Reply(r)) : /\ Reply(r)[i].from = r /\ Reply(r)[i].amt = count(r)
                                          /\ Truthful(Reply(r)[i], happened[r])
<1>1. count(r) \in Amounts /\ count(r) \in Nat
  <2>1. Counts \in [Readers -> Amounts]
    BY DEF IInv, Flow
  <2> QED BY <2>1, CountsAre DEF IInv, Counts
<1>2. CASE held[r]
  <2>1. count(r) > 0 /\ Pending(r) \in [kind : Kinds, card : Cards]
    BY <1>2, CountsAre DEF IInv
  <2>2. PICK k \in Kinds, c \in Cards : Pending(r) = [kind |-> k, card |-> c]
    BY <2>1
  <2> DEFINE f == Frame(r, First(k), c, count(r))
             g == Frame(r, Second(k), NoCard, count(r))
  <2>3. Reply(r) = <<f, g>>
    BY <1>2, <2>2 DEF Reply
  <2>4. f \in Frames /\ g \in Frames
    BY <1>1, <2>2 DEF Frame, Frames, First, Second, FrameKinds, Kinds
  <2>5. f.from = r /\ f.amt = count(r) /\ g.from = r /\ g.amt = count(r)
    BY DEF Frame
  <2>6. Truthful(g, happened[r])
    BY <2>2 DEF Truthful, Frame, Second
  <2>7. Truthful(f, happened[r])
    <3>1. happened[r][count(r)] = [kind |-> k, card |-> c] /\ count(r) \in 1 .. Len(happened[r])
      BY <1>1, <2>1, <2>2 DEF Pending, count
    <3>2. f.card = c /\ f.kind = IF k = "ins" THEN "ins1" ELSE "pull1"
      BY DEF Frame, First
    <3> HIDE DEF f
    <3> QED BY <2>2, <2>5, <3>1, <3>2 DEF Truthful, Kinds
  <2> HIDE DEF f, g
  <2> QED BY <2>3, <2>4, <2>5, <2>6, <2>7
<1>3. CASE ~held[r]
  <2> DEFINE f == Frame(r, "none", NoCard, count(r))
  <2>1. Reply(r) = <<f>>
    BY <1>3 DEF Reply
  <2>2. f \in Frames /\ f.from = r /\ f.amt = count(r) /\ Truthful(f, happened[r])
    BY <1>1 DEF Frame, Frames, FrameKinds, Truthful
  <2> HIDE DEF f
  <2> QED BY <2>1, <2>2
<1> QED BY <1>2, <1>3

LEMMA TailFlies ==
  ASSUME NEW q \in Seq(Frames), q # <<>>
  PROVE  /\ \A i \in 1 .. Len(Tail(q)) : i + 1 \in 1 .. Len(q) /\ Tail(q)[i] = q[i + 1]
         /\ 1 \in 1 .. Len(q) /\ Head(q) = q[1]
BY LenProperties, HeadTailProperties, EmptySeq

(* No frame comes into being but in an answer.                             *)
LEMMA FlyingStep ==
  ASSUME IInv, [Next]_vars
  PROVE  \/ Flying' \subseteq Flying
         \/ /\ SendPoll
            /\ Flying' \subseteq Flying \cup {Reply(no)[i] : i \in 1 .. Len(Reply(no))}
<1>0. fifo \in Seq(Frames) /\ wire \in Seq(Frames) /\ Len(fifo) <= FIFO_DEPTH
  BY DEF IInv, TypeOK
<1>1. CASE UNCHANGED <<fifo, wire>>
  BY <1>1 DEF Flying
<1>2. CASE fifo # <<>> /\ fifo' = Tail(fifo) /\ wire' = wire
  BY <1>0, <1>2, TailFlies DEF Flying
<1>3. CASE LoseFrame
  BY <1>0, <1>3, TailFlies DEF Flying, LoseFrame
<1>4. CASE Arrive
  <2>1. wire # <<>> /\ wire' = Tail(wire) /\ fifo' = Received(fifo, wire[1]) /\ wire[1] \in Flying
    BY <1>0, <1>4, TailFlies DEF Arrive, Flying
  <2>2. \A i \in 1 .. Len(wire') : wire'[i] \in Flying
    BY <1>0, <2>1, TailFlies DEF Flying
  <2>3. \A i \in 1 .. Len(fifo') : fifo'[i] \in Flying
    <3>1. CASE Len(fifo) < FIFO_DEPTH
      <4>1. fifo' = Append(fifo, wire[1])
        BY <2>1, <3>1 DEF Received
      <4>2. \A i \in 1 .. Len(fifo') : (i \in 1 .. Len(fifo) /\ fifo'[i] = fifo[i]) \/ fifo'[i] = wire[1]
        <5>1. wire[1] \in Frames
          BY <1>0, <2>1, TailFlies, ElementOfSeq
        <5>2. Len(fifo) \in Nat
          BY <1>0, LenProperties
        <5> QED BY <1>0, <4>1, <5>1, <5>2, AppendProperties
      <4> QED BY <2>1, <4>2 DEF Flying
    <3>2. CASE ~(Len(fifo) < FIFO_DEPTH)
      <4>1. fifo' = [fifo EXCEPT ![FIFO_DEPTH] = wire[1]]
        BY <2>1, <3>2 DEF Received
      <4>2. \A i \in 1 .. Len(fifo') : i \in 1 .. Len(fifo) /\ (fifo'[i] = fifo[i] \/ fifo'[i] = wire[1])
        BY <1>0, <4>1
      <4> QED BY <2>1, <4>2 DEF Flying
    <3> QED BY <3>1, <3>2
  <2> QED BY <2>2, <2>3 DEF Flying
<1>5. CASE SendPoll
  <2>1. fifo' = fifo /\ (wire' = wire \o Reply(no) \/ wire' = wire)
    BY <1>5 DEF SendPoll
  <2>2. CASE wire' = wire \o Reply(no)
    <3>1. no \in Readers /\ Reply(no) \in Seq(Frames)
      BY <1>5, ReplyIs DEF IInv, TypeOK, SendPoll
    <3>2. \A i \in 1 .. Len(wire') : \/ i \in 1 .. Len(wire) /\ wire'[i] = wire[i]
                                     \/ \E j \in 1 .. Len(Reply(no)) : wire'[i] = Reply(no)[j]
      <4> DEFINE m == Reply(no)
      <4>1. m \in Seq(Frames)
        BY <3>1
      <4> HIDE DEF m
      <4>2. \A i \in 1 .. Len(wire \o m) : \/ i \in 1 .. Len(wire) /\ (wire \o m)[i] = wire[i]
                                           \/ i - Len(wire) \in 1 .. Len(m)
                                              /\ (wire \o m)[i] = m[i - Len(wire)]
        BY <1>0, <4>1
      <4> QED BY <2>2, <4>2 DEF m
    <3> QED BY <1>5, <2>1, <2>2, <3>2 DEF Flying
  <2> QED BY <2>1, <2>2 DEF Flying
<1>6. CASE Wait1 \/ Wait2
  BY <1>1, <1>2, <1>6, WaitOutcome DEF IInv
<1> QED
  BY <1>1, <1>2, <1>3, <1>4, <1>5, <1>6 DEF Next, LedTask, vars, InsertCard, PullCard, Happens,
     busVars, StartPoll, SendAck, Forward, NoAnswer, Drain, Answer

(* What the invariant says of a reader that is alone, in one place.        *)
LEMMA OneFacts ==
  ASSUME IInv, NEW r \in Readers, OneReader(r)
  PROVE  /\ count(r) \in Nat /\ row[r].amt \in Nat
         /\ row[r].amt <= count(r) /\ count(r) - 1 <= row[r].amt
         /\ \A f \in Flying : /\ f \in Frames /\ f.from = r /\ f.amt \in Nat
                              /\ row[r].amt <= f.amt /\ f.amt <= count(r)
         /\ \A i \in 1 .. count(r) : happened[r][i] \in [kind : Kinds, card : Cards]
<1>1. TypeOK
  BY DEF IInv
<1>2. count(r) \in Nat /\ row[r].amt \in Nat /\ happened[r] \in Seq([kind : Kinds, card : Cards])
  BY <1>1, CountsAre
<1>3. row[r].amt <= count(r)
  <2>1. Stores[r] <= Counts[r]
    BY DEF IInv, Flow
  <2> QED BY <2>1 DEF Stores, Counts
<1>4. \A f \in Flying : f.from = r
  BY DEF OneReader
<1>5. \A i \in 1 .. count(r) : happened[r][i] \in [kind : Kinds, card : Cards]
  BY <1>2, ElementOfSeq DEF count
<1> QED BY <1>2, <1>3, <1>4, <1>5, FlyingBetween DEF OneReader, StoredOf

(* Steps that take no event, acknowledge none and store none: a frame that *)
(* is new is one of the reader's last event.                               *)
LEMMA OneQuiet ==
  ASSUME IInv, NEW r \in Readers, OneReader(r),
         UNCHANGED <<slot, happened, held>>,
         TempBuff' \in {TempBuff, JunkBuff},
         \A n \in Rows : row'[n].amt = row[n].amt,
         \A n \in Rows : row'[n].used => row[n].used \/ n = r,
         pc' \in {"send", "wait1", "wait2", "ack"} => no' = r,
         pc' = "ack" => pc = "ack",
         \A f \in Flying' :
           f \in Flying \/ (f.from = r /\ f.amt = count(r) /\ Truthful(f, happened[r]))
  PROVE  OneReader(r)'
<1>1. r \in Rows /\ count(r)' = count(r) /\ Pending(r)' = Pending(r) /\ count(r) \in Nat
  BY OneFacts, RowsAre DEF IInv, count, Pending
<1>2. row'[r].amt = row[r].amt
  BY <1>1
<1>3. \A n \in Rows : row'[n].used => n = r
  BY DEF OneReader
<1>4. \A f \in Flying' : f.from = r /\ Truthful(f, happened'[r])
  BY DEF OneReader
<1>5. Alternates(r)'
  BY <1>1 DEF OneReader, Alternates
<1>6. StoredOf(r)'
  BY <1>1, <1>2 DEF OneReader, StoredOf
<1>7. BuffLast(r) /\ TempBuff' = TempBuff => BuffLast(r)'
  BY <1>1, <1>2 DEF BuffLast
<1>8. BuffBefore(r) /\ TempBuff' = TempBuff => BuffBefore(r)'
  BY <1>1 DEF BuffBefore
<1>9. BuffOf(r)'
  BY <1>7, <1>8 DEF OneReader, BuffOf
<1> QED BY <1>3, <1>4, <1>5, <1>6, <1>9 DEF OneReader, Rows

(* A card is inserted or pulled: what was the last event is the one before *)
(* the last, and every frame under way is older than the new one.          *)
LEMMA OneEvent ==
  ASSUME IInv, NEW r \in Readers, OneReader(r),
         NEW k \in Kinds, NEW cd \in Cards, Happens(r, k, cd),
         slot'[r] # NoCard <=> k = "ins", slot[r] = NoCard <=> k = "ins"
  PROVE  OneReader(r)'
<1> DEFINE n == count(r)
           e == [kind |-> k, card |-> cd]
           h == happened[r]
<1>1. /\ ~held[r] /\ happened' = [happened EXCEPT ![r] = Append(h, e)]
      /\ held' = [held EXCEPT ![r] = TRUE]
      /\ UNCHANGED <<wire, fifo, pc, Led_TaskCount, TempBuff, row>>
  BY DEF Happens, busVars, pollVars
<1>2. /\ happened \in [Readers -> Seq([kind : Kinds, card : Cards])]
      /\ held \in [Readers -> BOOLEAN] /\ h \in Seq([kind : Kinds, card : Cards])
  BY DEF IInv, TypeOK
<1>3. /\ n \in Nat /\ n = Len(h) /\ row[r].amt \in Nat
      /\ \A f \in Flying : f.amt \in Nat /\ f.amt <= n
  BY OneFacts DEF count
<1>4. happened'[r] = Append(h, e) /\ held'[r]
  BY <1>1, <1>2
<1>5. /\ Len(happened'[r]) = n + 1 /\ happened'[r][n + 1] = e
      /\ \A i \in 1 .. n : happened'[r][i] = h[i]
  BY <1>2, <1>3, <1>4, AppendProperties
<1>6. count(r)' = n + 1 /\ Pending(r)' = e
  BY <1>5 DEF count, Pending
<1>7. \A f \in Flying' : f.from = r /\ Truthful(f, happened'[r])
  <2>1. Flying' = Flying
    BY <1>1 DEF Flying
  <2> SUFFICES ASSUME NEW f \in Flying
               PROVE  f.from = r /\ Truthful(f, happened'[r])
    BY <2>1
  <2>2. f.from = r /\ Truthful(f, h) /\ f.amt \in Nat /\ f.amt <= n
    BY <1>3 DEF OneReader
  <2> QED BY <2>2, <1>3, <1>5 DEF Truthful
<1>8. Alternates(r)'
  <2>1. ASSUME NEW i \in 1 .. n
        PROVE  happened'[r][i].kind # happened'[r][i + 1].kind
    <3>1. CASE i = n
      <4>1. h[n].kind = "ins" <=> slot[r] # NoCard
        BY <1>3, <3>1, <2>1 DEF OneReader, Alternates, Pending
      <4>2. happened'[r][i] = h[n] /\ happened'[r][i + 1].kind = k
        BY <1>5, <3>1
      <4> QED BY <4>1, <4>2
    <3>2. CASE i # n
      <4>1. i \in 1 .. (n - 1) /\ i + 1 \in 1 .. n
        BY <1>3, <3>2
      <4>2. h[i].kind # h[i + 1].kind
        BY <4>1 DEF OneReader, Alternates
      <4> QED BY <1>5, <4>1, <4>2
    <3> QED BY <3>1, <3>2
  <2>2. Pending(r)'.kind = "ins" <=> slot'[r] # NoCard
    BY <1>6
  <2>3. \A i \in 1 .. (count(r)' - 1) : i \in 1 .. n
    BY <1>3, <1>6
  <2> QED BY <2>1, <2>2, <2>3 DEF Alternates
<1>9. StoredOf(r)'
  BY <1>1, <1>3, <1>4, <1>6 DEF OneReader, StoredOf
<1>10. BuffOf(r)'
  <2>1. TempBuff = JunkBuff \/ BuffLast(r)
    BY <1>1 DEF OneReader, BuffOf, BuffBefore
  <2>2. ASSUME BuffLast(r)
        PROVE  BuffBefore(r)'
    <3>1. n > 0 /\ TempBuff = h[n]
      BY <2>2 DEF BuffLast, Pending
    <3>2. happened'[r][n] = h[n] /\ count(r)' - 1 = n /\ count(r)' > 1
      BY <1>3, <1>5, <1>6, <3>1
    <3> QED BY <1>1, <1>4, <3>1, <3>2 DEF BuffBefore
  <2> QED BY <1>1, <2>1, <2>2 DEF BuffOf
<1> QED BY <1>1, <1>7, <1>8, <1>9, <1>10 DEF OneReader, Rows, no

(* Can_ReadPBus_Succeed hits the event it was sent for, or none: TempBuff  *)
(* of the event before the last has the other kind.                        *)
LEMMA OneAck ==
  ASSUME IInv, AckKept, NEW r \in Readers, OneReader(r), Single(r), SendAck
  PROVE  /\ OneReader(r)'
         /\ \A s \in Readers : held[s] /\ ~held'[s] =>
              /\ s = r /\ row[r].amt = count(r) /\ row[r].card = Pending(r).card
              /\ Pending(r).kind \in row[r].bits
<1>1. /\ pc = "ack" /\ pc' = "forward" /\ no = r
      /\ UNCHANGED <<slot, happened, wire, fifo, Led_TaskCount, TempBuff, row>>
  BY DEF SendAck, busVars, OneReader
<1>2. held \in [Readers -> BOOLEAN] /\ Flying' = Flying /\ r \in Rows
  BY <1>1, RowsAre DEF IInv, TypeOK, Flying
<1>3. CASE held' = held
  BY <1>1, <1>2, <1>3, OneQuiet
<1>4. CASE held' # held
  <2>1. PICK k \in AckStates :
          held' = [held EXCEPT ![r] = held[r] /\ ~Acknowledges(r, TempBuff.card, k)]
    BY <1>1, <1>4 DEF SendAck
  <2>2. /\ held[r] /\ Acknowledges(r, TempBuff.card, k) /\ ~held'[r]
        /\ \A s \in Readers : s # r => held'[s] = held[s]
    <3>1. ASSUME ~held[r] \/ ~Acknowledges(r, TempBuff.card, k)
          PROVE  held' = held
      <4>1. (held[r] /\ ~Acknowledges(r, TempBuff.card, k)) = held[r]
        BY <3>1, <1>2
      <4> QED BY <1>2, <2>1, <4>1
    <3>2. held[r] /\ Acknowledges(r, TempBuff.card, k)
      BY <1>4, <3>1
    <3>3. held' = [held EXCEPT ![r] = FALSE]
      BY <2>1, <3>2
    <3> QED BY <1>2, <3>2, <3>3
  <2>3. Pending(r) = [kind |-> k, card |-> TempBuff.card] /\ count(r) > 0 /\ count(r) \in Nat
    BY <2>2, OneFacts DEF Acknowledges, IInv
  <2>4. \A i \in 1 .. count(r) : happened[r][i] \in [kind : Kinds, card : Cards]
    BY OneFacts
  <2>5. Pending(r) \in [kind : Kinds, card : Cards]
    BY <2>3, <2>4 DEF Pending
  <2>6. TempBuff # JunkBuff
    BY <2>3, <2>5, CardAssumption DEF JunkBuff
  <2>7. TempBuff.kind \in Kinds
    BY <2>3, <2>4, <2>5, <2>6 DEF OneReader, BuffOf, BuffLast, BuffBefore
  <2>8. row[r].bits = {TempBuff.kind} /\ row[r].card = TempBuff.card
    BY <1>1, <1>2, <2>7, RowsAre DEF AckKept, EventFlag, Forwarded, Single, IInv
  <2>9. k = TempBuff.kind
    BY <1>1, <2>7, <2>8 DEF AckStates, Kinds
  <2>10. ~BuffBefore(r)
    <3> SUFFICES ASSUME BuffBefore(r) PROVE FALSE
      OBVIOUS
    <3> DEFINE i == count(r) - 1
    <3>1. i \in 1 .. (count(r) - 1) /\ i + 1 = count(r) /\ TempBuff = happened[r][i]
      BY <2>3 DEF BuffBefore
    <3>2. happened[r][i].kind # happened[r][i + 1].kind
      BY <3>1 DEF OneReader, Alternates
    <3>3. happened[r][i + 1].kind = k
      BY <2>3, <3>1 DEF Pending
    <3> QED BY <2>9, <3>1, <3>2, <3>3
  <2>11. BuffLast(r)
    BY <2>6, <2>10 DEF OneReader, BuffOf
  <2>12. row[r].amt = count(r)
    BY <1>1, <2>11 DEF BuffLast
  <2>13. OneReader(r)'
    <3>1. count(r)' = count(r) /\ Pending(r)' = Pending(r)
      BY <1>1 DEF count, Pending
    <3>2. BuffLast(r)'
      BY <1>1, <1>2, <2>11, <3>1 DEF BuffLast
    <3>3. StoredOf(r)'
      BY <1>1, <2>3, <2>12, <3>1 DEF StoredOf
    <3>4. Alternates(r)'
      BY <1>1, <3>1 DEF OneReader, Alternates
    <3> QED BY <1>1, <1>2, <3>2, <3>3, <3>4 DEF OneReader, BuffOf, Rows
  <2>14. Pending(r).kind = TempBuff.kind /\ Pending(r).card = TempBuff.card
    BY <2>3, <2>9
  <2> QED BY <2>2, <2>8, <2>12, <2>13, <2>14
<1> QED BY <1>3, <1>4

(* A frame taken from the FIFO: no frame left is older.                    *)
LEMMA HeadOldest ==
  ASSUME IInv, NEW r \in Readers, OneReader(r), fifo # <<>>, fifo' = Tail(fifo), wire' = wire
  PROVE  /\ Head(fifo) \in Flying /\ Flying' \subseteq Flying
         /\ \A f \in Flying' : f.amt >= Head(fifo).amt
<1>1. fifo \in Seq(Frames) /\ wire \in Seq(Frames) /\ Sorted(fifo) /\ Before(fifo, wire)
  BY DEF IInv, Flow
<1>2. /\ \A i \in 1 .. Len(Tail(fifo)) : i + 1 \in 1 .. Len(fifo) /\ Tail(fifo)[i] = fifo[i + 1]
      /\ 1 \in 1 .. Len(fifo) /\ Head(fifo) = fifo[1]
  BY <1>1, TailFlies
<1>3. \A f \in Flying : f.from = r /\ f.amt \in Nat
  BY OneFacts
<1>4. Head(fifo) \in Flying /\ Flying' \subseteq Flying
  BY <1>2 DEF Flying
<1>5. \A i \in 1 .. Len(fifo) : fifo[i] \in Flying
  BY DEF Flying
<1>6. \A i \in 1 .. Len(wire) : wire[i] \in Flying
  BY DEF Flying
<1>7. \A i \in 1 .. Len(fifo) : fifo[1].amt <= fifo[i].amt
  BY <1>1, <1>2, <1>3, <1>5 DEF Sorted
<1>8. \A i \in 1 .. Len(wire) : fifo[1].amt <= wire[i].amt
  BY <1>1, <1>2, <1>3, <1>5, <1>6 DEF Before
<1>9. \A f \in Flying' : f.amt >= fifo[1].amt
  <2> SUFFICES ASSUME NEW f \in Flying' PROVE f.amt >= fifo[1].amt
    OBVIOUS
  <2>1. (\E i \in 1 .. Len(fifo') : f = fifo'[i]) \/ (\E i \in 1 .. Len(wire) : f = wire[i])
    BY DEF Flying
  <2>2. fifo[1].amt \in Nat /\ f.amt \in Nat
    BY <1>2, <1>3, <1>4, <1>5
  <2> QED BY <1>2, <1>7, <1>8, <2>1, <2>2
<1> QED BY <1>2, <1>4, <1>9

(* The receive loops for a reader that is alone.                           *)
LEMMA OneWait ==
  ASSUME IInv, NEW r \in Readers, OneReader(r), Wait1 \/ Wait2
  PROVE  OneReader(r)'
<1>1. TypeOK /\ r \in Rows /\ TempBuff \in [kind : Kinds \cup {"junk"}, card : Cards \cup {NoCard}]
  BY RowsAre DEF IInv, TypeOK
<1>2. /\ pc \in {"wait1", "wait2"} /\ no' = no
      /\ UNCHANGED <<slot, happened, held, wire>>
      /\ fifo' = fifo \/ (fifo # <<>> /\ fifo' = Tail(fifo))
      /\ Fruitless \/ Fruitful
      /\ \/ TempBuff' = TempBuff
         \/ /\ Fruitless
            /\ fifo # <<>> /\ Head(fifo).from = no /\ fifo' = Tail(fifo)
            /\ \/ Head(fifo).kind = "ins1"
                  /\ TempBuff' = [kind |-> "ins", card |-> Head(fifo).card]
               \/ Head(fifo).kind = "pull1"
                  /\ TempBuff' = [kind |-> "pull", card |-> Head(fifo).card]
  BY <1>1, WaitOutcome DEF readerVars
<1>3. no = r
  BY <1>2 DEF OneReader
<1>4. Flying' \subseteq Flying
  BY <1>2, HeadOldest DEF Flying
<1>5. /\ count(r)' = count(r) /\ Pending(r)' = Pending(r) /\ count(r) \in Nat
      /\ row[r].amt \in Nat /\ row[r].amt <= count(r) /\ count(r) - 1 <= row[r].amt
  BY <1>2, OneFacts DEF count, Pending
<1>6. Alternates(r)'
  BY <1>2, <1>5 DEF OneReader, Alternates
<1>7. \A f \in Flying' : f.from = r /\ Truthful(f, happened'[r])
  BY <1>2, <1>4 DEF OneReader
<1>8. CASE Fruitless /\ TempBuff' = TempBuff
  <2>1. /\ \A n \in Rows : row'[n].amt = row[n].amt
        /\ \A n \in Rows : row'[n].used => row[n].used \/ n = r
        /\ pc' # "ack"
    BY <1>8 DEF Fruitless
  <2> QED BY <1>2, <1>3, <1>4, <1>8, <2>1, OneQuiet
<1>9. CASE Fruitful
  <2> DEFINE f == Head(fifo)
  <2>1. /\ TempBuff' = TempBuff /\ fifo # <<>> /\ fifo' = Tail(fifo)
        /\ \A n \in Rows : row'[n].used = row[n].used
        /\ row'[r].amt = f.amt
    BY <1>3, <1>9 DEF Fruitful
  <2>2. f \in Flying
    BY <1>2, <2>1, HeadOldest
  <2>3. f.amt \in Nat /\ row[r].amt <= f.amt /\ f.amt <= count(r)
    BY <2>2, OneFacts
  <2> HIDE DEF f
  <2>4. StoredOf(r)'
    BY <1>2, <1>5, <2>1, <2>3 DEF OneReader, StoredOf
  <2>5. BuffLast(r) => BuffLast(r)'
    BY <1>4, <1>5, <2>1, <2>2, <2>3 DEF BuffLast
  <2>6. BuffBefore(r) => BuffBefore(r)'
    BY <1>2, <1>5, <2>1 DEF BuffBefore
  <2>7. BuffOf(r)'
    BY <2>1, <2>5, <2>6 DEF OneReader, BuffOf
  <2> QED BY <1>2, <1>3, <1>6, <1>7, <2>1, <2>4, <2>7 DEF OneReader, Rows
<1>10. CASE /\ Fruitless
            /\ fifo # <<>> /\ Head(fifo).from = no /\ fifo' = Tail(fifo)
            /\ \/ Head(fifo).kind = "ins1"
                  /\ TempBuff' = [kind |-> "ins", card |-> Head(fifo).card]
               \/ Head(fifo).kind = "pull1"
                  /\ TempBuff' = [kind |-> "pull", card |-> Head(fifo).card]
  <2> DEFINE f == Head(fifo)
  <2>1. f \in Flying /\ \A g \in Flying' : g.amt >= f.amt
    BY <1>2, <1>10, HeadOldest
  <2>2. f.amt \in Nat /\ row[r].amt <= f.amt /\ f.amt <= count(r)
    BY <2>1, OneFacts
  <2>3. f.amt > 0 /\ happened[r][f.amt] = TempBuff'
    <3>1. Truthful(f, happened[r])
      BY <2>1 DEF OneReader
    <3>2. f.kind = "ins1" => TempBuff' = [kind |-> "ins", card |-> f.card]
      BY <1>10
    <3>3. f.kind = "pull1" => TempBuff' = [kind |-> "pull", card |-> f.card]
      BY <1>10
    <3>4. f.kind \in {"ins1", "pull1"}
      BY <1>10
    <3> HIDE DEF f
    <3> QED BY <3>1, <3>2, <3>3, <3>4 DEF Truthful
  <2> HIDE DEF f
  <2>4. /\ \A n \in Rows : row'[n].amt = row[n].amt /\ row'[n].used = row[n].used
        /\ pc' # "ack"
    BY <1>10 DEF Fruitless
  <2>5. f.amt = count(r) => BuffLast(r)'
    BY <1>5, <2>1, <2>2, <2>3, <2>4 DEF BuffLast, Pending
  <2>6. f.amt # count(r) => BuffBefore(r)'
    <3> SUFFICES ASSUME f.amt # count(r) PROVE BuffBefore(r)'
      OBVIOUS
    <3>1. f.amt = count(r) - 1 /\ row[r].amt # count(r) /\ count(r) > 1
      BY <1>5, <2>2, <2>3
    <3>2. held[r]
      BY <3>1 DEF OneReader, StoredOf
    <3> QED BY <1>2, <1>5, <2>3, <3>1, <3>2 DEF BuffBefore
  <2>7. BuffOf(r)'
    BY <2>5, <2>6 DEF BuffOf
  <2>8. StoredOf(r)'
    BY <1>1, <1>2, <1>5, <2>4 DEF OneReader, StoredOf
  <2> QED BY <1>2, <1>3, <1>6, <1>7, <2>4, <2>7, <2>8 DEF OneReader, Rows
<1> QED BY <1>2, <1>8, <1>9, <1>10

(* ReadRunningData confirms with what it stored.                           *)
LEMMA AckKeptStep ==
  ASSUME IInv, BitsWhen, AckKept, [Next]_vars
  PROVE  AckKept'
<1>1. CASE UNCHANGED <<row, TempBuff, pc, Led_TaskCount>>
  BY <1>1 DEF AckKept, EventFlag, Forwarded, no, Rows
<1>2. CASE pc' # "ack"
  BY <1>2 DEF AckKept
<1>3. CASE Wait1 \/ Wait2
  <2>1. /\ pc \in {"wait1", "wait2"} /\ no' = no /\ Led_TaskCount' = Led_TaskCount
        /\ Fruitless \/ Fruitful
    BY <1>3, WaitOutcome DEF IInv
  <2>2. CASE Fruitless
    BY <1>2, <2>2 DEF Fruitless
  <2>3. CASE Fruitful
    <3>1. /\ row'[no].bits = row[no].bits \cup EventFlag /\ TempBuff' = TempBuff
          /\ row'[no].card = TempBuff.card
      BY <2>3 DEF Fruitful
    <3>2. Forwarded(no) => row[no].bits = {}
      BY <2>1, RowsAre DEF BitsWhen, Fetched, Forwarded, no, IInv
    <3>3. EventFlag' = EventFlag /\ (Forwarded(no)' <=> Forwarded(no))
      BY <2>1, <3>1 DEF EventFlag, Forwarded, Rows
    <3> QED BY <2>1, <3>1, <3>2, <3>3 DEF AckKept
  <2> QED BY <2>1, <2>2, <2>3
<1> QED
  BY <1>1, <1>2, <1>3 DEF Next, LedTask, vars, InsertCard, PullCard, Happens, Arrive, LoseFrame,
     pollVars, StartPoll, SendPoll, SendAck, Forward, NoAnswer, Drain, NextTurn, Answer

(* Every step, with one reader registered.                                 *)
LEMMA OneStep ==
  ASSUME IInv, BusKept, AckKept, NEW r \in Readers, Single(r), OneReader(r), [Next]_vars
  PROVE  /\ OneReader(r)'
         /\ \A s \in Readers : held[s] /\ ~held'[s] =>
              /\ row[s].amt = count(s) /\ row[s].card = Pending(s).card
              /\ Pending(s).kind \in row[s].bits
<1>0. /\ TypeOK /\ bus.readers = {r} /\ bus.answers \subseteq Answers
      /\ row \in [Rows -> RowType] /\ r \in Rows /\ count(r) \in Nat
      /\ held \in [Readers -> BOOLEAN]
  BY BusParts, RowsAre, OneFacts DEF IInv, Single, TypeOK
<1>1. ASSUME UNCHANGED <<slot, happened, held>>, TempBuff' \in {TempBuff, JunkBuff},
             \A n \in Rows : row'[n].amt = row[n].amt,
             \A n \in Rows : row'[n].used => row[n].used \/ n = r,
             pc' \in {"send", "wait1", "wait2", "ack"} => no' = r,
             pc' = "ack" => pc = "ack",
             \A f \in Flying' :
               f \in Flying \/ (f.from = r /\ f.amt = count(r) /\ Truthful(f, happened[r]))
      PROVE  OneReader(r)' /\ held' = held
  BY <1>1, OneQuiet
<1>2. Flying' \subseteq Flying \/ SendPoll
  BY FlyingStep
<1>3. pc \in {"send", "wait1", "wait2", "ack"} => no = r
  BY DEF OneReader
<1>4. CASE \E q \in bus.readers, cd \in Cards : InsertCard(q, cd)
  <2>1. PICK cd \in Cards : InsertCard(r, cd)
    BY <1>0, <1>4
  <2>2. slot \in [Readers -> Cards \cup {NoCard}]
    BY <1>0 DEF TypeOK
  <2>3. Happens(r, "ins", cd) /\ slot'[r] # NoCard /\ slot[r] = NoCard
    BY <2>1, <2>2, CardAssumption DEF InsertCard
  <2>4. "ins" \in Kinds /\ held' = [held EXCEPT ![r] = TRUE]
    BY <2>3 DEF Happens, Kinds
  <2>5. OneReader(r)'
    BY <2>3, <2>4, OneEvent
  <2> QED BY <1>0, <2>4, <2>5
<1>5. CASE \E q \in bus.readers : PullCard(q)
  <2>1. PullCard(r)
    BY <1>0, <1>5
  <2>2. slot \in [Readers -> Cards \cup {NoCard}]
    BY <1>0 DEF TypeOK
  <2>3. Happens(r, "pull", slot[r]) /\ slot'[r] = NoCard /\ slot[r] # NoCard /\ slot[r] \in Cards
    BY <2>1, <2>2 DEF PullCard
  <2>4. "pull" \in Kinds /\ "pull" # "ins" /\ held' = [held EXCEPT ![r] = TRUE]
    BY <2>3 DEF Happens, Kinds
  <2>5. OneReader(r)'
    BY <2>3, <2>4, OneEvent
  <2> QED BY <1>0, <2>4, <2>5
<1>6. CASE Arrive \/ LoseFrame \/ UNCHANGED vars
  <2>1. UNCHANGED <<slot, happened, held, TempBuff, row, pc, Led_TaskCount>> /\ ~SendPoll
    BY <1>6 DEF Arrive, LoseFrame, readerVars, pollVars, vars, SendPoll
  <2> QED BY <1>1, <1>2, <1>3, <2>1 DEF no
<1>7. CASE StartPoll
  <2>1. /\ UNCHANGED <<slot, happened, held, fifo, wire, row, Led_TaskCount>>
        /\ TempBuff' \in {TempBuff, JunkBuff}
        /\ pc' = IF Led_TaskCount < BUSNUM_SIZE /\ row[no].used THEN "send" ELSE "forward"
    BY <1>7 DEF StartPoll, readerVars, busVars
  <2>2. pc' = "send" => no = r
    <3>1. Led_TaskCount < BUSNUM_SIZE => no \in Rows
      BY <1>0, RowsAre DEF no, Rows
    <3> QED BY <2>1, <3>1 DEF OneReader
  <2>3. Flying' = Flying /\ no' = no /\ pc' \in {"send", "forward"}
    BY <2>1 DEF Flying, no
  <2> QED BY <1>1, <2>1, <2>2, <2>3
<1>8. CASE SendPoll
  <2>1. /\ UNCHANGED <<slot, happened, held, row, Led_TaskCount, TempBuff>>
        /\ pc = "send" /\ pc' = "wait1"
    BY <1>8 DEF SendPoll, readerVars
  <2>2. no = r /\ no' = r
    BY <1>3, <2>1 DEF no
  <2>3. \A f \in Flying' :
          f \in Flying \/ (f.from = r /\ f.amt = count(r) /\ Truthful(f, happened[r]))
    BY <2>2, FlyingStep, ReplyIs
  <2> QED BY <1>1, <2>1, <2>2, <2>3
<1>9. CASE Wait1 \/ Wait2
  <2>1. OneReader(r)'
    BY <1>9, OneWait
  <2>2. held' = held
    BY <1>9 DEF Wait1, Wait2, readerVars
  <2> QED BY <2>1, <2>2
<1>10. CASE SendAck
  BY <1>10, OneAck
<1>11. CASE Forward
  <2>1. /\ UNCHANGED <<slot, happened, held, TempBuff>> /\ pc' = "serve" /\ ~SendPoll
        /\ \A m \in Rows : row'[m].amt = row[m].amt /\ row'[m].used = row[m].used
    <3>1. /\ \A m \in Rows : m # Led_TaskCount => row'[m] = row[m]
          /\ Led_TaskCount \in Rows => row'[Led_TaskCount].amt = row[Led_TaskCount].amt
                                       /\ row'[Led_TaskCount].used = row[Led_TaskCount].used
      <4> DEFINE n == Led_TaskCount
      <4>1. CASE ~Waits(n)
        BY <1>11, <4>1 DEF Forward
      <4>2. CASE Waits(n)
        <5>1. row' = [row EXCEPT ![n] = ClearedFlags(row[n])]
          BY <1>11, <4>2 DEF Forward
        <5>2. n \in Rows => /\ ClearedFlags(row[n]).amt = row[n].amt
                            /\ ClearedFlags(row[n]).used = row[n].used
          BY <1>0 DEF ClearedFlags, RowType
        <5> QED BY <1>0, <5>1, <5>2
      <4> QED BY <4>1, <4>2
    <3>2. UNCHANGED <<slot, happened, held, TempBuff>> /\ pc' = "serve" /\ ~SendPoll
      BY <1>11 DEF Forward, SendPoll, readerVars
    <3> QED BY <3>1, <3>2
  <2> QED BY <1>1, <1>2, <2>1
<1>12. CASE NoAnswer \/ Drain
  <2>1. UNCHANGED <<slot, happened, held, TempBuff, row>> /\ pc' = "idle" /\ ~SendPoll
    BY <1>12 DEF NoAnswer, Drain, NextTurn, readerVars, SendPoll
  <2> QED BY <1>1, <1>2, <2>1
<1>13. CASE \E a \in bus.answers, q \in bus.readers : Answer(a, q)
  <2>1. PICK a \in {"AA", "BB", "55", "CC"} : Answer(a, r)
    BY <1>0, <1>13, ReaderAssumption
  <2>2. UNCHANGED <<slot, happened, held, TempBuff>> /\ pc' = "drain" /\ ~SendPoll
    BY <2>1 DEF Answer, SendPoll, readerVars
  <2>3. \A n \in Rows : row'[n].amt = row[n].amt /\ (n # r => row'[n] = row[n])
    BY <1>0, <2>1, AnswerKeeps
  <2> QED BY <1>1, <1>2, <2>2, <2>3
<1> QED
  BY <1>0, <1>4, <1>5, <1>6, <1>7, <1>8, <1>9, <1>10, <1>11, <1>12, <1>13 DEF Next, LedTask

LEMMA AloneInit == Init => AloneInv
<1> SUFFICES ASSUME Init, NEW r \in Readers, Single(r)
             PROVE  AckKept /\ OneReader(r)
  BY DEF AloneInv, Init, AckKept
<1>1. AckKept /\ Len(<<>>) = 0 /\ Flying = {} /\ r \in Rows
  BY ReaderAssumption, EmptySeq DEF Init, AckKept, Flying, Rows
<1>2. count(r) = 0 /\ row[r].amt = 0 /\ \A n \in Rows : row[n].used => n = r
  BY <1>1 DEF Init, count, Single
<1> QED BY <1>1, <1>2 DEF Init, OneReader, Alternates, StoredOf, BuffOf

LEMMA AloneStep ==
  ASSUME IInv, BusKept, BitsWhen, AloneInv, [Next]_vars
  PROVE  AloneInv' /\ (Alone => AckStored)
<1>1. bus' = bus
  BY DEF Next, vars
<1>2. AckKept'
  BY AckKeptStep DEF AloneInv
<1>3. ASSUME NEW r \in Readers, Single(r)
      PROVE  /\ OneReader(r)'
             /\ \A s \in Readers : held[s] /\ ~held'[s] =>
                  /\ row[s].amt = count(s) /\ row[s].card = Pending(s).card
                  /\ Pending(s).kind \in row[s].bits
  BY <1>3, OneStep DEF AloneInv
<1>4. \A r \in Readers : Single(r)' => Single(r)
  BY <1>1 DEF Single
<1>5. AloneInv'
  BY <1>2, <1>3, <1>4 DEF AloneInv
<1>6. Alone => AckStored
  BY <1>3 DEF Alone, AckStored, Single
<1> QED BY <1>5, <1>6

(* A reader that is registered alone is acknowledged only what is stored   *)
(* for it: its last event, with its card, kind and money, for any number   *)
(* of events and cards, and whatever is lost, late or left in the FIFO.    *)
THEOREM PollAckedIsStored == Spec => AckedIsStored
<1>1. Init => BitsWhen /\ AloneInv
  BY BitsWhenInit, AloneInit
<1>2. IInv /\ BusKept /\ BitsWhen /\ AloneInv /\ [Next]_vars => BitsWhen' /\ AloneInv'
  BY BitsWhenKept, AloneStep
<1>3. IInv /\ BusKept /\ BitsWhen /\ AloneInv /\ [Next]_vars => [Alone => AckStored]_vars
  BY AloneStep
<1>4. Spec => [][Alone => AckStored]_vars
  BY <1>1, <1>2, <1>3, PollInvariant, PTL DEF Spec
<1> QED BY <1>4 DEF AckedIsStored
-----------------------------------------------------------------------------
(* Several readers on a good bus                                           *)

(* The frames between the readers and led_task, the oldest first.          *)
Rest == fifo \o wire

(* Reader s was polled in this round; t is polled sooner than s, counted   *)
(* from the poll under way; q is the reader polled last before that.       *)
Polling   == pc \in {"send", "wait1", "wait2", "ack"}
AfterPoll == pc \in {"forward", "serve", "drain"}
Gone(s)      == s <= Led_TaskCount \/ (s = no /\ AfterPoll)
Sooner(t, s) == IF Gone(t) THEN Gone(s) /\ t < s ELSE Gone(s) \/ t < s
LastPolled(q) == \A t \in bus.readers : t # q => Sooner(t, q)

(* q is polled right before r, round after round.                          *)
NextTo(q, r) ==
  /\ q # r
  /\ \A t \in bus.readers : t # q /\ t # r =>
       IF q < r THEN ~(q < t /\ t < r) ELSE ~(q < t \/ t < r)

(* The next poll of s brings no event or an inserted card, whose frames    *)
(* are both taken by that poll: it leaves nothing in the FIFO.             *)
Meek(s) == IF held[s] THEN Pending(s).kind = "ins" ELSE slot[s] = NoCard

(* The frames of a reader that holds an event.                             *)
F1(r) == Frame(r, First(Pending(r).kind), Pending(r).card, count(r))
F2(r) == Frame(r, Second(Pending(r).kind), NoCard, count(r))

OfPending(e, r) ==
  /\ e.no = r /\ e.amt = count(r)
  /\ e.bits = {Pending(r).kind} /\ e.card = Pending(r).card

(* The event r holds was stored with the data of another one: its first    *)
(* frame was overwritten in a full FIFO.                                   *)
Wrong(r) ==
  /\ held[r] /\ row[r].amt = count(r)
  /\ ~(pc = "ack" /\ no = r /\ TempBuff = Pending(r))

(* Which rows are used, that no reader is lost, what a reader holds.       *)
Settled ==
  /\ \A n \in Rows : (row[n].used <=> n \in bus.readers)
  /\ \A n \in Rows : ~row[n].lost
  /\ \A r \in Readers : count(r) > 0 => (Pending(r).kind = "ins" <=> slot[r] # NoCard)

(* What waits in the rows, and what a reader holds, was not reported yet,  *)
(* or wrongly and is now right.                                            *)
Unsaid(r) ==
  /\ \A e \in reported : ~OfPending(e, r)
  /\ ~(pc = "ack" /\ no = r) => ~OfPending(Entry(r), r)

Fresh ==
  /\ ~again
  /\ \A n \in Rows : row[n].bits # {} => ~Repeats(Entry(n))
  /\ \A e \in reported : e.no \in Readers => e.amt <= row[e.no].amt
  /\ \A r \in bus.readers : held[r] => Unsaid(r)

(* The oldest k frames are left over from the reader polled last.          *)
Leftovers(k) ==
  \A i \in 1 .. k : \E q \in bus.readers :
    q = Rest[i].from /\ LastPolled(q) /\ Meek(q)

OnlyLeftovers == Len(Rest) <= 2 /\ Leftovers(Len(Rest))

(* What is behind them when r is polled: nothing to report, an event, or   *)
(* one without its first frame.                                            *)
Nothing(r, k) ==
  /\ Len(Rest) = k + 1 /\ Rest[k + 1].from = r /\ Rest[k + 1].kind = "none"
  /\ ~Wrong(r)
Whole(r, k) ==
  /\ held[r] /\ Len(Rest) = k + 2 /\ Rest[k + 1] = F1(r) /\ Rest[k + 2] = F2(r)
Cut(r, k) ==
  /\ held[r] /\ Len(Rest) = k + 1 /\ Rest[k + 1] = F2(r)
  /\ row[r].amt < count(r)
  /\ \A q \in bus.readers : NextTo(q, r) => Meek(q)

Waiting(r, k) ==
  k < over /\ Leftovers(k) /\ (Nothing(r, k) \/ Whole(r, k) \/ Cut(r, k))

(* The first frame of the pending event is in TempBuff.                    *)
Begun(r, k) == held[r] /\ Pending(r).kind = k /\ TempBuff = Pending(r)

(* The poll of r.                                                          *)
Poll(r) ==
  CASE pc = "send" /\ attempt = 1  -> OnlyLeftovers
    [] pc = "send" /\ attempt # 1  -> Begun(r, "pull") /\ Rest = <<F2(r)>>
    [] pc = "wait1" /\ attempt = 1 -> \E k \in 0 .. 2 : Waiting(r, k)
    [] pc = "wait1" /\ attempt # 1 -> Begun(r, "pull") /\ Rest = <<F2(r), F1(r), F2(r)>>
    [] pc = "wait2"                -> Begun(r, "ins") /\ Rest = <<F2(r)>>
    [] pc = "ack"                  -> /\ held[r] /\ row[r].amt = count(r)
                                      /\ \/ Rest = <<>>
                                         \/ Begun(r, "pull") /\ Rest = <<F1(r), F2(r)>>

Channel ==
  IF Polling THEN \E r \in bus.readers : r = no /\ Poll(r) ELSE OnlyLeftovers

(* A reader whose event was stored with other data is not robbed again:    *)
(* the one polled before it will leave, or has left, nothing.              *)
Spared(q, r) ==
  IF Sooner(q, r) \/ (pc = "ack" /\ no = r) THEN Meek(q)
  ELSE \A i \in 1 .. Len(Rest) : Rest[i].from = r

RobbedOnce == \A q, r \in bus.readers : Wrong(r) /\ NextTo(q, r) => Spared(q, r)

TwiceInv == Settled /\ Fresh /\ Channel /\ RobbedOnce

(* What the proof starts from in every step.                               *)
Ready ==
  /\ IInv /\ BusKept /\ BitsWhen /\ AckKept /\ GoodBus /\ Company
  /\ TwiceInv /\ OVERFLOW > 2 /\ FIFO_DEPTH > 2

(* The readers of the bus: two at least, none in the last row.             *)
LEMMA CompanyIs ==
  ASSUME BusKept, Company, TypeOK
  PROVE  /\ bus.readers \subseteq Readers
         /\ \A r \in bus.readers : /\ r \in Nat /\ r > 0 /\ r < BUSNUM_SIZE
                                   /\ r \in Rows /\ Forwarded(r)
                                   /\ \E s \in bus.readers : s # r
         /\ Led_TaskCount \in Nat /\ no = Led_TaskCount + 1 /\ BUSNUM_SIZE \in Nat
<1>1. /\ bus.readers \subseteq Readers /\ BUSNUM_SIZE \in Nat
      /\ Led_TaskCount \in Nat /\ no = Led_TaskCount + 1
      /\ \A r \in Readers : r \in Rows /\ r > 0 /\ r \in Nat
  BY BusParts, RowsAre DEF no
<1>2. ASSUME NEW r \in bus.readers
      PROVE  \E s \in bus.readers : s # r
  <2>1. CASE bus.readers = {r}
    BY <2>1, FS_Singleton DEF Company
  <2> QED BY <1>2, <2>1
<1> QED BY <1>1, <1>2 DEF Company, Forwarded

(* The order of the polls while no is polled.                              *)
LEMMA PollOrder ==
  ASSUME BusKept, Company, TypeOK, no \in bus.readers, Polling
  PROVE  /\ \A q \in bus.readers : LastPolled(q) <=> NextTo(q, no)
         /\ \A q, r \in bus.readers : NextTo(q, r) => (Sooner(q, r) <=> r # no)
<1>1. /\ no \in bus.readers /\ Led_TaskCount \in Nat /\ no = Led_TaskCount + 1
      /\ \A r \in bus.readers : r \in Nat /\ \E s \in bus.readers : s # r
  BY CompanyIs
<1>2. \A s \in bus.readers : Gone(s) <=> s < no
  BY <1>1 DEF Gone, AfterPoll, Polling
<1>3. \A s, t \in bus.readers :
        Sooner(t, s) <=> IF t < no THEN s < no /\ t < s ELSE s < no \/ t < s
  BY <1>2 DEF Sooner
<1> HIDE DEF no
<1>4. ASSUME NEW q \in bus.readers
      PROVE  LastPolled(q) <=> NextTo(q, no)
  <2>1. CASE q = no
    BY <1>1, <1>3, <2>1 DEF LastPolled, NextTo
  <2>2. CASE q # no
    <3>1. ASSUME NEW t \in bus.readers, t # q, t # no
          PROVE  Sooner(t, q) <=> IF q < no THEN ~(q < t /\ t < no) ELSE ~(q < t \/ t < no)
      <4>1. Sooner(t, q) <=> IF t < no THEN q < no /\ t < q ELSE q < no \/ t < q
        BY <1>3, <3>1
      <4>2. q \in Nat /\ t \in Nat /\ no \in Nat /\ q # no
        BY <1>1, <2>2, <3>1
      <4> QED BY <3>1, <4>1, <4>2
    <3>2. Sooner(no, q)
      BY <1>1, <1>3, <2>2
    <3> QED BY <2>2, <3>1, <3>2 DEF LastPolled, NextTo
  <2> QED BY <2>1, <2>2
<1>5. ASSUME NEW q \in bus.readers, NEW r \in bus.readers, NextTo(q, r)
      PROVE  Sooner(q, r) <=> r # no
  BY <1>1, <1>3, <1>5 DEF NextTo
<1> QED BY <1>1, <1>4, <1>5

(* The order after a poll, and in the next turn.                           *)
LEMMA PolledOrder ==
  ASSUME BusKept, Company, TypeOK, no \in bus.readers, Polling, bus' = bus,
         Led_TaskCount' = Led_TaskCount, AfterPoll'
  PROVE  /\ \A s, t \in bus.readers : s # no /\ t # no => (Sooner(t, s)' <=> Sooner(t, s))
         /\ \A s \in bus.readers : s # no => Sooner(s, no)' /\ ~Sooner(no, s)'
         /\ LastPolled(no)'
<1>1. /\ no \in bus.readers /\ Led_TaskCount \in Nat /\ no = Led_TaskCount + 1 /\ no' = no
      /\ \A r \in bus.readers : r \in Nat
  BY CompanyIs DEF no
<1>2. \A s \in bus.readers : (Gone(s) <=> s < no) /\ (Gone(s)' <=> s <= no)
  BY <1>1 DEF Gone, AfterPoll, Polling
<1>3. /\ \A s, t \in bus.readers : s # no /\ t # no => (Sooner(t, s)' <=> Sooner(t, s))
      /\ \A s \in bus.readers : s # no => Sooner(s, no)' /\ ~Sooner(no, s)'
  BY <1>1, <1>2 DEF Sooner
<1> QED BY <1>1, <1>3 DEF LastPolled

LEMMA SameOrder ==
  ASSUME BusKept, Company, TypeOK, bus' = bus,
         \/ Led_TaskCount' = Led_TaskCount /\ (AfterPoll' <=> AfterPoll)
         \/ /\ Led_TaskCount' = Led_TaskCount /\ ~AfterPoll /\ no \notin bus.readers
         \/ /\ AfterPoll /\ ~AfterPoll' /\ NextTurn
  PROVE  \A s, t \in bus.readers : Sooner(t, s)' <=> Sooner(t, s)
<1>1. /\ Led_TaskCount \in Nat /\ no = Led_TaskCount + 1 /\ BUSNUM_SIZE \in Nat
      /\ \A r \in bus.readers : r \in Nat /\ r > 0 /\ r < BUSNUM_SIZE
      /\ no' = Led_TaskCount' + 1
  BY CompanyIs DEF no
<1>2. CASE Led_TaskCount' = Led_TaskCount /\ (AfterPoll' <=> AfterPoll)
  BY <1>2 DEF Sooner, Gone, no
<1>3. CASE Led_TaskCount' = Led_TaskCount /\ ~AfterPoll /\ no \notin bus.readers
  <2>1. \A s \in bus.readers : Gone(s)' <=> Gone(s)
    BY <1>1, <1>3 DEF Gone, no
  <2> QED BY <2>1 DEF Sooner
<1>4. CASE AfterPoll /\ ~AfterPoll' /\ NextTurn
  <2>1. CASE Led_TaskCount > BUSNUM_SIZE + 1
    <3>1. \A s \in bus.readers : Gone(s) /\ ~Gone(s)'
      BY <1>1, <1>4, <2>1 DEF Gone, NextTurn
    <3> QED BY <3>1 DEF Sooner
  <2>2. CASE ~(Led_TaskCount > BUSNUM_SIZE + 1)
    <3>1. \A s \in bus.readers : Gone(s)' <=> Gone(s)
      BY <1>1, <1>4, <2>2 DEF Gone, NextTurn
    <3> QED BY <3>1 DEF Sooner
  <2> QED BY <2>1, <2>2
<1> QED BY <1>2, <1>3, <1>4

-----------------------------------------------------------------------------
(* Steps of the frames                                                     *)

(* p is q without its first element.                                       *)
Popped(p, q) ==
  /\ Len(q) > 0 /\ Len(p) = Len(q) - 1
  /\ \A i \in 1 .. Len(p) : p[i] = q[i + 1]

LEMMA RestIs ==
  ASSUME TypeOK
  PROVE  /\ fifo \in Seq(Frames) /\ wire \in Seq(Frames) /\ Rest \in Seq(Frames)
         /\ Len(fifo) \in Nat /\ Len(wire) \in Nat /\ Len(Rest) = Len(fifo) + Len(wire)
         /\ \A i \in 1 .. Len(fifo) : Rest[i] = fifo[i]
         /\ \A i \in 1 .. Len(wire) : Rest[Len(fifo) + i] = wire[i]
<1>1. fifo \in Seq(Frames) /\ wire \in Seq(Frames) /\ Len(fifo) \in Nat /\ Len(wire) \in Nat
  BY LenProperties DEF TypeOK
<1>2. /\ Rest \in Seq(Frames) /\ Len(Rest) = Len(fifo) + Len(wire)
      /\ \A i \in 1 .. Len(Rest) :
           Rest[i] = IF i <= Len(fifo) THEN fifo[i] ELSE wire[i - Len(fifo)]
  BY <1>1, ConcatProperties DEF Rest
<1> HIDE DEF Rest
<1>3. \A i \in 1 .. Len(wire) : /\ Len(fifo) + i \in 1 .. Len(Rest)
                               /\ ~(Len(fifo) + i <= Len(fifo))
                               /\ (Len(fifo) + i) - Len(fifo) = i
  BY <1>1, <1>2
<1>4. \A i \in 1 .. Len(fifo) : i \in 1 .. Len(Rest) /\ i <= Len(fifo)
  BY <1>1, <1>2
<1> QED BY <1>1, <1>2, <1>3, <1>4

(* Taking the oldest frame of the FIFO.                                    *)
LEMMA RestPop ==
  ASSUME TypeOK, fifo # <<>>, fifo' = Tail(fifo), wire' = wire
  PROVE  /\ Rest' \in Seq(Frames) /\ Popped(Rest', Rest) /\ Head(fifo) = Rest[1]
<1>1. /\ fifo \in Seq(Frames) /\ wire \in Seq(Frames)
      /\ Len(fifo) \in Nat /\ Len(wire) \in Nat /\ Len(Rest) = Len(fifo) + Len(wire)
      /\ \A i \in 1 .. Len(fifo) : Rest[i] = fifo[i]
      /\ \A i \in 1 .. Len(wire) : Rest[Len(fifo) + i] = wire[i]
  BY RestIs
<1>2. /\ Tail(fifo) \in Seq(Frames) /\ Len(fifo) > 0 /\ Len(Tail(fifo)) = Len(fifo) - 1
      /\ Head(fifo) = fifo[1]
      /\ \A i \in 1 .. Len(Tail(fifo)) : Tail(fifo)[i] = fifo[i + 1]
  BY <1>1, EmptySeq, HeadTailProperties
<1> DEFINE g == Tail(fifo)
<1> HIDE DEF g
<1>3. /\ g \o wire \in Seq(Frames) /\ Len(g \o wire) = Len(g) + Len(wire)
      /\ \A i \in 1 .. Len(g \o wire) :
           (g \o wire)[i] = IF i <= Len(g) THEN g[i] ELSE wire[i - Len(g)]
  BY <1>1, <1>2, ConcatProperties DEF g
<1>4. Rest' = g \o wire
  BY DEF Rest, g
<1> DEFINE p == g \o wire
           q == Rest
<1> HIDE DEF p, q
<1>5. /\ Len(p) = Len(q) - 1 /\ Len(q) > 0
      /\ \A i \in 1 .. Len(p) : p[i] = q[i + 1]
  <2>1. Len(p) = Len(q) - 1 /\ Len(q) > 0 /\ Len(g) = Len(fifo) - 1 /\ Len(p) = Len(g) + Len(wire)
    BY <1>1, <1>2, <1>3 DEF p, q, g
  <2>2. ASSUME NEW i \in 1 .. Len(p)
        PROVE  p[i] = q[i + 1]
    <3>1. CASE i <= Len(g)
      BY <1>1, <1>2, <1>3, <2>1, <3>1 DEF p, q, g
    <3>2. CASE ~(i <= Len(g))
      <4>1. p[i] = wire[i - Len(g)] /\ i - Len(g) \in 1 .. Len(wire)
        BY <1>1, <1>3, <2>1, <3>2 DEF p
      <4>2. q[i + 1] = wire[i - Len(g)]
        <5>1. i + 1 = Len(fifo) + (i - Len(g))
          BY <1>1, <2>1
        <5> QED BY <1>1, <4>1, <5>1 DEF q
      <4> QED BY <4>1, <4>2
    <3> QED BY <3>1, <3>2
  <2> QED BY <2>1, <2>2
<1>6. Head(fifo) = Rest[1]
  BY <1>1, <1>2
<1> QED BY <1>3, <1>4, <1>5, <1>6 DEF p, q, Popped

(* A frame arrives: the order is the same, or the FIFO was full and its    *)
(* newest frame is gone.                                                   *)
LEMMA RestArrive ==
  ASSUME TypeOK, Arrive
  PROVE  /\ Len(fifo) < FIFO_DEPTH => Rest' = Rest
         /\ Len(fifo) = FIFO_DEPTH =>
              /\ Len(Rest) > FIFO_DEPTH
              /\ Len(Rest) = FIFO_DEPTH + 1 =>
                   /\ Len(Rest') = FIFO_DEPTH
                   /\ \A i \in 1 .. FIFO_DEPTH - 1 : Rest'[i] = Rest[i]
                   /\ Rest'[FIFO_DEPTH] = Rest[FIFO_DEPTH + 1]
         /\ Len(fifo) <= FIFO_DEPTH /\ Len(fifo) \in Nat /\ FIFO_DEPTH \in Nat
<1>1. /\ fifo \in Seq(Frames) /\ wire \in Seq(Frames) /\ Rest \in Seq(Frames)
      /\ Len(fifo) \in Nat /\ Len(wire) \in Nat /\ Len(Rest) = Len(fifo) + Len(wire)
      /\ \A i \in 1 .. Len(fifo) : Rest[i] = fifo[i]
      /\ \A i \in 1 .. Len(wire) : Rest[Len(fifo) + i] = wire[i]
      /\ FIFO_DEPTH \in Nat /\ FIFO_DEPTH > 0 /\ Len(fifo) <= FIFO_DEPTH
  <2>1. FIFO_DEPTH \in Nat /\ FIFO_DEPTH > 0
    BY ReaderAssumption
  <2>2. Len(fifo) <= FIFO_DEPTH
    BY DEF TypeOK
  <2> QED BY <2>1, <2>2, RestIs
<1> DEFINE h == Head(wire)
           w == Tail(wire)
<1>2. /\ wire # <<>> /\ fifo' = Received(fifo, h) /\ wire' = w
  BY DEF Arrive
<1>3. /\ Len(wire) > 0 /\ h = wire[1] /\ h \in Frames /\ w \in Seq(Frames)
      /\ Len(w) = Len(wire) - 1 /\ \A i \in 1 .. Len(w) : w[i] = wire[i + 1]
  BY <1>1, <1>2, EmptySeq, HeadTailProperties
<1> HIDE DEF h, w
<1>4. CASE Len(fifo) < FIFO_DEPTH
  <2> DEFINE g == Append(fifo, h)
  <2>1. /\ g \in Seq(Frames) /\ Len(g) = Len(fifo) + 1 /\ g[Len(fifo) + 1] = h
        /\ \A i \in 1 .. Len(fifo) : g[i] = fifo[i]
    BY <1>1, <1>3, AppendProperties
  <2>2. Rest' = g \o w
    BY <1>2, <1>4 DEF Rest, Received
  <2> HIDE DEF g
  <2>a. g \in Seq(Frames) /\ w \in Seq(Frames)
    BY <1>3, <2>1
  <2>b. /\ g \o w \in Seq(Frames) /\ Len(g \o w) = Len(g) + Len(w)
        /\ \A i \in 1 .. Len(g) + Len(w) :
             (g \o w)[i] = IF i <= Len(g) THEN g[i] ELSE w[i - Len(g)]
    BY <2>a, ConcatProperties
  <2>3. /\ g \o w \in Seq(Frames) /\ Len(g \o w) = Len(g) + Len(w)
        /\ \A i \in 1 .. Len(g \o w) : (g \o w)[i] = IF i <= Len(g) THEN g[i] ELSE w[i - Len(g)]
    BY <2>b
  <2> DEFINE p == g \o w
  <2> HIDE DEF p
  <2>4. Len(p) = Len(Rest)
    BY <1>1, <1>3, <2>1, <2>3 DEF p
  <2>5. ASSUME NEW i \in 1 .. Len(p)
        PROVE  p[i] = Rest[i]
    <3>1. CASE i <= Len(fifo)
      BY <1>1, <2>1, <2>3, <3>1 DEF p
    <3>2. CASE i = Len(fifo) + 1
      <4>1. p[i] = h
        BY <1>1, <2>1, <2>3, <3>2 DEF p
      <4>2. Rest[Len(fifo) + 1] = wire[1]
        BY <1>1, <1>3
      <4> QED BY <1>3, <3>2, <4>1, <4>2
    <3>3. CASE i > Len(fifo) + 1
      <4>1. p[i] = w[i - Len(g)] /\ i - Len(g) \in 1 .. Len(w) /\ Len(g) = Len(fifo) + 1
        BY <1>1, <1>3, <2>1, <2>3, <3>3 DEF p
      <4>2. p[i] = wire[i - Len(fifo)] /\ i - Len(fifo) \in 1 .. Len(wire)
        <5>1. /\ (i - Len(g)) + 1 = i - Len(fifo)
              /\ i - Len(fifo) \in 1 .. Len(wire)
          BY <1>1, <1>3, <4>1
        <5>2. w[i - Len(g)] = wire[(i - Len(g)) + 1]
          BY <1>3, <4>1
        <5> QED BY <4>1, <5>1, <5>2
      <4>3. Rest[Len(fifo) + (i - Len(fifo))] = wire[i - Len(fifo)]
        BY <1>1, <4>2
      <4>4. Len(fifo) + (i - Len(fifo)) = i
        BY <1>1
      <4> QED BY <4>2, <4>3, <4>4
    <3> QED BY <1>1, <3>1, <3>2, <3>3
  <2>6. p = Rest
    BY <1>1, <2>3, <2>4, <2>5, SeqEqual DEF p
  <2> QED BY <1>1, <1>4, <2>2, <2>6 DEF p
<1>5. CASE Len(fifo) = FIFO_DEPTH
  <2> DEFINE g == [fifo EXCEPT ![FIFO_DEPTH] = h]
             n == FIFO_DEPTH
  <2>1. /\ g \in Seq(Frames) /\ Len(g) = n
        /\ \A j \in 1 .. n : g[j] = IF j = n THEN h ELSE fifo[j]
    <3>1. FIFO_DEPTH \in 1 .. Len(fifo)
      BY <1>1, <1>5
    <3> QED BY <1>1, <1>3, <1>5, <3>1, ExceptSeq
  <2>2. Rest' = g \o w
    <3>1. ~(Len(fifo) < FIFO_DEPTH)
      BY <1>1, <1>5
    <3>2. fifo' = g
      BY <1>2, <3>1 DEF Received
    <3> QED BY <1>2, <3>2 DEF Rest
  <2> HIDE DEF g, n
  <2>a. g \in Seq(Frames) /\ w \in Seq(Frames)
    BY <1>3, <2>1
  <2>b. /\ g \o w \in Seq(Frames) /\ Len(g \o w) = Len(g) + Len(w)
        /\ \A i \in 1 .. Len(g) + Len(w) :
             (g \o w)[i] = IF i <= Len(g) THEN g[i] ELSE w[i - Len(g)]
    BY <2>a, ConcatProperties
  <2>3. /\ g \o w \in Seq(Frames) /\ Len(g \o w) = Len(g) + Len(w)
        /\ \A i \in 1 .. Len(g \o w) : (g \o w)[i] = IF i <= Len(g) THEN g[i] ELSE w[i - Len(g)]
    BY <2>b
  <2>4. n \in Nat /\ n > 0 /\ Len(fifo) = n
    BY <1>1, <1>5 DEF n
  <2>5. Len(Rest) > n
    BY <1>1, <1>3, <2>4
  <2>6. ASSUME Len(Rest) = n + 1
        PROVE  /\ Len(g \o w) = n
               /\ \A i \in 1 .. n - 1 : (g \o w)[i] = Rest[i]
               /\ (g \o w)[n] = Rest[n + 1]
    <3>1. Len(w) = 0 /\ Len(g \o w) = n
      BY <1>1, <1>3, <2>1, <2>3, <2>4, <2>6
    <3>2. \A i \in 1 .. n : (g \o w)[i] = g[i]
      BY <2>1, <2>3, <2>4, <3>1
    <3>3. \A i \in 1 .. n - 1 : g[i] = fifo[i] /\ Rest[i] = fifo[i] /\ i \in 1 .. n
      BY <1>1, <2>1, <2>4
    <3>4. g[n] = h /\ Rest[n + 1] = wire[1] /\ n \in 1 .. n
      BY <1>1, <1>3, <2>1, <2>4
    <3> QED BY <1>3, <3>1, <3>2, <3>3, <3>4
  <2> QED BY <1>1, <1>5, <2>2, <2>4, <2>5, <2>6 DEF n
<1> QED BY <1>1, <1>4, <1>5

(* The polled reader answers.                                              *)
LEMMA RestSend ==
  ASSUME TypeOK, NEW m \in Seq(Frames), fifo' = fifo, wire' = wire \o m
  PROVE  Rest' = Rest \o m
<1>1. fifo \in Seq(Frames) /\ wire \in Seq(Frames)
  BY RestIs
<1> QED BY <1>1, ConcatAssociative DEF Rest

LEMMA OneAndTwo ==
  ASSUME NEW a, NEW b, NEW c
  PROVE  <<a>> \o <<b, c>> = <<a, b, c>>
<1> DEFINE s == <<a>>
           t == <<b, c>>
           u == <<a, b, c>>
           S == {a, b, c}
<1>1. /\ s \in Seq(S) /\ t \in Seq(S) /\ u \in Seq(S) /\ Len(s) = 1 /\ Len(t) = 2 /\ Len(u) = 3
      /\ s[1] = a /\ t[1] = b /\ t[2] = c /\ u[1] = a /\ u[2] = b /\ u[3] = c
  OBVIOUS
<1> HIDE DEF s, t, u, S
<1>2. /\ s \o t \in Seq(S) /\ Len(s \o t) = Len(s) + Len(t)
      /\ \A i \in 1 .. Len(s) + Len(t) :
           (s \o t)[i] = IF i <= Len(s) THEN s[i] ELSE t[i - Len(s)]
  BY <1>1, ConcatProperties
<1>3. \A i \in 1 .. 3 : (s \o t)[i] = u[i]
  <2>1. (s \o t)[1] = a /\ (s \o t)[2] = b /\ (s \o t)[3] = c
    BY <1>1, <1>2
  <2>2. \A i \in 1 .. 3 : i = 1 \/ i = 2 \/ i = 3
    OBVIOUS
  <2>3. (s \o t)[1] = u[1] /\ (s \o t)[2] = u[2] /\ (s \o t)[3] = u[3]
    BY <1>1, <2>1
  <2> DEFINE v == s \o t
  <2> HIDE DEF v
  <2> QED BY <2>2, <2>3 DEF v
<1>4. s \o t = u
  BY <1>1, <1>2, <1>3, SeqEqual
<1> QED BY <1>4 DEF s, t, u

-----------------------------------------------------------------------------
(* What most steps leave as it is                                          *)

LEMMA ReadersKept ==
  ASSUME UNCHANGED readerVars
  PROVE  \A r \in Readers : /\ count(r)' = count(r) /\ Pending(r)' = Pending(r)
                            /\ held'[r] = held[r] /\ (Meek(r)' <=> Meek(r))
                            /\ F1(r)' = F1(r) /\ F2(r)' = F2(r) /\ Reply(r)' = Reply(r)
BY DEF readerVars, count, Pending, Meek, F1, F2, Reply

LEMMA WrongKept ==
  ASSUME UNCHANGED readerVars, \A r \in Readers : row'[r].amt = row[r].amt, pc # "ack"
  PROVE  \A r \in Readers : Wrong(r)' => Wrong(r)
BY ReadersKept DEF Wrong

LEMMA LeftoversKept ==
  ASSUME bus' = bus, NEW k, NEW j, Leftovers(k),
         \A q, r \in bus.readers : Sooner(q, r)' <=> Sooner(q, r),
         \A s \in bus.readers : Meek(s) => Meek(s)',
         \A i \in 1 .. j : \E m \in 1 .. k : Rest'[i].from = Rest[m].from
  PROVE  Leftovers(j)'
<1>1. ASSUME NEW q \in bus.readers, LastPolled(q)
      PROVE  LastPolled(q)'
  BY <1>1 DEF LastPolled
<1> SUFFICES ASSUME NEW i \in 1 .. j
             PROVE  \E q \in bus.readers : q = Rest'[i].from /\ LastPolled(q)' /\ Meek(q)'
  BY DEF Leftovers
<1>2. PICK m \in 1 .. k : Rest'[i].from = Rest[m].from
  OBVIOUS
<1>3. PICK q \in bus.readers : q = Rest[m].from /\ LastPolled(q) /\ Meek(q)
  BY DEF Leftovers
<1>4. LastPolled(q)' /\ Meek(q)'
  BY <1>1, <1>3
<1> QED BY <1>2, <1>3, <1>4

LEMMA RobbedKept ==
  ASSUME bus' = bus, RobbedOnce, (pc = "ack") <=> (pc' = "ack"), pc = "ack" => no' = no,
         \A q, r \in bus.readers : Sooner(q, r)' <=> Sooner(q, r),
         \A s \in bus.readers : (Meek(s) => Meek(s)') /\ (Wrong(s)' => Wrong(s)),
         \A i \in 1 .. Len(Rest') : \E m \in 1 .. Len(Rest) : Rest'[i].from = Rest[m].from
  PROVE  RobbedOnce'
<1> SUFFICES ASSUME NEW q \in bus.readers, NEW r \in bus.readers, Wrong(r)', NextTo(q, r)
             PROVE  Spared(q, r)'
  BY DEF RobbedOnce, NextTo
<1>1. Wrong(r) /\ Spared(q, r)
  BY DEF RobbedOnce
<1>2. CASE Sooner(q, r) \/ (pc = "ack" /\ no = r)
  BY <1>1, <1>2 DEF Spared
<1>3. CASE ~(Sooner(q, r) \/ (pc = "ack" /\ no = r))
  BY <1>1, <1>3 DEF Spared
<1> QED BY <1>2, <1>3

(* Outside a poll: frames of the reader polled last, which go one by one.  *)
LEMMA QuietKept ==
  ASSUME Ready, bus' = bus, OnlyLeftovers,
         Rest' = Rest \/ (Rest' \in Seq(Frames) /\ Popped(Rest', Rest)),
         pc \notin {"wait1", "wait2", "ack"}, pc' \notin {"wait1", "wait2", "ack"},
         pc' = "send" => attempt' = 1 /\ no' \in bus.readers,
         \A q, r \in bus.readers : Sooner(q, r)' <=> Sooner(q, r),
         \A s \in bus.readers : (Meek(s) => Meek(s)') /\ (Wrong(s)' => Wrong(s))
  PROVE  Channel' /\ RobbedOnce'
<1>1. Len(Rest) \in Nat /\ Len(Rest) <= 2
  BY RestIs, LenProperties DEF Ready, IInv, OnlyLeftovers
<1>2. /\ Len(Rest') <= 2
      /\ \A i \in 1 .. Len(Rest') : \E m \in 1 .. Len(Rest) : Rest'[i].from = Rest[m].from
  <2>1. CASE Rest' = Rest
    BY <1>1, <2>1
  <2>2. CASE Rest' \in Seq(Frames) /\ Popped(Rest', Rest)
    <3>1. /\ Len(Rest') = Len(Rest) - 1
          /\ \A i \in 1 .. Len(Rest') : i + 1 \in 1 .. Len(Rest) /\ Rest'[i] = Rest[i + 1]
      BY <1>1, <2>2 DEF Popped
    <3> QED BY <1>1, <3>1
  <2> QED BY <2>1, <2>2
<1>3. Leftovers(Len(Rest))'
  BY <1>2, LeftoversKept DEF OnlyLeftovers
<1>4. Channel'
  <2>1. OnlyLeftovers'
    BY <1>2, <1>3 DEF OnlyLeftovers
  <2>2. CASE pc' = "send"
    <3>1. PICK r \in bus.readers : r = no'
      BY <2>2
    <3>2. Poll(r)'
      BY <2>1, <2>2 DEF Poll
    <3> QED BY <2>2, <3>1, <3>2 DEF Channel, Polling
  <2>3. CASE pc' # "send"
    BY <2>1, <2>3 DEF Channel, Polling
  <2> QED BY <2>2, <2>3
<1>5. RobbedOnce'
  BY <1>2, RobbedKept DEF Ready, TwiceInv
<1> QED BY <1>4, <1>5

(* The poll of r, place by place.                                          *)
LEMMA PollIs ==
  ASSUME NEW r, Polling
  PROVE  Poll(r) <=>
           /\ pc = "send" /\ attempt = 1 => OnlyLeftovers
           /\ pc = "send" /\ attempt # 1 => Begun(r, "pull") /\ Rest = <<F2(r)>>
           /\ pc = "wait1" /\ attempt = 1 => \E k \in 0 .. 2 : Waiting(r, k)
           /\ pc = "wait1" /\ attempt # 1 => Begun(r, "pull") /\ Rest = <<F2(r), F1(r), F2(r)>>
           /\ pc = "wait2" => Begun(r, "ins") /\ Rest = <<F2(r)>>
           /\ pc = "ack" => /\ held[r] /\ row[r].amt = count(r)
                            /\ \/ Rest = <<>>
                               \/ Begun(r, "pull") /\ Rest = <<F1(r), F2(r)>>
<1>1. CASE pc = "send" /\ attempt = 1
  BY <1>1 DEF Poll
<1>2. CASE pc = "send" /\ attempt # 1
  BY <1>2 DEF Poll
<1>3. CASE pc = "wait1" /\ attempt = 1
  BY <1>3 DEF Poll
<1>4. CASE pc = "wait1" /\ attempt # 1
  BY <1>4 DEF Poll
<1>5. CASE pc = "wait2"
  BY <1>5 DEF Poll
<1>6. CASE pc = "ack"
  BY <1>6 DEF Poll
<1> QED BY <1>1, <1>2, <1>3, <1>4, <1>5, <1>6 DEF Polling

(* How many frames are under way in the places where it is fixed.          *)
LEMMA PollLength ==
  ASSUME NEW r, Polling, Poll(r), ~(pc = "send" /\ attempt = 1), ~(pc = "wait1" /\ attempt = 1)
  PROVE  Len(Rest) \in 0 .. 3
<1>1. /\ Len(<<F2(r)>>) = 1 /\ Len(<<F2(r), F1(r), F2(r)>>) = 3
      /\ Len(<<F1(r), F2(r)>>) = 2 /\ Len(<<>>) = 0
  OBVIOUS
<1>2. \/ Rest = <<F2(r)>> \/ Rest = <<F2(r), F1(r), F2(r)>>
      \/ Rest = <<F1(r), F2(r)>> \/ Rest = <<>>
  BY PollIs DEF Polling
<1>3. Len(Rest) = 1 \/ Len(Rest) = 3 \/ Len(Rest) = 2 \/ Len(Rest) = 0
  BY <1>1, <1>2
<1> QED BY <1>3

(* What holds in every step.                                               *)
LEMMA ReadyIs ==
  ASSUME Ready
  PROVE  /\ TypeOK /\ bus.readers \subseteq Readers
         /\ \A r \in bus.readers : /\ r \in Nat /\ r > 0 /\ r < BUSNUM_SIZE
                                   /\ r \in Rows /\ Forwarded(r)
         /\ Led_TaskCount \in Nat /\ no = Led_TaskCount + 1 /\ BUSNUM_SIZE \in Nat
         /\ Rest \in Seq(Frames) /\ Len(Rest) \in Nat
         /\ Settled /\ Fresh /\ Channel /\ RobbedOnce
         /\ row \in [Rows -> RowType] /\ TempBuff \in [kind : Kinds \cup {"junk"}, card : Cards \cup {NoCard}]
         /\ \A r \in Readers : /\ row[r].amt \in Nat /\ count(r) \in Nat /\ row[r].amt <= count(r)
                               /\ r \in Rows
                               /\ held[r] => count(r) > 0
                               /\ count(r) > 0 => Pending(r) \in [kind : Kinds, card : Cards]
         /\ Polling => no \in bus.readers /\ Poll(no)
         /\ ~Polling => OnlyLeftovers
<1>1. TypeOK /\ BusKept /\ Company /\ TwiceInv
  BY DEF Ready, IInv
<1>2. Rest \in Seq(Frames) /\ Len(Rest) \in Nat
  BY <1>1, RestIs, LenProperties
<1>3. \A r \in Readers : row[r].amt <= count(r)
  BY DEF Ready, IInv, Flow, Stores, Counts
<1>4. TempBuff \in [kind : Kinds \cup {"junk"}, card : Cards \cup {NoCard}]
  BY <1>1 DEF TypeOK
<1>5. \A r \in Readers : held[r] => count(r) > 0
  BY DEF Ready, IInv
<1>6. /\ Polling => no \in bus.readers /\ Poll(no)
      /\ ~Polling => OnlyLeftovers
  BY <1>1 DEF TwiceInv, Channel
<1>7. Settled /\ Fresh /\ Channel /\ RobbedOnce
  BY <1>1 DEF TwiceInv
<1> QED BY <1>1, <1>2, <1>3, <1>4, <1>5, <1>6, <1>7, CompanyIs, RowsAre, CountsAre

(* Whether a row would repeat what is in the queue depends on the row, the *)
(* queue and the events.                                                   *)
LEMMA RepeatsKept ==
  ASSUME UNCHANGED <<happened, reported>>
  PROVE  /\ \A e : Right(e)' <=> Right(e)
         /\ \A n : Entry(n)' = Entry(n) => (Repeats(Entry(n))' <=> Repeats(Entry(n)))
         /\ \A n : row'[n] = row[n] => (Repeats(Entry(n))' <=> Repeats(Entry(n)))
<1>1. ASSUME NEW e
      PROVE  Right(e)' <=> Right(e)
  BY DEF Right, count
<1>2. ASSUME NEW n, Entry(n)' = Entry(n)
      PROVE  Repeats(Entry(n))' <=> Repeats(Entry(n))
  BY <1>1, <1>2 DEF Repeats
<1>3. ASSUME NEW n, row'[n] = row[n]
      PROVE  Entry(n)' = Entry(n)
  BY <1>3 DEF Entry
<1> QED BY <1>1, <1>2, <1>3

(* A report that is right and of the last event is of the pending one.     *)
LEMMA RightIs ==
  ASSUME NEW r \in Readers, NEW e, e.no = r, e.amt = count(r), count(r) \in Nat \ {0}
  PROVE  Right(e) <=> OfPending(e, r)
BY DEF Right, OfPending, Pending

(* Steps that leave the rows, the queue and what the readers hold alone.   *)
LEMMA FreshKept ==
  ASSUME Ready, bus' = bus, UNCHANGED <<happened, row, reported, again>>,
         \A r \in bus.readers : held'[r] => held[r],
         pc' # "ack", pc # "ack"
  PROVE  Fresh'
<1>1. Fresh
  BY ReadyIs
<1>2. /\ ~again'
      /\ \A n \in Rows : row'[n].bits # {} => ~Repeats(Entry(n))'
      /\ \A e \in reported' : e.no \in Readers => e.amt <= row'[e.no].amt
  BY <1>1, RepeatsKept DEF Fresh
<1>3. ASSUME NEW r \in bus.readers, held'[r]
      PROVE  Unsaid(r)'
  BY <1>1, <1>3 DEF Fresh, Unsaid, OfPending, Entry, count, Pending
<1> QED BY <1>2, <1>3 DEF Fresh, Rows

-----------------------------------------------------------------------------
(* The readers                                                             *)

(* A card event: the reader was not holding one.                           *)
LEMMA TwiceHappens ==
  ASSUME Ready, bus' = bus, NEW r \in bus.readers, NEW k \in Kinds, NEW cd \in Cards,
         Happens(r, k, cd), slot' \in [Readers -> Cards \cup {NoCard}],
         \A s \in Readers : s # r => slot'[s] = slot[s],
         k = "ins" <=> slot'[r] # NoCard, k = "ins" <=> slot[r] = NoCard
  PROVE  TwiceInv'
<1> USE DEF Happens
<1>0. /\ TypeOK /\ r \in Readers /\ ~held[r] /\ bus.readers \subseteq Readers
      /\ Settled /\ Fresh /\ Channel /\ RobbedOnce
      /\ \A s \in Readers : row[s].amt \in Nat /\ count(s) \in Nat /\ row[s].amt <= count(s)
  BY ReadyIs
<1>1. /\ UNCHANGED <<fifo, wire, pc, Led_TaskCount, attempt, over, TempBuff, row, reported, again>>
      /\ no' = no /\ Rest' = Rest
  BY DEF busVars, pollVars, no, Rest
<1>2. /\ happened \in [Readers -> Seq([kind : Kinds, card : Cards])]
      /\ held \in [Readers -> BOOLEAN]
  BY <1>0 DEF TypeOK
<1> DEFINE e == [kind |-> k, card |-> cd]
<1>3. \A s \in Readers : s # r => /\ happened'[s] = happened[s] /\ held'[s] = held[s]
  BY <1>2
<1>4. happened'[r] = Append(happened[r], e) /\ held'[r]
  BY <1>0, <1>2
<1>5. count(r)' = count(r) + 1 /\ Pending(r)' = e
  <2>1. happened[r] \in Seq([kind : Kinds, card : Cards]) /\ e \in [kind : Kinds, card : Cards]
    BY <1>0, <1>2
  <2> HIDE DEF e
  <2> QED BY <1>4, <2>1, AppendProperties DEF count, Pending
<1>6. \A s \in Readers : s # r => /\ count(s)' = count(s) /\ Pending(s)' = Pending(s)
                                  /\ F1(s)' = F1(s) /\ F2(s)' = F2(s)
                                  /\ (Meek(s)' <=> Meek(s)) /\ (Wrong(s)' <=> Wrong(s))
  BY <1>1, <1>3 DEF count, Pending, F1, F2, Meek, Wrong
<1>7. (Meek(r) => Meek(r)') /\ ~Wrong(r)' /\ ~Wrong(r)
  <2>1. Meek(r) => Meek(r)'
    BY <1>0, <1>4, <1>5 DEF Meek
  <2>2. row'[r].amt # count(r)'
    BY <1>0, <1>1, <1>5
  <2> QED BY <1>0, <2>1, <2>2 DEF Wrong
<1> HIDE DEF Happens, e
<1>8. \A s \in bus.readers : (Meek(s) => Meek(s)') /\ (Wrong(s)' => Wrong(s))
  BY <1>0, <1>6, <1>7
<1>9. \A s, t \in bus.readers : Sooner(t, s)' <=> Sooner(t, s)
  BY <1>1 DEF Sooner, Gone, AfterPoll
<1>10. RobbedOnce'
  BY <1>0, <1>1, <1>8, <1>9, RobbedKept
<1>11. \A n : Leftovers(n) => Leftovers(n)'
  BY <1>1, <1>8, <1>9, LeftoversKept
<1>12. Channel'
  <2>1. CASE ~Polling
    <3>1. OnlyLeftovers
      BY <1>0, <2>1 DEF Channel
    <3> QED BY <1>1, <1>11, <2>1, <3>1 DEF Channel, OnlyLeftovers, Polling
  <2>2. CASE Polling
    <3>1. PICK t \in bus.readers : t = no /\ Poll(t)
      BY <1>0, <2>2 DEF Channel
    <3>2. held[t] => /\ t # r /\ held'[t] /\ count(t)' = count(t) /\ Pending(t)' = Pending(t)
                     /\ F1(t)' = F1(t) /\ F2(t)' = F2(t) 
      BY <1>0, <1>3, <1>6
    <3>3. \A n \in Nat : Waiting(t, n) => Waiting(t, n)'
      <4> SUFFICES ASSUME NEW n \in Nat, Waiting(t, n) PROVE Waiting(t, n)'
        OBVIOUS
      <4>1. n < over' /\ Leftovers(n)'
        BY <1>1, <1>11 DEF Waiting
      <4>2. CASE Nothing(t, n)
        BY <1>1, <1>8, <4>1, <4>2 DEF Nothing, Waiting
      <4>3. CASE Whole(t, n)
        BY <1>1, <3>2, <4>1, <4>3 DEF Whole, Waiting
      <4>4. CASE Cut(t, n)
        BY <1>1, <1>8, <3>2, <4>1, <4>4 DEF Cut, Waiting, NextTo
      <4> QED BY <4>2, <4>3, <4>4 DEF Waiting
    <3>4. OnlyLeftovers => OnlyLeftovers'
      BY <1>1, <1>11 DEF OnlyLeftovers
    <3>5. \A x : Begun(t, x) => Begun(t, x)'
      BY <1>1, <3>2 DEF Begun
    <3>6. Poll(t)'
      <4>1. pc = "send" => Poll(t)'
        BY <1>1, <3>1, <3>2, <3>4, <3>5 DEF Poll, Begun
      <4>2. pc = "wait1" => Poll(t)'
        <5>1. CASE pc = "wait1" /\ attempt = 1
          <6>1. PICK n \in 0 .. 2 : Waiting(t, n)
            BY <3>1, <5>1 DEF Poll
          <6>2. Waiting(t, n)'
            BY <3>3, <6>1
          <6> QED BY <1>1, <5>1, <6>2 DEF Poll
        <5>2. CASE pc = "wait1" /\ attempt # 1
          BY <1>1, <3>1, <3>2, <3>5, <5>2 DEF Poll, Begun
        <5> QED BY <5>1, <5>2
      <4>3. pc = "wait2" => Poll(t)'
        BY <1>1, <3>1, <3>2, <3>5 DEF Poll, Begun
      <4>4. pc = "ack" => Poll(t)'
        BY <1>1, <3>1, <3>2, <3>5 DEF Poll, Begun
      <4> QED BY <2>2, <4>1, <4>2, <4>3, <4>4 DEF Polling
    <3> QED BY <1>1, <2>2, <3>1, <3>6 DEF Channel, Polling
  <2> QED BY <2>1, <2>2
<1>13. Settled'
  <2>1. ASSUME NEW s \in Readers, count(s)' > 0
        PROVE  Pending(s)'.kind = "ins" <=> slot'[s] # NoCard
    <3>1. CASE s = r
      BY <1>5, <3>1 DEF e
    <3>2. CASE s # r
      BY <1>0, <1>6, <2>1, <3>2 DEF Settled
    <3> QED BY <3>1, <3>2
  <2> QED BY <1>0, <1>1, <2>1 DEF Settled, Rows
<1>14. Fresh'
  <2>0. ASSUME NEW x, x.no \in Readers => x.amt <= row[x.no].amt
        PROVE  Right(x)' <=> Right(x)
    <3>1. CASE x.no \in Readers /\ x.no # r
      BY <1>3, <1>6, <3>1 DEF Right
    <3>2. CASE x.no = r
      <4>1. x.amt \in 1 .. count(r) => happened'[r][x.amt] = happened[r][x.amt]
        <5>1. happened[r] \in Seq([kind : Kinds, card : Cards]) /\ e \in [kind : Kinds, card : Cards]
          BY <1>0, <1>2 DEF e
        <5> QED BY <1>4, <5>1, AppendProperties DEF count
      <4>2. x.amt \in 1 .. (count(r) + 1) <=> x.amt \in 1 .. count(r)
        BY <1>0, <2>0, <3>2
      <4> QED BY <1>0, <1>5, <3>2, <4>1, <4>2 DEF Right
    <3>3. CASE x.no \notin Readers
      BY <3>3 DEF Right
    <3> QED BY <3>1, <3>2, <3>3
  <2>1. /\ ~again'
        /\ \A n \in Rows : row'[n].bits # {} => ~Repeats(Entry(n))'
        /\ \A x \in reported' : x.no \in Readers => x.amt <= row'[x.no].amt
    <3>1. /\ ~again'
          /\ \A x \in reported' : x.no \in Readers => x.amt <= row'[x.no].amt
      BY <1>0, <1>1 DEF Fresh
    <3>2. ASSUME NEW n \in Rows, row'[n].bits # {}
          PROVE  ~Repeats(Entry(n))'
      <4>1. Entry(n)' = Entry(n) /\ ~Repeats(Entry(n))
        BY <1>0, <1>1, <3>2 DEF Entry, Fresh
      <4>2. Right(Entry(n))' <=> Right(Entry(n))
        <5>1. Entry(n).no = n /\ Entry(n).amt = row[n].amt
          BY DEF Entry
        <5>2. n \in Readers => row[n].amt <= row[n].amt
          BY <1>0
        <5>3. \A x : (x = Entry(n)) => (Right(x)' <=> Right(x))
          BY <2>0, <5>1, <5>2
        <5> QED BY <4>1, <5>3
      <4>3. \A f \in reported : Right(f)' <=> Right(f)
        BY <1>0, <2>0 DEF Fresh
      <4> QED BY <1>1, <4>1, <4>2, <4>3 DEF Repeats
    <3> QED BY <3>1, <3>2
  <2>2. ASSUME NEW s \in bus.readers, held'[s]
        PROVE  Unsaid(s)'
    <3>1. CASE s = r
      <4>1. ASSUME NEW x \in reported', OfPending(x, r)'
            PROVE  FALSE
        <5>1. x.no = r /\ x.amt = count(r) + 1
          BY <1>5, <4>1 DEF OfPending
        <5>2. x.amt <= row[r].amt
          BY <1>0, <1>1, <2>1, <5>1
        <5> QED BY <1>0, <5>1, <5>2
      <4>2. ~OfPending(Entry(r), r)'
        <5>1. row'[r].amt # count(r)'
          BY <1>0, <1>1, <1>5
        <5> QED BY <5>1 DEF OfPending, Entry
      <4> QED BY <3>1, <4>1, <4>2 DEF Unsaid
    <3>2. CASE s # r
      <4>1. held[s] /\ Unsaid(s) /\ count(s)' = count(s) /\ Pending(s)' = Pending(s)
        BY <1>0, <1>3, <1>6, <2>2, <3>2 DEF Fresh
      <4> QED BY <1>1, <4>1 DEF Unsaid, OfPending, Entry
    <3> QED BY <3>1, <3>2
  <2> QED BY <2>1, <2>2 DEF Fresh, Rows
<1> QED BY <1>10, <1>12, <1>13, <1>14 DEF TwiceInv

-----------------------------------------------------------------------------
(* The bus                                                                 *)

(* The steps that change nothing but the frames, pc and the data of the    *)
(* poll.                                                                   *)
LEMMA PollFacts ==
  ASSUME Ready, bus' = bus, UNCHANGED <<readerVars, Led_TaskCount, row, reported, again>>,
         pc # "ack", pc' # "ack"
  PROVE  /\ Settled' /\ Fresh' /\ no' = no
         /\ \A s \in Readers : /\ count(s)' = count(s) /\ Pending(s)' = Pending(s)
                               /\ held'[s] = held[s] /\ F1(s)' = F1(s) /\ F2(s)' = F2(s)
                               /\ (Meek(s)' <=> Meek(s)) /\ (Wrong(s)' <=> Wrong(s))
         /\ (AfterPoll' <=> AfterPoll) =>
              \A s, t \in bus.readers : Sooner(t, s)' <=> Sooner(t, s)
<1>1. \A s \in Readers : /\ count(s)' = count(s) /\ Pending(s)' = Pending(s)
                         /\ held'[s] = held[s] /\ F1(s)' = F1(s) /\ F2(s)' = F2(s)
                         /\ (Meek(s)' <=> Meek(s)) /\ (Wrong(s)' <=> Wrong(s))
  BY ReadersKept DEF Wrong
<1>2. Settled'
  BY ReadyIs, <1>1 DEF Settled, Rows, readerVars
<1>3. Fresh'
  BY FreshKept DEF readerVars
<1>4. (AfterPoll' <=> AfterPoll) =>
         \A s, t \in bus.readers : Sooner(t, s)' <=> Sooner(t, s)
  BY DEF Sooner, Gone, no
<1> QED BY <1>1, <1>2, <1>3, <1>4 DEF no

(* Three places are enough but for the poll of a reader with an event      *)
(* behind two leftover frames: then its first frame is overwritten.        *)
LEMMA TwiceArrive ==
  ASSUME Ready, bus' = bus, Arrive
  PROVE  TwiceInv'
<1>0. /\ TypeOK /\ BusKept /\ Company /\ bus.readers \subseteq Readers
      /\ Settled /\ Fresh /\ Channel /\ RobbedOnce /\ FIFO_DEPTH > 2
      /\ Rest \in Seq(Frames) /\ Len(Rest) \in Nat
      /\ \A s \in Readers : /\ row[s].amt \in Nat /\ count(s) \in Nat /\ row[s].amt <= count(s)
      /\ \A s \in bus.readers : s \in Nat
  BY ReadyIs DEF Ready
<1>1. /\ UNCHANGED <<pc, Led_TaskCount, attempt, over, TempBuff, row, reported, again>>
      /\ UNCHANGED readerVars
  BY DEF Arrive, pollVars
<1>2. /\ no' = no /\ (AfterPoll' <=> AfterPoll) /\ (Polling' <=> Polling)
  BY <1>1 DEF no, AfterPoll, Polling
<1>3. /\ \A s \in Readers : /\ count(s)' = count(s) /\ Pending(s)' = Pending(s)
                            /\ held'[s] = held[s] /\ F1(s)' = F1(s) /\ F2(s)' = F2(s)
                            /\ (Meek(s)' <=> Meek(s)) /\ (Wrong(s)' <=> Wrong(s))
      /\ \A s, t \in bus.readers : Sooner(t, s)' <=> Sooner(t, s)
  <2>1. \A s, t \in bus.readers : Sooner(t, s)' <=> Sooner(t, s)
    BY <1>1, <1>2 DEF Sooner, Gone
  <2>2. \A s \in Readers : Wrong(s)' <=> Wrong(s)
    BY <1>1, <1>2, ReadersKept DEF Wrong
  <2> QED BY <1>1, <2>1, <2>2, ReadersKept
<1>4. Settled'
  BY <1>0, <1>1, <1>3 DEF Settled, Rows, readerVars
<1>5. Fresh'
  <2>1. \A n \in Rows : row'[n].bits # {} => ~Repeats(Entry(n))'
    BY <1>0, <1>1, RepeatsKept DEF Fresh, readerVars
  <2> QED BY <1>0, <1>1, <1>2, <1>3, <2>1 DEF Fresh, Unsaid, OfPending, Entry, Rows
<1>6. /\ Len(fifo) < FIFO_DEPTH => Rest' = Rest
      /\ Len(fifo) = FIFO_DEPTH =>
           /\ Len(Rest) > FIFO_DEPTH
           /\ Len(Rest) = FIFO_DEPTH + 1 =>
                /\ Len(Rest') = FIFO_DEPTH
                /\ \A i \in 1 .. FIFO_DEPTH - 1 : Rest'[i] = Rest[i]
                /\ Rest'[FIFO_DEPTH] = Rest[FIFO_DEPTH + 1]
      /\ Len(fifo) <= FIFO_DEPTH /\ Len(fifo) \in Nat /\ FIFO_DEPTH \in Nat
  BY <1>0, RestArrive
<1>7. CASE Len(fifo) < FIFO_DEPTH
  <2>1. Rest' = Rest
    BY <1>6, <1>7
  <2>2. RobbedOnce'
    BY <1>0, <1>1, <1>2, <1>3, <2>1, RobbedKept
  <2>3. \A n : Leftovers(n) => Leftovers(n)'
    BY <1>0, <1>3, <2>1, LeftoversKept
  <2>4. OnlyLeftovers => OnlyLeftovers'
    BY <2>1, <2>3 DEF OnlyLeftovers
  <2>5. ASSUME NEW t \in bus.readers, Polling, Poll(t), t = no
        PROVE  Poll(t)'
    <3>0. t \in Readers
      BY <1>0
    <3>1. \A n \in 0 .. 2 : Waiting(t, n) => Waiting(t, n)'
      BY <1>0, <1>1, <1>3, <2>1, <2>3, <3>0 DEF Waiting, Nothing, Whole, Cut, NextTo
    <3>2. pc = "wait1" /\ attempt = 1 => Poll(t)'
      BY <1>1, <2>5, <3>1 DEF Poll
    <3>3. ~(pc = "wait1" /\ attempt = 1) => Poll(t)'
      <4>1. /\ F1(t)' = F1(t) /\ F2(t)' = F2(t) /\ count(t)' = count(t)
            /\ \A k : Begun(t, k) => Begun(t, k)'
        BY <1>1, <1>3, <3>0 DEF Begun
      <4>2. pc = "send" => Poll(t)'
        BY <1>1, <2>1, <2>4, <2>5, <4>1 DEF Poll
      <4>3. pc = "wait1" /\ attempt # 1 => Poll(t)'
        BY <1>1, <2>1, <2>5, <4>1 DEF Poll
      <4>4. pc = "wait2" => Poll(t)'
        BY <1>1, <2>1, <2>5, <4>1 DEF Poll
      <4>5. pc = "ack" => Poll(t)'
        BY <1>1, <1>3, <2>1, <2>5, <3>0, <4>1 DEF Poll
      <4> QED BY <2>5, <4>2, <4>3, <4>4, <4>5 DEF Polling
    <3> QED BY <3>2, <3>3
  <2>6. Channel'
    BY <1>0, <1>2, <2>4, <2>5 DEF Channel
  <2> QED BY <1>4, <1>5, <2>2, <2>6 DEF TwiceInv
<1>8. CASE Len(fifo) = FIFO_DEPTH
  <2>1. Len(Rest) > 3
    BY <1>0, <1>6, <1>8
  <2>2. Polling
    <3>1. OnlyLeftovers => FALSE
      BY <1>0, <2>1 DEF OnlyLeftovers
    <3> QED BY <1>0, <3>1 DEF Channel
  <2>3. PICK t \in bus.readers : t = no /\ Poll(t)
    BY <1>0, <2>2 DEF Channel
  <2>4. pc = "wait1" /\ attempt = 1
    <3>1. OnlyLeftovers => FALSE
      BY <1>0, <2>1 DEF OnlyLeftovers
    <3>2. ~(pc = "send" /\ attempt = 1)
      BY <2>2, <2>3, <3>1, PollIs
    <3>3. ~(pc = "wait1" /\ attempt = 1) => Len(Rest) \in 0 .. 3
      BY <2>2, <2>3, <3>2, PollLength
    <3>4. \A n \in 0 .. 3 : ~(n > 3)
      OBVIOUS
    <3> QED BY <2>1, <3>3, <3>4, Zenon
  <2>5. PICK k \in 0 .. 2 : Waiting(t, k)
    BY <2>3, <2>4 DEF Poll
  <2>6. /\ k = 2 /\ Whole(t, k) /\ Len(Rest) = 4 /\ FIFO_DEPTH = 3
    <3>1. ~Nothing(t, k) /\ ~Cut(t, k)
      BY <2>1, <2>5 DEF Nothing, Cut
    <3>2. Whole(t, k) /\ Len(Rest) = k + 2
      BY <2>5, <3>1 DEF Waiting, Whole
    <3> QED BY <1>0, <1>6, <1>8, <2>1, <3>2
  <2>7. /\ Len(Rest') = 3 /\ Rest'[1] = Rest[1] /\ Rest'[2] = Rest[2]
        /\ Rest'[3] = F2(t) /\ Rest[3] = F1(t) /\ held[t] /\ Leftovers(2) /\ 2 < over
    BY <1>6, <1>8, <2>5, <2>6 DEF Whole, Waiting
  <2>8. F1(t).from = t /\ F2(t).from = t
    BY DEF F1, F2, Frame
  <2>9. PICK q \in bus.readers : q = Rest[1].from /\ LastPolled(q) /\ Meek(q)
    BY <2>7 DEF Leftovers
  <2>10. /\ NextTo(q, t) /\ q # t
         /\ \A s, r \in bus.readers : NextTo(s, r) => (Sooner(s, r) <=> r # t)
         /\ \A s \in bus.readers : NextTo(s, t) => s = q
    <3>1. /\ \A s \in bus.readers : LastPolled(s) <=> NextTo(s, t)
          /\ \A s, r \in bus.readers : NextTo(s, r) => (Sooner(s, r) <=> r # t)
      BY <1>0, <2>2, <2>3, PollOrder
    <3>2. NextTo(q, t) /\ q # t
      BY <2>9, <3>1 DEF NextTo
    <3>3. ASSUME NEW s \in bus.readers, NextTo(s, t)
          PROVE  s = q
      BY <1>0, <3>2, <3>3 DEF NextTo
    <3> QED BY <3>1, <3>2, <3>3
  <2>11. row[t].amt < count(t)
    <3>1. SUFFICES ASSUME row[t].amt = count(t) PROVE FALSE
      BY <1>0, <2>3
    <3>2. Wrong(t)
      BY <2>4, <2>7, <3>1 DEF Wrong
    <3>3. Spared(q, t)
      BY <1>0, <2>10, <3>2 DEF RobbedOnce
    <3>4. Rest[1].from = t
      BY <1>0, <2>4, <2>6, <2>10, <3>3 DEF Spared
    <3> QED BY <2>9, <2>10, <3>4
  <2>12. Cut(t, 2)'
    <3>1. t \in Readers
      BY <1>0
    <3> QED BY <1>0, <1>1, <1>3, <2>7, <2>9, <2>10, <2>11, <3>1 DEF Cut, NextTo
  <2>13. Leftovers(2)'
    <3>1. \A i \in 1 .. 2 : Rest'[i] = Rest[i]
      BY <2>7
    <3> QED BY <1>0, <1>3, <2>7, <3>1, LeftoversKept
  <2>14. Channel'
    <3>1. Waiting(t, 2)'
      BY <1>1, <2>7, <2>12, <2>13 DEF Waiting
    <3>2. Poll(t)'
      BY <1>1, <2>4, <3>1 DEF Poll
    <3> QED BY <1>2, <2>2, <2>3, <3>2 DEF Channel
  <2>15. RobbedOnce'
    <3>1. \A i \in 1 .. Len(Rest') : \E m \in 1 .. Len(Rest) : Rest'[i].from = Rest[m].from
      <4>1. 1 \in 1 .. Len(Rest) /\ 2 \in 1 .. Len(Rest) /\ 3 \in 1 .. Len(Rest)
        BY <2>6
      <4>2. Rest'[3].from = Rest[3].from
        BY <2>7, <2>8
      <4> QED BY <2>7, <4>1, <4>2
    <3> QED BY <1>0, <1>1, <1>2, <1>3, <3>1, RobbedKept
  <2> QED BY <1>4, <1>5, <2>14, <2>15 DEF TwiceInv
<1> QED BY <1>6, <1>7, <1>8

-----------------------------------------------------------------------------
(* led_task                                                                *)

LEMMA TwiceStartPoll ==
  ASSUME Ready, bus' = bus, StartPoll
  PROVE  TwiceInv'
<1>1. /\ pc = "idle" /\ UNCHANGED <<readerVars, Led_TaskCount, row, reported, again>>
      /\ Rest' = Rest /\ no' = no /\ attempt' = 1 /\ TempBuff' \in {TempBuff, JunkBuff}
      /\ pc' = IF Led_TaskCount < BUSNUM_SIZE /\ row[no].used THEN "send" ELSE "forward"
  BY DEF StartPoll, busVars, Rest, no
<1>2. /\ TypeOK /\ BusKept /\ Company /\ Settled /\ OnlyLeftovers
      /\ Led_TaskCount \in Nat /\ no = Led_TaskCount + 1 /\ BUSNUM_SIZE \in Nat
      /\ \A r \in bus.readers : r \in Readers /\ r \in Rows /\ r < BUSNUM_SIZE
  BY <1>1, ReadyIs DEF Ready, Polling
<1>3. /\ pc' \in {"send", "forward"} /\ ~AfterPoll
      /\ pc' = "send" => no \in bus.readers
      /\ pc' = "forward" => no \notin bus.readers
  <2>1. no \in bus.readers => Led_TaskCount < BUSNUM_SIZE /\ row[no].used
    BY <1>2 DEF Settled
  <2>2. Led_TaskCount < BUSNUM_SIZE /\ row[no].used => no \in bus.readers
    <3>1. Led_TaskCount < BUSNUM_SIZE => no \in Rows
      BY <1>2 DEF Rows
    <3> QED BY <1>2, <3>1 DEF Settled
  <2> QED BY <1>1, <2>1, <2>2 DEF AfterPoll
<1>4. /\ Settled' /\ Fresh'
      /\ \A s \in Readers : (Meek(s)' <=> Meek(s)) /\ (Wrong(s)' <=> Wrong(s))
  BY <1>1, <1>3, PollFacts
<1>5. \A s, t \in bus.readers : Sooner(t, s)' <=> Sooner(t, s)
  <2>1. CASE pc' = "send"
    BY <1>1, <1>2, <1>3, <2>1, SameOrder DEF AfterPoll
  <2>2. CASE pc' = "forward"
    BY <1>1, <1>2, <1>3, <2>2, SameOrder
  <2> QED BY <1>3, <2>1, <2>2
<1>6. Channel' /\ RobbedOnce'
  BY <1>1, <1>2, <1>3, <1>4, <1>5, QuietKept
<1> QED BY <1>4, <1>6 DEF TwiceInv

(* What the answer adds to the frames under way.                           *)
LEMMA TwiceSendPoll ==
  ASSUME Ready, bus' = bus, SendPoll
  PROVE  TwiceInv'
<1>1. /\ pc = "send" /\ pc' = "wait1" /\ over' = OVERFLOW /\ OVERFLOW > 2 /\ OVERFLOW \in Nat
      /\ UNCHANGED <<readerVars, Led_TaskCount, attempt, TempBuff, row, reported, again>>
      /\ fifo' = fifo /\ wire' = wire \o Reply(no) /\ no' = no /\ (AfterPoll' <=> AfterPoll)
      /\ Polling /\ Polling'
  BY ReaderAssumption DEF SendPoll, Ready, GoodBus, no, AfterPoll, Polling
<1>2. /\ TypeOK /\ BusKept /\ Company /\ bus.readers \subseteq Readers
      /\ Settled /\ RobbedOnce /\ Channel /\ IInv
      /\ Rest \in Seq(Frames) /\ Len(Rest) \in Nat
  BY ReadyIs DEF Ready
<1>3. /\ Settled' /\ Fresh'
      /\ \A s \in Readers : /\ count(s)' = count(s) /\ Pending(s)' = Pending(s)
                            /\ held'[s] = held[s] /\ F1(s)' = F1(s) /\ F2(s)' = F2(s)
                            /\ (Meek(s)' <=> Meek(s)) /\ (Wrong(s)' <=> Wrong(s))
      /\ \A s, t \in bus.readers : Sooner(t, s)' <=> Sooner(t, s)
  BY <1>1, PollFacts
<1>4. PICK r \in bus.readers : r = no /\ Poll(r)
  BY <1>1, <1>2 DEF Channel
<1> DEFINE m == Reply(r)
           f0 == Frame(r, "none", NoCard, count(r))
<1>5. /\ m \in Seq(Frames) /\ r \in Readers
      /\ \A i \in 1 .. Len(m) : m[i].from = r
      /\ held[r] => m = <<F1(r), F2(r)>>
      /\ ~held[r] => m = <<f0>>
  <2>1. r \in Readers
    BY <1>2
  <2> QED BY <1>2, <2>1, ReplyIs DEF Reply, F1, F2
<1>6. Rest' = Rest \o m
  BY <1>1, <1>2, <1>4, <1>5, RestSend
<1> HIDE DEF m
<1>7. /\ Len(Rest') = Len(Rest) + Len(m)
      /\ \A i \in 1 .. Len(Rest) : Rest'[i] = Rest[i]
      /\ \A i \in 1 .. Len(m) : Rest'[Len(Rest) + i] = m[i]
  <2> DEFINE q == Rest
  <2> HIDE DEF q
  <2>1. q \in Seq(Frames) /\ m \in Seq(Frames) /\ Len(q) \in Nat /\ Len(m) \in Nat
    BY <1>2, <1>5, LenProperties DEF q
  <2>2. /\ Len(q \o m) = Len(q) + Len(m)
        /\ \A i \in 1 .. Len(q) + Len(m) :
             (q \o m)[i] = IF i <= Len(q) THEN q[i] ELSE m[i - Len(q)]
    BY <2>1, ConcatProperties
  <2>3. \A i \in 1 .. Len(q) : i \in 1 .. Len(q) + Len(m) /\ i <= Len(q)
    BY <2>1
  <2>4. \A i \in 1 .. Len(m) : /\ Len(q) + i \in 1 .. Len(q) + Len(m) /\ ~(Len(q) + i <= Len(q))
                               /\ (Len(q) + i) - Len(q) = i
    BY <2>1
  <2>5. Rest' = q \o m
    BY <1>6 DEF q
  <2> QED BY <2>2, <2>3, <2>4, <2>5 DEF q
<1>8. \A n : Leftovers(n) /\ n \in 0 .. Len(Rest) => Leftovers(n)'
  <2> SUFFICES ASSUME NEW n \in 0 .. Len(Rest), Leftovers(n) PROVE Leftovers(n)'
    OBVIOUS
  <2>1. \A i \in 1 .. n : i \in 1 .. Len(Rest) /\ Rest'[i] = Rest[i]
    BY <1>2, <1>7
  <2> QED BY <1>2, <1>3, <2>1, LeftoversKept
<1>9. ASSUME attempt = 1 PROVE Poll(r)'
  <2>1. OnlyLeftovers
    BY <1>1, <1>4, <1>9, PollIs
  <2>0. PICK k \in 0 .. 2 : k = Len(Rest) /\ Leftovers(k)
    <3>1. Len(Rest) \in 0 .. 2 /\ Leftovers(Len(Rest))
      <4>1. Leftovers(Len(Rest))
        BY <2>1 DEF OnlyLeftovers
      <4>2. Len(Rest) \in Nat /\ Len(Rest) <= 2
        BY <1>2, <2>1 DEF OnlyLeftovers
      <4>3. \A n \in Nat : n <= 2 => n \in 0 .. 2
        OBVIOUS
      <4>4. Len(Rest) \in 0 .. 2
        BY <4>2, <4>3, Zenon
      <4> QED BY <4>1, <4>4
    <3> QED BY <3>1, Zenon
  <2>2. Leftovers(k)'
    BY <1>8, <2>0
  <2>3. ASSUME held[r] PROVE Whole(r, k)'
    <3>1. /\ Len(m) = 2 /\ m[1] = F1(r) /\ m[2] = F2(r)
      BY <1>5, <2>3
    <3>2. /\ Len(Rest') = k + 2 /\ Rest'[k + 1] = F1(r)
          /\ Rest'[k + 2] = F2(r)
      BY <1>7, <2>0, <3>1
    <3>3. Whole(r, k)'
      BY <1>3, <1>5, <2>3, <3>2 DEF Whole
    <3> QED BY <3>3
  <2>4. ASSUME ~held[r] PROVE Nothing(r, k)'
    <3>1. Len(m) = 1 /\ m[1] = f0
      BY <1>5, <2>4
    <3>2. Len(Rest') = k + 1 /\ Rest'[k + 1] = f0
      BY <1>7, <2>0, <3>1
    <3>3. ~Wrong(r)'
      BY <1>3, <1>5, <2>4 DEF Wrong
    <3>4. Nothing(r, k)'
      BY <3>2, <3>3 DEF Nothing, Frame
    <3> QED BY <3>4
  <2>5. Waiting(r, k)'
    <3>1. k < over'
      BY <1>1
    <3> QED BY <2>2, <2>3, <2>4, <3>1 DEF Waiting
  <2> QED BY <1>1, <1>9, <2>5 DEF Poll
<1>10. ASSUME attempt # 1 PROVE Poll(r)'
  <2>1. Begun(r, "pull") /\ Rest = <<F2(r)>>
    BY <1>1, <1>4, <1>10, PollIs
  <2>2. m = <<F1(r), F2(r)>>
    BY <1>5, <2>1 DEF Begun
  <2>3. Rest' = <<F2(r), F1(r), F2(r)>>
    BY <1>6, <2>1, <2>2, OneAndTwo
  <2>4. Begun(r, "pull")'
    BY <1>1, <1>3, <1>5, <2>1 DEF Begun
  <2> QED BY <1>1, <1>3, <1>5, <1>10, <2>3, <2>4 DEF Poll
<1>11. Channel'
  <2>1. Polling' /\ no' = no
    BY <1>1
  <2> QED BY <1>4, <1>9, <1>10, <2>1 DEF Channel
<1>12. RobbedOnce'
  <2> SUFFICES ASSUME NEW q \in bus.readers, NEW s \in bus.readers, Wrong(s)', NextTo(q, s)
               PROVE  Spared(q, s)'
    BY DEF RobbedOnce, NextTo
  <2>1. Wrong(s) /\ Spared(q, s) /\ (Sooner(q, s) <=> s # r) /\ (Sooner(q, s)' <=> Sooner(q, s))
    BY <1>1, <1>2, <1>3, <1>4, PollOrder DEF RobbedOnce
  <2>2. CASE s # r
    BY <1>2, <1>3, <2>1, <2>2 DEF Spared
  <2>3. CASE s = r
    <3>1. \A i \in 1 .. Len(Rest) : Rest[i].from = r
      BY <1>1, <2>1, <2>3 DEF Spared
    <3>2. \A i \in 1 .. Len(Rest') : Rest'[i].from = r
      <4> SUFFICES ASSUME NEW i \in 1 .. Len(Rest') PROVE Rest'[i].from = r
        OBVIOUS
      <4>1. Len(m) \in Nat
        BY <1>5, LenProperties
      <4>2. CASE i \in 1 .. Len(Rest)
        BY <1>7, <3>1, <4>2
      <4>3. CASE i \notin 1 .. Len(Rest)
        <5>1. PICK j \in 1 .. Len(m) : i = Len(Rest) + j
          <6>1. i - Len(Rest) \in 1 .. Len(m) /\ i = Len(Rest) + (i - Len(Rest))
            BY <1>2, <1>7, <4>1, <4>3
          <6> QED BY <6>1
        <5> QED BY <1>5, <1>7, <5>1
      <4> QED BY <4>2, <4>3
    <3> QED BY <1>1, <2>1, <2>3, <3>2 DEF Spared
  <2> QED BY <2>2, <2>3
<1> QED BY <1>3, <1>11, <1>12 DEF TwiceInv

-----------------------------------------------------------------------------
(* The receive loops                                                       *)

LEMMA ShortSeq ==
  ASSUME NEW q \in Seq(Frames)
  PROVE  /\ Len(q) = 0 => q = <<>>
         /\ Len(q) = 1 => q = <<q[1]>>
         /\ Len(q) = 2 => q = <<q[1], q[2]>>
<1>1. Len(q) = 0 => q = <<>>
  BY EmptySeq
<1>2. ASSUME Len(q) = 1 PROVE q = <<q[1]>>
  <2>1. q[1] \in Frames
    BY <1>2, ElementOfSeq
  <2>2. <<q[1]>> \in Seq(Frames) /\ Len(<<q[1]>>) = 1 /\ <<q[1]>>[1] = q[1]
    BY <2>1
  <2>3. \A i \in 1 .. 1 : i = 1
    OBVIOUS
  <2> DEFINE p == <<q[1]>>
  <2> HIDE DEF p
  <2>4. p \in Seq(Frames) /\ Len(p) = Len(q) /\ \A i \in 1 .. Len(q) : q[i] = p[i]
    BY <1>2, <2>2, <2>3 DEF p
  <2>5. q = p
    BY <2>4, SeqEqual
  <2> QED BY <2>5 DEF p
<1>3. ASSUME Len(q) = 2 PROVE q = <<q[1], q[2]>>
  <2>1. q[1] \in Frames /\ q[2] \in Frames
    <3>1. 1 \in 1 .. Len(q) /\ 2 \in 1 .. Len(q)
      BY <1>3
    <3> QED BY <3>1, ElementOfSeq
  <2> DEFINE p == <<q[1], q[2]>>
  <2>2. p \in Seq(Frames) /\ Len(p) = 2 /\ p[1] = q[1] /\ p[2] = q[2]
    BY <2>1
  <2>3. \A i \in 1 .. 2 : i = 1 \/ i = 2
    OBVIOUS
  <2> HIDE DEF p
  <2>4. Len(p) = Len(q) /\ \A i \in 1 .. Len(q) : q[i] = p[i]
    BY <1>3, <2>2, <2>3
  <2>5. q = p
    BY <2>2, <2>4, SeqEqual
  <2> QED BY <2>5 DEF p
<1> QED BY <1>1, <1>2, <1>3

(* In both loops some frame is there to be taken.                          *)
LEMMA WaitTakes ==
  ASSUME Ready, Wait1 \/ Wait2
  PROVE  /\ fifo # <<>> /\ fifo' = Tail(fifo) /\ Head(fifo) = Rest[1]
         /\ Rest' \in Seq(Frames) /\ Popped(Rest', Rest)
         /\ Polling /\ pc \in {"wait1", "wait2"} /\ no' = no
         /\ UNCHANGED <<readerVars, wire, Led_TaskCount, reported, again>>
<1>1. /\ TypeOK /\ GoodBus /\ pc \in {"wait1", "wait2"} /\ Polling
      /\ UNCHANGED <<readerVars, wire, Led_TaskCount, reported, again>> /\ no' = no
  BY ReadyIs DEF Ready, Wait1, Wait2, Polling, no
<1>2. /\ fifo \in Seq(Frames) /\ wire \in Seq(Frames) /\ Len(Rest) = Len(fifo) + Len(wire)
  BY <1>1, RestIs
<1>3. Len(Rest) > 0
  <2>1. PICK r \in bus.readers : Poll(r)
    BY <1>1, ReadyIs
  <2>2. CASE pc = "wait1" /\ attempt = 1
    <3>1. PICK k \in 0 .. 2 : Nothing(r, k) \/ Whole(r, k) \/ Cut(r, k)
      BY <1>1, <2>1, <2>2, PollIs DEF Waiting
    <3>2. Len(Rest) = k + 1 \/ Len(Rest) = k + 2
      BY <3>1 DEF Nothing, Whole, Cut
    <3> QED BY <3>2
  <2>3. CASE ~(pc = "wait1" /\ attempt = 1)
    <3>1. Rest = <<F2(r), F1(r), F2(r)>> \/ Rest = <<F2(r)>>
      BY <1>1, <2>1, <2>3, PollIs
    <3>2. Len(<<F2(r)>>) = 1 /\ Len(<<F2(r), F1(r), F2(r)>>) = 3
      OBVIOUS
    <3>3. CASE Rest = <<F2(r), F1(r), F2(r)>>
      <4>1. Len(Rest) = 3
        BY <3>2, <3>3
      <4> QED BY <4>1
    <3>4. CASE Rest = <<F2(r)>>
      <4>1. Len(Rest) = 1
        BY <3>2, <3>4
      <4> QED BY <4>1
    <3> QED BY <3>1, <3>3, <3>4
  <2> QED BY <2>2, <2>3
<1>4. fifo # <<>>
  <2> SUFFICES ASSUME fifo = <<>> PROVE FALSE
    OBVIOUS
  <2>1. wire = <<>>
    BY <1>1 DEF Wait1, Wait2, Try, GoodBus
  <2>2. Len(<<>>) = 0
    BY EmptySeq
  <2> QED BY <1>2, <1>3, <2>1, <2>2
<1>5. fifo' = Tail(fifo)
  BY <1>4 DEF Wait1, Wait2
<1> QED BY <1>1, <1>4, <1>5, RestPop

LEMMA StoredIs ==
  ASSUME TypeOK, pc \in {"wait1", "wait2"}, NEW n \in Amounts, Stored(n)
  PROVE  /\ pc' = "ack" /\ attempt' = attempt
         /\ \A m \in Rows : m # no => row'[m] = row[m]
         /\ row'[no].used = row[no].used /\ row'[no].lost = row[no].lost
         /\ row'[no].bits = row[no].bits \cup EventFlag
         /\ row'[no].card = TempBuff.card /\ row'[no].amt = n
<1> DEFINE w == [row[no] EXCEPT !.bits = @ \cup EventFlag, !.card = TempBuff.card, !.amt = n]
<1>1. no \in Rows /\ row[no] \in RowType /\ row \in [Rows -> RowType]
  BY PolledRow, RowsAre
<1>2. row' = [row EXCEPT ![no] = w] /\ pc' = "ack" /\ attempt' = attempt
  BY DEF Stored
<1>3. /\ w.used = row[no].used /\ w.lost = row[no].lost
      /\ w.bits = row[no].bits \cup EventFlag /\ w.card = TempBuff.card /\ w.amt = n
  BY <1>1 DEF RowType
<1> HIDE DEF w
<1>4. row'[no] = w /\ \A m \in Rows : m # no => row'[m] = row[m]
  BY <1>1, <1>2
<1> QED BY <1>2, <1>3, <1>4

LEMMA NothingIs ==
  ASSUME TypeOK, pc \in {"wait1", "wait2"}, NothingThere
  PROVE  /\ pc' = "forward" /\ attempt' = attempt
         /\ \A m \in Rows : m # no => row'[m] = row[m]
         /\ row'[no].used = row[no].used /\ ~row'[no].lost /\ row'[no].bits = {}
         /\ row'[no].card = row[no].card /\ row'[no].amt = row[no].amt
<1> DEFINE w == [row[no] EXCEPT !.lost = FALSE, !.bits = {}]
<1>1. no \in Rows /\ row[no] \in RowType /\ row \in [Rows -> RowType]
  BY PolledRow, RowsAre
<1>2. row' = [row EXCEPT ![no] = w] /\ pc' = "forward" /\ attempt' = attempt
  BY DEF NothingThere
<1>3. /\ w.used = row[no].used /\ ~w.lost /\ w.bits = {}
      /\ w.card = row[no].card /\ w.amt = row[no].amt
  BY <1>1 DEF RowType
<1> HIDE DEF w
<1>4. row'[no] = w /\ \A m \in Rows : m # no => row'[m] = row[m]
  BY <1>1, <1>2
<1> QED BY <1>2, <1>3, <1>4

(* The second frame was taken: the row holds the pending event, or its     *)
(* number with the data of another one.                                    *)
LEMMA TwiceStored ==
  ASSUME Ready, bus' = bus, NEW r \in bus.readers, r = no, pc \in {"wait1", "wait2"},
         Stored(count(r)), TempBuff' = TempBuff, held[r],
         UNCHANGED <<readerVars, Led_TaskCount, reported, again>>,
         \/ TempBuff = Pending(r)
         \/ row[r].amt < count(r) /\ \A q \in bus.readers : NextTo(q, r) => Meek(q),
         Rest' = <<>> \/ (Begun(r, "pull") /\ Rest' = <<F1(r), F2(r)>>)
  PROVE  TwiceInv'
<1>0. /\ TypeOK /\ BusKept /\ Company /\ bus.readers \subseteq Readers /\ r \in Rows /\ r \in Readers
      /\ Settled /\ Fresh /\ RobbedOnce /\ IInv
      /\ \A s \in Readers : row[s].amt \in Nat /\ count(s) \in Nat /\ row[s].amt <= count(s) /\ s \in Rows
      /\ Pending(r) \in [kind : Kinds, card : Cards]
      /\ TempBuff \in [kind : Kinds \cup {"junk"}, card : Cards \cup {NoCard}]
      /\ Polling /\ Forwarded(r) /\ row[r].bits \in SUBSET Kinds
  BY ReadyIs, RowsAre DEF Ready, Polling
<1>1. count(r) \in Amounts
  BY <1>0 DEF IInv, Flow, Counts
<1>2. /\ pc' = "ack" /\ attempt' = attempt /\ no' = no
      /\ \A m \in Rows : m # r => row'[m] = row[m]
      /\ row'[r].used = row[r].used /\ row'[r].lost = row[r].lost
      /\ row'[r].bits = row[r].bits \cup EventFlag
      /\ row'[r].card = TempBuff.card /\ row'[r].amt = count(r)
  BY <1>0, <1>1, StoredIs DEF no
<1>3. row[r].bits = {} /\ row'[r].bits = {TempBuff.kind} \cap Kinds
  <2>1. ~Fetched(r)
    BY ReadyIs DEF Fetched, no
  <2>2. row[r].bits = {}
    BY <1>0, <2>1 DEF Ready, BitsWhen
  <2> QED BY <1>2, <2>2 DEF EventFlag
<1>4. /\ \A s \in Readers : /\ count(s)' = count(s) /\ Pending(s)' = Pending(s)
                            /\ held'[s] = held[s] /\ F1(s)' = F1(s) /\ F2(s)' = F2(s)
                            /\ (Meek(s)' <=> Meek(s))
      /\ \A s, t \in bus.readers : Sooner(t, s)' <=> Sooner(t, s)
  <2>1. AfterPoll' <=> AfterPoll
    BY <1>2 DEF AfterPoll
  <2>2. \A s, t \in bus.readers : Sooner(t, s)' <=> Sooner(t, s)
    BY <1>2, <2>1 DEF Sooner, Gone
  <2> QED BY <2>2, ReadersKept
<1>5. Settled'
  BY <1>0, <1>2, <1>4 DEF Settled, Rows, readerVars
<1>6. Channel'
  <2>1. Poll(r)'
    <3>1. Begun(r, "pull") => Begun(r, "pull")'
      BY <1>0, <1>4 DEF Begun
    <3> QED BY <1>0, <1>2, <1>4, <3>1 DEF Poll
  <2> QED BY <1>2, <2>1 DEF Channel, Polling
<1>7. RobbedOnce'
  <2> SUFFICES ASSUME NEW q \in bus.readers, NEW s \in bus.readers, Wrong(s)', NextTo(q, s)
               PROVE  Spared(q, s)'
    BY DEF RobbedOnce, NextTo
  <2>1. Sooner(q, s) <=> s # r
    BY <1>0, PollOrder
  <2>2. CASE s = r
    <3>1. TempBuff # Pending(r)
      BY <1>0, <1>2, <1>4, <2>2 DEF Wrong
    <3>2. Meek(q)'
      BY <1>0, <1>4, <2>2, <3>1
    <3> QED BY <1>2, <2>2, <3>2 DEF Spared
  <2>3. CASE s # r
    <3>1. Wrong(s)
      BY <1>0, <1>2, <1>4, <2>3 DEF Wrong
    <3>2. Meek(q)
      BY <1>0, <2>1, <2>3, <3>1 DEF RobbedOnce, Spared
    <3> QED BY <1>0, <1>4, <2>1, <2>3, <3>2 DEF Spared
  <2> QED BY <2>2, <2>3
<1>8. Fresh'
  <2>1. ~again'
    BY <1>0 DEF Fresh
  <2>2. ASSUME NEW n \in Rows, row'[n].bits # {}
        PROVE  ~Repeats(Entry(n))'
    <3>1. CASE n # r
      BY <1>0, <1>2, <2>2, <3>1, RepeatsKept DEF Fresh, readerVars
    <3>2. CASE n = r
      <4> DEFINE x == Entry(r)'
      <4>1. x.no = r /\ x.amt = count(r) /\ x.bits = {TempBuff.kind} /\ x.card = TempBuff.card
        BY <1>0, <1>2, <1>3, <2>2, <3>2 DEF Entry
      <4>2. \A f : Right(f)' <=> Right(f)
        BY RepeatsKept DEF readerVars
      <4> SUFFICES ASSUME NEW f \in reported, f.no = r, f.amt = count(r)
                   PROVE  ~Right(f) /\ Right(x)
        BY <3>2, <4>1, <4>2 DEF Repeats
      <4>3. CASE TempBuff = Pending(r)
        <5>1. count(r) \in Nat \ {0}
          BY <1>0 DEF IInv
        <5>2. OfPending(x, r)
          BY <4>1, <4>3 DEF OfPending
        <5>3. ~OfPending(f, r)
          BY <1>0 DEF Fresh, Unsaid
        <5> HIDE DEF x
        <5> QED BY <1>0, <4>1, <5>1, <5>2, <5>3, RightIs
      <4>4. CASE row[r].amt < count(r)
        BY <1>0, <4>4 DEF Fresh
      <4> QED BY <4>3, <4>4
    <3> QED BY <3>1, <3>2
  <2>3. ASSUME NEW e \in reported', e.no \in Readers
        PROVE  e.amt <= row'[e.no].amt
    <3>1. e \in reported /\ e.amt <= row[e.no].amt
      BY <1>0, <2>3 DEF Fresh
    <3>2. CASE e.no # r
      BY <1>0, <1>2, <2>3, <3>1, <3>2
    <3>3. CASE e.no = r
      <4>1. e.amt \in Nat
        BY <1>0, <3>1, ReaderAssumption DEF TypeOK, Amounts
      <4> QED BY <1>0, <1>2, <3>1, <3>3, <4>1
    <3> QED BY <3>2, <3>3
  <2>4. ASSUME NEW s \in bus.readers, held'[s]
        PROVE  Unsaid(s)'
    <3>1. held[s] /\ Unsaid(s) /\ count(s)' = count(s) /\ Pending(s)' = Pending(s)
      BY <1>0, <1>4, <2>4 DEF Fresh
    <3>2. CASE s = r
      BY <1>2, <3>1, <3>2 DEF Unsaid, OfPending
    <3>3. CASE s # r
      BY <1>0, <1>2, <3>1, <3>3 DEF Unsaid, OfPending, Entry
    <3> QED BY <3>2, <3>3
  <2> QED BY <2>1, <2>2, <2>3, <2>4 DEF Fresh, Rows
<1> QED BY <1>5, <1>6, <1>7, <1>8 DEF TwiceInv

(* A frame was taken and the poll goes on.                                 *)
LEMMA TwiceGoesOn ==
  ASSUME Ready, bus' = bus, NEW r \in bus.readers, r = no, pc \in {"wait1", "wait2"},
         pc' \in {"send", "wait1", "wait2"}, Popped(Rest', Rest), Poll(r)',
         UNCHANGED <<readerVars, Led_TaskCount, row, reported, again>>
  PROVE  TwiceInv'
<1>1. /\ Settled' /\ Fresh' /\ no' = no
      /\ \A s \in Readers : (Meek(s)' <=> Meek(s)) /\ (Wrong(s)' <=> Wrong(s))
      /\ \A s, t \in bus.readers : Sooner(t, s)' <=> Sooner(t, s)
  BY PollFacts DEF AfterPoll
<1>2. bus.readers \subseteq Readers /\ RobbedOnce /\ Len(Rest) \in Nat
  BY ReadyIs
<1>3. \A i \in 1 .. Len(Rest') : \E m \in 1 .. Len(Rest) : Rest'[i].from = Rest[m].from
  BY <1>2 DEF Popped
<1>4. RobbedOnce'
  BY <1>1, <1>2, <1>3, RobbedKept
<1>5. Channel'
  BY <1>1 DEF Channel, Polling
<1> QED BY <1>1, <1>4, <1>5 DEF TwiceInv

(* The reader had nothing to report.                                       *)
LEMMA TwiceNothing ==
  ASSUME Ready, bus' = bus, NEW r \in bus.readers, r = no, pc \in {"wait1", "wait2"},
         NothingThere, Rest' = <<>>, ~Wrong(r), TempBuff' = TempBuff,
         UNCHANGED <<readerVars, Led_TaskCount, reported, again>>
  PROVE  TwiceInv'
<1>0. /\ TypeOK /\ BusKept /\ Company /\ bus.readers \subseteq Readers /\ r \in Rows /\ r \in Readers
      /\ Settled /\ Fresh /\ RobbedOnce /\ Polling
      /\ \A s \in Readers : s \in Rows
  BY ReadyIs DEF Ready, Polling
<1>1. /\ pc' = "forward" /\ no' = no
      /\ \A m \in Rows : m # r => row'[m] = row[m]
      /\ row'[r].used = row[r].used /\ ~row'[r].lost /\ row'[r].bits = {}
      /\ row'[r].card = row[r].card /\ row'[r].amt = row[r].amt
  BY <1>0, NothingIs DEF no
<1>2. \A s \in Readers : row'[s].amt = row[s].amt
  BY <1>0, <1>1
<1>3. \A s \in Readers : /\ count(s)' = count(s) /\ Pending(s)' = Pending(s)
                         /\ held'[s] = held[s] /\ (Meek(s)' <=> Meek(s)) /\ (Wrong(s)' => Wrong(s))
  BY <1>2, ReadersKept, WrongKept
<1>4. Settled'
  BY <1>0, <1>1, <1>3 DEF Settled, Rows, readerVars
<1>5. Channel'
  <2>1. Len(<<>>) = 0 /\ \A i \in 1 .. 0 : FALSE
    BY EmptySeq
  <2>2. OnlyLeftovers'
    BY <2>1 DEF OnlyLeftovers, Leftovers
  <2> QED BY <1>1, <2>2 DEF Channel, Polling
<1>6. RobbedOnce'
  <2> SUFFICES ASSUME NEW q \in bus.readers, NEW s \in bus.readers, Wrong(s)', NextTo(q, s)
               PROVE  Spared(q, s)'
    BY DEF RobbedOnce, NextTo
  <2>1. Wrong(s) /\ s # r /\ Sooner(q, s)
    BY <1>0, <1>3, PollOrder
  <2>2. Meek(q)'
    BY <1>0, <1>3, <2>1 DEF RobbedOnce, Spared
  <2>3. \A i \in 1 .. Len(Rest') : Rest'[i].from = s
    BY EmptySeq
  <2> QED BY <2>2, <2>3 DEF Spared
<1>7. Fresh'
  <2>1. ~again'
    BY <1>0 DEF Fresh
  <2>2. \A n \in Rows : row'[n].bits # {} => ~Repeats(Entry(n))'
    BY <1>0, <1>1, RepeatsKept DEF Fresh, readerVars
  <2>3. \A e \in reported' : e.no \in Readers => e.amt <= row'[e.no].amt
    BY <1>0, <1>2 DEF Fresh
  <2>4. ASSUME NEW s \in bus.readers, held'[s]
        PROVE  Unsaid(s)'
    <3>1. held[s] /\ Unsaid(s) /\ count(s)' = count(s) /\ Pending(s)' = Pending(s)
      BY <1>0, <1>3, <2>4 DEF Fresh
    <3>2. CASE s = r
      BY <1>1, <3>1, <3>2 DEF Unsaid, OfPending, Entry
    <3>3. CASE s # r
      <4>1. Entry(s)' = Entry(s) /\ pc # "ack"
        BY <1>0, <1>1, <3>3 DEF Entry
      <4> QED BY <3>1, <4>1 DEF Unsaid, OfPending
    <3> QED BY <3>2, <3>3
  <2> QED BY <2>1, <2>2, <2>3, <2>4 DEF Fresh, Rows
<1> QED BY <1>4, <1>5, <1>6, <1>7 DEF TwiceInv

(* What the frames of an event are.                                        *)
LEMMA EventFrames ==
  ASSUME NEW r \in Readers, Pending(r) \in [kind : Kinds, card : Cards]
  PROVE  /\ F1(r).from = r /\ F2(r).from = r /\ F2(r).amt = count(r)
         /\ F1(r).card = Pending(r).card
         /\ Pending(r).kind = "ins" => F1(r).kind = "ins1" /\ F2(r).kind = "ins2"
         /\ Pending(r).kind = "pull" => F1(r).kind = "pull1" /\ F2(r).kind = "pull2"
         /\ Pending(r).kind \in {"ins", "pull"}
         /\ Pending(r) = [kind |-> Pending(r).kind, card |-> Pending(r).card]
BY DEF F1, F2, Frame, First, Second, Kinds

(* A left over frame is thrown away, a try is spent.                       *)
LEMMA TwiceSkip ==
  ASSUME Ready, bus' = bus, Wait1, NEW r \in bus.readers, r = no, attempt = 1,
         NEW k \in 1 .. 2, Waiting(r, k)
  PROVE  TwiceInv'
<1>0. /\ TypeOK /\ BusKept /\ Company /\ bus.readers \subseteq Readers
      /\ Settled /\ Len(Rest) \in Nat /\ k \in Nat /\ k > 0 /\ pc = "wait1"
  BY ReadyIs DEF Ready, Wait1
<1>1. /\ fifo # <<>> /\ Head(fifo) = Rest[1] /\ Popped(Rest', Rest) /\ Polling
      /\ UNCHANGED <<readerVars, Led_TaskCount, reported, again>>
  BY WaitTakes
<1>2. PICK q \in bus.readers : q = Rest[1].from /\ LastPolled(q)
  <2>1. 1 \in 1 .. k
    BY <1>0
  <2> QED BY <2>1 DEF Waiting, Leftovers
<1>3. q # no
  BY <1>0, <1>1, <1>2, PollOrder DEF NextTo
<1>4. Try(fifo)
  BY <1>1, <1>2, <1>3 DEF Wait1
<1>5. over \in Nat /\ over > 1 /\ k < over
  BY <1>0, ReaderAssumption DEF Waiting, TypeOK
<1>6. over' = over - 1 /\ UNCHANGED <<pc, attempt, row, TempBuff>>
  BY <1>4, <1>5 DEF Try
<1>7. /\ \A s \in Readers : /\ count(s)' = count(s) /\ held'[s] = held[s]
                            /\ F1(s)' = F1(s) /\ F2(s)' = F2(s)
                            /\ (Meek(s)' <=> Meek(s)) /\ (Wrong(s)' <=> Wrong(s))
      /\ \A s, t \in bus.readers : Sooner(t, s)' <=> Sooner(t, s)
  BY <1>0, <1>1, <1>6, PollFacts DEF AfterPoll
<1>8. PICK j \in 0 .. 1 : k = j + 1
  <2>1. k - 1 \in 0 .. 1 /\ k = (k - 1) + 1
    OBVIOUS
  <2> QED BY <2>1
<1>9. Len(Rest) = k + 1 \/ Len(Rest) = k + 2
  BY DEF Waiting, Nothing, Whole, Cut
<1>10. Leftovers(j)'
  <2>1. \A i \in 1 .. j : i \in 1 .. Len(Rest') /\ i + 1 \in 1 .. k
    BY <1>1, <1>8, <1>9 DEF Popped
  <2>2. \A i \in 1 .. j : \E m \in 1 .. k : Rest'[i].from = Rest[m].from
    BY <1>1, <2>1 DEF Popped
  <2> QED BY <1>0, <1>7, <2>2, LeftoversKept DEF Waiting
<1>11. Nothing(r, j)' \/ Whole(r, j)' \/ Cut(r, j)'
  <2>0. r \in Readers
    BY <1>0
  <2>1. CASE Nothing(r, k)
    <3>1. Len(Rest') = j + 1 /\ Rest'[j + 1] = Rest[k + 1]
      BY <1>1, <1>8, <2>1 DEF Popped, Nothing
    <3> QED BY <1>7, <2>0, <2>1, <3>1 DEF Nothing
  <2>2. CASE Whole(r, k)
    <3>1. Len(Rest') = j + 2 /\ Rest'[j + 1] = Rest[k + 1] /\ Rest'[j + 2] = Rest[k + 2]
      BY <1>1, <1>8, <2>2 DEF Popped, Whole
    <3> QED BY <1>7, <2>0, <2>2, <3>1 DEF Whole
  <2>3. CASE Cut(r, k)
    <3>0. Len(Rest) = k + 1
      BY <2>3 DEF Cut
    <3>1. Len(Rest') = j + 1 /\ Rest'[j + 1] = Rest[k + 1]
      BY <1>1, <1>8, <3>0 DEF Popped
    <3> QED BY <1>0, <1>6, <1>7, <2>0, <2>3, <3>1 DEF Cut, NextTo
  <2> QED BY <2>1, <2>2, <2>3 DEF Waiting
<1>12. Poll(r)'
  <2>1. j < over' /\ j \in 0 .. 2
    BY <1>5, <1>6, <1>8
  <2>2. Waiting(r, j)'
    BY <1>10, <1>11, <2>1 DEF Waiting
  <2> QED BY <1>0, <1>6, <2>1, <2>2 DEF Poll
<1> QED BY <1>0, <1>1, <1>6, <1>12, TwiceGoesOn

(* The first loop.                                                         *)
LEMMA TwiceWait1 ==
  ASSUME Ready, bus' = bus, Wait1
  PROVE  TwiceInv'
<1>0. /\ pc = "wait1" /\ Polling /\ Settled
      /\ \A s \in Readers : held[s] => Pending(s) \in [kind : Kinds, card : Cards]
      /\ bus.readers \subseteq Readers /\ Len(Rest) \in Nat /\ Rest \in Seq(Frames)
      /\ TypeOK
  BY ReadyIs DEF Wait1, Polling
<1>1. PICK r \in bus.readers : r = no /\ Poll(r)
  BY <1>0, ReadyIs DEF Channel
<1>2. /\ fifo # <<>> /\ Head(fifo) = Rest[1] /\ Rest' \in Seq(Frames) /\ Popped(Rest', Rest)
      /\ UNCHANGED <<readerVars, Led_TaskCount, reported, again>>
  BY WaitTakes
<1> DEFINE f == Rest[1]
<1>3. f.from = r =>
        \/ /\ f.kind = "none"
           /\ NothingThere
           /\ UNCHANGED <<TempBuff, over, stale>>
        \/ /\ f.kind = "ins1"
           /\ TempBuff' = [kind |-> "ins", card |-> f.card]
           /\ pc' = "wait2"
           /\ UNCHANGED <<attempt, row>>
        \/ /\ f.kind = "pull1"
           /\ TempBuff' = [kind |-> "pull", card |-> f.card]
           /\ Failed
        \/ /\ f.kind \in {"ins2", "pull2"}
           /\ Stored(f.amt)
           /\ UNCHANGED TempBuff
  BY <1>1, <1>2 DEF Wait1
<1> HIDE DEF f
<1>4. ASSUME held[r]
      PROVE  /\ F1(r).from = r /\ F2(r).from = r /\ F2(r).amt = count(r)
             /\ F1(r).card = Pending(r).card
             /\ Pending(r).kind = "ins" => F1(r).kind = "ins1" /\ F2(r).kind = "ins2"
             /\ Pending(r).kind = "pull" => F1(r).kind = "pull1" /\ F2(r).kind = "pull2"
             /\ Pending(r).kind \in {"ins", "pull"}
             /\ Pending(r) = [kind |-> Pending(r).kind, card |-> Pending(r).card]
  <2>1. r \in Readers /\ Pending(r) \in [kind : Kinds, card : Cards]
    BY <1>0, <1>4
  <2> QED BY <2>1, EventFrames
<1>5. \A s \in Readers : /\ count(s)' = count(s) /\ Pending(s)' = Pending(s)
                         /\ held'[s] = held[s] /\ F1(s)' = F1(s) /\ F2(s)' = F2(s)
  BY <1>2, ReadersKept
<1>6. ASSUME NEW k \in 0 .. 2, Waiting(r, k), attempt = 1
      PROVE  TwiceInv'
  <2>1. CASE k > 0
    <3>1. k \in 1 .. 2
      BY <2>1
    <3> QED BY <1>1, <1>6, <3>1, TwiceSkip
  <2>2. CASE k = 0 /\ Nothing(r, k)
    <3>1. Len(Rest) = 1 /\ f.from = r /\ f.kind = "none" /\ ~Wrong(r)
      BY <2>2 DEF Nothing, f
    <3>2. NothingThere /\ TempBuff' = TempBuff
      BY <1>3, <3>1
    <3>3. Rest' = <<>>
      BY <1>2, <3>1, ShortSeq DEF Popped
    <3> QED BY <1>0, <1>1, <1>2, <3>1, <3>2, <3>3, TwiceNothing
  <2>3. CASE k = 0 /\ Whole(r, k)
    <3>1. held[r] /\ Len(Rest) = 2 /\ f = F1(r) /\ Rest[2] = F2(r)
      BY <2>3 DEF Whole, f
    <3>2. Rest' = <<F2(r)>>
      <4>1. Len(Rest') = 1 /\ Rest'[1] = F2(r)
        BY <1>2, <3>1 DEF Popped
      <4> QED BY <1>2, <4>1, ShortSeq
    <3>3. CASE Pending(r).kind = "ins"
      <4>1. /\ TempBuff' = Pending(r) /\ pc' = "wait2" /\ UNCHANGED <<attempt, row>>
        BY <1>3, <1>4, <3>1, <3>3
      <4>2. Begun(r, "ins")'
        BY <1>0, <1>5, <3>1, <3>3, <4>1 DEF Begun
      <4>3. Poll(r)'
        BY <1>0, <1>5, <3>2, <4>1, <4>2 DEF Poll
      <4> QED BY <1>0, <1>1, <1>2, <4>1, <4>3, TwiceGoesOn
    <3>4. CASE Pending(r).kind = "pull"
      <4>1. TempBuff' = Pending(r) /\ Failed
        BY <1>3, <1>4, <3>1, <3>4
      <4>2. pc' = "send" /\ attempt' = 2 /\ row' = row
        BY <1>6, <4>1 DEF Failed
      <4>3. Begun(r, "pull")'
        BY <1>0, <1>5, <3>1, <3>4, <4>1 DEF Begun
      <4>4. Poll(r)'
        BY <1>0, <1>5, <3>2, <4>2, <4>3 DEF Poll
      <4> QED BY <1>0, <1>1, <1>2, <4>2, <4>4, TwiceGoesOn
    <3> QED BY <1>4, <3>1, <3>3, <3>4
  <2>4. CASE k = 0 /\ Cut(r, k)
    <3>1. /\ held[r] /\ Len(Rest) = 1 /\ f = F2(r) /\ row[r].amt < count(r)
          /\ \A q \in bus.readers : NextTo(q, r) => Meek(q)
      BY <2>4 DEF Cut, f
    <3>2. Stored(count(r)) /\ TempBuff' = TempBuff
      BY <1>3, <1>4, <3>1
    <3>3. Rest' = <<>>
      BY <1>2, <3>1, ShortSeq DEF Popped
    <3> QED BY <1>0, <1>1, <1>2, <3>1, <3>2, <3>3, TwiceStored
  <2> QED BY <1>6, <2>1, <2>2, <2>3, <2>4 DEF Waiting
<1>7. ASSUME attempt # 1
      PROVE  TwiceInv'
  <2>1. Begun(r, "pull") /\ Rest = <<F2(r), F1(r), F2(r)>>
    BY <1>0, <1>1, <1>7, PollIs
  <2>2. held[r] /\ TempBuff = Pending(r) /\ Pending(r).kind = "pull"
    BY <2>1 DEF Begun
  <2>3. Len(Rest) = 3 /\ f = F2(r) /\ Rest[2] = F1(r) /\ Rest[3] = F2(r)
    BY <2>1 DEF f
  <2>4. Rest' = <<F1(r), F2(r)>>
    <3>1. Len(Rest') = 2 /\ Rest'[1] = F1(r) /\ Rest'[2] = F2(r)
      BY <1>2, <2>3 DEF Popped
    <3> QED BY <1>2, <3>1, ShortSeq
  <2>5. Stored(count(r)) /\ TempBuff' = TempBuff
    BY <1>3, <1>4, <2>2, <2>3
  <2> QED BY <1>0, <1>1, <1>2, <2>1, <2>2, <2>4, <2>5, TwiceStored
<1>8. attempt = 1 => \E k \in 0 .. 2 : Waiting(r, k)
  BY <1>0, <1>1, PollIs
<1> QED BY <1>6, <1>7, <1>8

(* The second loop: the frame of the money is already there.               *)
LEMMA TwiceWait2 ==
  ASSUME Ready, bus' = bus, Wait2
  PROVE  TwiceInv'
<1>0. /\ pc = "wait2" /\ Polling
      /\ \A s \in Readers : held[s] => Pending(s) \in [kind : Kinds, card : Cards]
      /\ bus.readers \subseteq Readers
  BY ReadyIs DEF Wait2, Polling
<1>1. PICK r \in bus.readers : r = no /\ Poll(r)
  BY <1>0, ReadyIs DEF Channel
<1>2. /\ fifo # <<>> /\ Head(fifo) = Rest[1] /\ Rest' \in Seq(Frames) /\ Popped(Rest', Rest)
      /\ UNCHANGED <<readerVars, Led_TaskCount, reported, again>>
  BY WaitTakes
<1>3. Begun(r, "ins") /\ Rest = <<F2(r)>>
  BY <1>0, <1>1, PollIs
<1>4. held[r] /\ TempBuff = Pending(r) /\ Pending(r).kind = "ins"
  BY <1>3 DEF Begun
<1>5. Len(Rest) = 1 /\ Rest[1] = F2(r)
  BY <1>3
<1>6. F2(r).from = r /\ F2(r).amt = count(r) /\ F2(r).kind = "ins2"
  BY <1>0, <1>4, EventFrames
<1>7. Stored(count(r)) /\ TempBuff' = TempBuff
  BY <1>1, <1>2, <1>5, <1>6 DEF Wait2
<1>8. Rest' = <<>>
  BY <1>2, <1>5, ShortSeq DEF Popped
<1> QED BY <1>0, <1>1, <1>2, <1>4, <1>7, <1>8, TwiceStored

-----------------------------------------------------------------------------
(* The rest of the turn                                                    *)

(* A reader whose event was stored lets go of it; one whose event was      *)
(* stored with other data keeps it.                                        *)
LEMMA TwiceSendAck ==
  ASSUME Ready, bus' = bus, SendAck
  PROVE  TwiceInv'
<1>0. /\ TypeOK /\ BusKept /\ Company /\ bus.readers \subseteq Readers /\ AckKept /\ GoodBus
      /\ Settled /\ Fresh /\ RobbedOnce /\ pc = "ack" /\ Polling
      /\ \A s \in Readers : held[s] => count(s) > 0 /\ Pending(s) \in [kind : Kinds, card : Cards]
      /\ \A s \in bus.readers : Forwarded(s)
      /\ held \in [Readers -> BOOLEAN]
  BY ReadyIs DEF Ready, SendAck, Polling, TypeOK
<1>1. PICK r \in bus.readers : r = no /\ Poll(r)
  BY <1>0, ReadyIs DEF Channel
<1>2. /\ pc' = "forward" /\ no' = no /\ AfterPoll'
      /\ UNCHANGED <<slot, happened, Led_TaskCount, attempt, over, TempBuff, row, reported, again>>
      /\ Rest' = Rest
  BY DEF SendAck, busVars, Rest, no, AfterPoll
<1>3. /\ r \in Readers /\ held[r] /\ row[r].amt = count(r)
      /\ \/ Rest = <<>>
         \/ Begun(r, "pull") /\ Rest = <<F1(r), F2(r)>>
  BY <1>0, <1>1, PollIs
<1>4. PICK k \in AckStates :
         held' = [held EXCEPT ![no] = held[no] /\ ~Acknowledges(no, TempBuff.card, k)]
  BY <1>0 DEF SendAck, GoodBus
<1>5. /\ \A s \in Readers : s # r => held'[s] = held[s]
      /\ held'[r] <=> ~Acknowledges(r, TempBuff.card, k)
  <2>1. held' = [held EXCEPT ![r] = held[r] /\ ~Acknowledges(r, TempBuff.card, k)]
    BY <1>1, <1>4
  <2>2. held'[r] = (held[r] /\ ~Acknowledges(r, TempBuff.card, k))
    BY <1>0, <1>3, <2>1, Zenon
  <2>3. \A s \in Readers : s # r => held'[s] = held[s]
    BY <1>0, <2>1, Zenon
  <2> QED BY <1>3, <2>2, <2>3, Zenon
<1>6. row[r].card = TempBuff.card /\ row[r].bits = {TempBuff.kind} \cap Kinds
  BY <1>0, <1>1 DEF AckKept, EventFlag
<1>7. held'[r] => TempBuff # Pending(r)
  <2> SUFFICES ASSUME TempBuff = Pending(r) PROVE Acknowledges(r, TempBuff.card, k)
    BY <1>5
  <2>1. Pending(r) \in [kind : Kinds, card : Cards]
    BY <1>0, <1>3
  <2>2. row[r].bits = {Pending(r).kind} /\ Pending(r).kind \in Kinds
    BY <1>6, <2>1
  <2>3. AckStates = {Pending(r).kind}
    BY <1>1, <2>2 DEF AckStates, Kinds
  <2>4. k = Pending(r).kind
    BY <2>3
  <2>5. Pending(r) = [kind |-> Pending(r).kind, card |-> Pending(r).card]
    BY <2>1
  <2> QED BY <1>3, <2>4, <2>5 DEF Acknowledges
<1>8. \A s \in Readers : count(s)' = count(s) /\ Pending(s)' = Pending(s)
  BY <1>2 DEF count, Pending
<1>9. \A s \in Readers : s # r => (Meek(s)' <=> Meek(s)) /\ (Wrong(s)' <=> Wrong(s))
  BY <1>1, <1>2, <1>5, <1>8 DEF Meek, Wrong
<1>10. Wrong(r)' => Wrong(r)
  BY <1>2, <1>3, <1>7, <1>8 DEF Wrong
<1>11. /\ \A s, t \in bus.readers : s # r /\ t # r => (Sooner(t, s)' <=> Sooner(t, s))
       /\ \A s \in bus.readers : s # r => Sooner(s, r)' /\ ~Sooner(r, s)'
       /\ LastPolled(r)'
  BY <1>0, <1>1, <1>2, PolledOrder
<1>12. Settled'
  BY <1>0, <1>2, <1>8 DEF Settled, Rows
<1>13. Fresh'
  <2>1. /\ ~again'
        /\ \A n \in Rows : row'[n].bits # {} => ~Repeats(Entry(n))'
        /\ \A e \in reported' : e.no \in Readers => e.amt <= row'[e.no].amt
    BY <1>0, <1>2, RepeatsKept DEF Fresh
  <2>2. ASSUME NEW s \in bus.readers, held'[s]
        PROVE  Unsaid(s)'
    <3>1. held[s] /\ Unsaid(s) /\ count(s)' = count(s) /\ Pending(s)' = Pending(s)
      BY <1>0, <1>3, <1>5, <1>8, <2>2 DEF Fresh
    <3>2. \A e \in reported' : ~OfPending(e, s)'
      BY <1>2, <3>1 DEF Unsaid, OfPending
    <3>3. CASE s # r
      BY <1>1, <1>2, <3>1, <3>3 DEF Unsaid, OfPending, Entry
    <3>4. CASE s = r
      <4>1. ASSUME OfPending(Entry(r), r)' PROVE FALSE
        <5>1. {TempBuff.kind} \cap Kinds = {Pending(r).kind} /\ TempBuff.card = Pending(r).card
          BY <1>2, <1>3, <1>6, <1>8, <4>1 DEF OfPending, Entry
        <5>2. TempBuff.kind = Pending(r).kind
          BY <5>1
        <5>3. /\ Pending(r) \in [kind : Kinds, card : Cards]
              /\ TempBuff \in [kind : Kinds \cup {"junk"}, card : Cards \cup {NoCard}]
          BY <1>0, <1>3 DEF TypeOK
        <5>4. TempBuff = Pending(r)
          BY <5>1, <5>2, <5>3
        <5> QED BY <1>7, <2>2, <3>4, <5>4
      <4> QED BY <3>2, <3>4, <4>1 DEF Unsaid
    <3> QED BY <3>3, <3>4
  <2> QED BY <2>1, <2>2 DEF Fresh, Rows
<1>14. Channel'
  <2>1. CASE Rest = <<>>
    <3>1. Len(<<>>) = 0 /\ \A i \in 1 .. 0 : FALSE
      BY EmptySeq
    <3>2. OnlyLeftovers'
      BY <1>2, <2>1, <3>1 DEF OnlyLeftovers, Leftovers
    <3> QED BY <1>2, <3>2 DEF Channel, Polling
  <2>2. CASE Begun(r, "pull") /\ Rest = <<F1(r), F2(r)>>
    <3>1. TempBuff = Pending(r) /\ Pending(r).kind = "pull"
      BY <2>2 DEF Begun
    <3>2. ~held'[r] /\ slot'[r] = NoCard
      BY <1>0, <1>2, <1>3, <1>7, <3>1 DEF Settled
    <3>3. Meek(r)'
      BY <3>2 DEF Meek
    <3>4. F1(r).from = r /\ F2(r).from = r
      BY DEF F1, F2, Frame
    <3>5. Len(Rest') = 2 /\ Rest'[1].from = r /\ Rest'[2].from = r
      BY <1>2, <2>2, <3>4
    <3>6. \A i \in 1 .. 2 : i = 1 \/ i = 2
      OBVIOUS
    <3>7. Leftovers(2)'
      BY <1>11, <3>3, <3>5, <3>6 DEF Leftovers
    <3>8. OnlyLeftovers'
      BY <3>5, <3>7 DEF OnlyLeftovers
    <3> QED BY <1>2, <3>8 DEF Channel, Polling
  <2> QED BY <1>3, <2>1, <2>2
<1>15. RobbedOnce'
  <2> SUFFICES ASSUME NEW q \in bus.readers, NEW s \in bus.readers, Wrong(s)', NextTo(q, s)
               PROVE  Spared(q, s)'
    BY DEF RobbedOnce, NextTo
  <2>1. Wrong(s) /\ Spared(q, s) /\ (Sooner(q, s) <=> s # r) /\ q # s
    BY <1>0, <1>1, <1>9, <1>10, PollOrder DEF RobbedOnce, NextTo
  <2>2. Meek(q)
    BY <1>0, <1>1, <2>1 DEF Spared
  <2>3. CASE q # r
    <3>1. Sooner(q, s)' /\ Meek(q)'
      BY <1>0, <1>9, <1>11, <2>1, <2>2, <2>3
    <3> QED BY <3>1 DEF Spared
  <2>4. CASE q = r
    <3>1. ~Sooner(q, s)' /\ ~(pc' = "ack")
      BY <1>2, <1>11, <2>1, <2>4
    <3>2. Pending(r).kind # "pull"
      BY <1>3, <2>2, <2>4 DEF Meek
    <3>3. Rest' = <<>>
      BY <1>2, <1>3, <3>2 DEF Begun
    <3>4. \A i \in 1 .. Len(Rest') : Rest'[i].from = s
      BY <3>3, EmptySeq
    <3> QED BY <3>1, <3>4 DEF Spared
  <2> QED BY <2>3, <2>4
<1> QED BY <1>12, <1>13, <1>14, <1>15 DEF TwiceInv

(* The event of the row of the turn goes into the queue.                   *)
LEMMA TwiceForward ==
  ASSUME Ready, bus' = bus, Forward
  PROVE  TwiceInv'
<1> DEFINE n == Led_TaskCount
<1>0. /\ TypeOK /\ BusKept /\ Company /\ bus.readers \subseteq Readers
      /\ Settled /\ Fresh /\ OnlyLeftovers /\ n \in Nat /\ pc = "forward"
      /\ row \in [Rows -> RowType] /\ \A s \in Readers : s \in Rows
  BY ReadyIs DEF Ready, Forward, Polling
<1>1. /\ pc' = "serve" /\ Led_TaskCount' = n /\ no' = no /\ Rest' = Rest
      /\ UNCHANGED <<readerVars, TempBuff>>
  BY DEF Forward, busVars, Rest, no
<1>2. IF Waits(n) THEN /\ \/ /\ reported' = reported \cup {Entry(n)}
                             /\ again' = (again \/ Repeats(Entry(n)))
                          \/ UNCHANGED <<reported, again>>
                       /\ row' = [row EXCEPT ![n] = ClearedFlags(row[n])]
                  ELSE UNCHANGED <<reported, again, row>>
  BY DEF Forward
<1>3. Waits(n) => n \in Rows /\ row[n].bits # {}
  BY <1>0, CompanyIs DEF Waits, Rows
<1>4. /\ \A m \in Rows : /\ m # n => row'[m] = row[m]
                         /\ row'[m].used = row[m].used /\ row'[m].lost = row[m].lost
                         /\ row'[m].amt = row[m].amt /\ row'[m].card = row[m].card
      /\ Waits(n) => row'[n].bits = {}
      /\ ~Waits(n) => row' = row
  <2>1. CASE ~Waits(n)
    BY <1>2, <2>1
  <2>2. CASE Waits(n)
    <3> DEFINE w == ClearedFlags(row[n])
    <3>1. row[n] \in RowType
      BY <1>0, <1>3, <2>2
    <3>2. /\ w.bits = {} /\ w.used = row[n].used /\ w.lost = row[n].lost
          /\ w.amt = row[n].amt /\ w.card = row[n].card
      BY <3>1 DEF ClearedFlags, RowType
    <3>3. row' = [row EXCEPT ![n] = w]
      BY <1>2, <2>2
    <3> HIDE DEF w
    <3>4. row'[n] = w /\ \A m \in Rows : m # n => row'[m] = row[m]
      BY <1>0, <1>3, <2>2, <3>3
    <3> QED BY <2>2, <3>2, <3>4
  <2> QED BY <2>1, <2>2
<1>5. \A s \in Readers : row'[s].amt = row[s].amt
  BY <1>0, <1>4
<1>6. \A s \in Readers : /\ count(s)' = count(s) /\ Pending(s)' = Pending(s)
                         /\ held'[s] = held[s] /\ (Meek(s)' <=> Meek(s)) /\ (Wrong(s)' => Wrong(s))
  BY <1>0, <1>1, <1>5, ReadersKept, WrongKept
<1>7. Settled'
  BY <1>0, <1>1, <1>4, <1>6 DEF Settled, Rows, readerVars
<1>8. Channel' /\ RobbedOnce'
  <2>1. \A s, t \in bus.readers : Sooner(t, s)' <=> Sooner(t, s)
    BY <1>0, <1>1, SameOrder DEF AfterPoll
  <2> QED BY <1>0, <1>1, <1>6, <2>1, QuietKept
<1>9. Fresh'
  <2>1. \A e : e \in reported' => e \in reported \/ (Waits(n) /\ e = Entry(n))
    BY <1>2
  <2>2. ~again'
    BY <1>0, <1>2, <1>3 DEF Fresh
  <2>3. ASSUME NEW m \in Rows, row'[m].bits # {}
        PROVE  ~Repeats(Entry(m))'
    <3>1. row'[m] = row[m] /\ (Waits(n) => m # n)
      BY <1>4, <2>3
    <3>2. Entry(m)' = Entry(m) /\ ~Repeats(Entry(m)) /\ Entry(m).no = m /\ Entry(n).no = n
      BY <1>0, <2>3, <3>1 DEF Entry, Fresh
    <3>3. \A e : Right(e)' <=> Right(e)
      BY <1>1 DEF Right, count, readerVars
    <3>4. \A e \in reported' : e.no = m => e \in reported
      BY <2>1, <3>1, <3>2
    <3> QED BY <3>2, <3>3, <3>4 DEF Repeats
  <2>4. ASSUME NEW e \in reported', e.no \in Readers
        PROVE  e.amt <= row'[e.no].amt
    <3>1. CASE e \in reported
      BY <1>0, <1>5, <2>4, <3>1 DEF Fresh
    <3>2. CASE e = Entry(n)
      <4>1. e.no = n /\ e.amt = row[n].amt
        BY <3>2 DEF Entry
      <4>2. row[n].amt \in Nat
        BY <1>0, <2>4, <4>1, StoresTyped
      <4>3. e.amt = row'[e.no].amt /\ e.amt \in Nat
        BY <1>5, <2>4, <4>1, <4>2
      <4> QED BY <4>3
    <3> QED BY <2>1, <3>1, <3>2
  <2>5. ASSUME NEW s \in bus.readers, held'[s]
        PROVE  Unsaid(s)'
    <3>1. /\ held[s] /\ Unsaid(s) /\ count(s)' = count(s) /\ Pending(s)' = Pending(s)
          /\ s \in Rows
      BY <1>0, <1>6, <2>5 DEF Fresh
    <3>2. ~OfPending(Entry(s), s)
      BY <1>0, <3>1 DEF Unsaid
    <3>3. ~OfPending(Entry(s), s)'
      <4>1. CASE row'[s].bits = {}
        BY <4>1 DEF OfPending, Entry
      <4>2. CASE row'[s].bits # {}
        <5>1. row'[s] = row[s]
          BY <1>4, <3>1, <4>2
        <5> QED BY <3>1, <3>2, <5>1 DEF OfPending, Entry
      <4> QED BY <4>1, <4>2
    <3>4. ASSUME NEW e \in reported', OfPending(e, s)'
          PROVE  FALSE
      <4>1. OfPending(e, s)
        BY <3>1, <3>4 DEF OfPending
      <4>2. e = Entry(n)
        BY <2>1, <3>1, <4>1 DEF Unsaid
      <4>3. s = n
        BY <4>1, <4>2 DEF OfPending, Entry
      <4> QED BY <3>2, <4>1, <4>2, <4>3
    <3> QED BY <3>3, <3>4 DEF Unsaid
  <2> QED BY <2>2, <2>3, <2>4, <2>5 DEF Fresh, Rows
<1> QED BY <1>7, <1>8, <1>9 DEF TwiceInv

(* What an answer of the server does to the flags of a row.                *)
LEMMA AnswerIs ==
  ASSUME TypeOK, NEW a \in {"AA", "BB", "CC"}, NEW r \in Readers, Answer(a, r)
  PROVE  /\ pc = "serve" /\ pc' = "drain"
         /\ \A m \in Rows : m # r => row'[m] = row[m]
         /\ row'[r].used = TRUE \/ row'[r].used = row[r].used
         /\ row'[r].lost = FALSE \/ row'[r].lost = row[r].lost
         /\ row'[r].bits = {} \/ row'[r].bits = row[r].bits
         /\ row'[r].card = row[r].card /\ row'[r].amt = row[r].amt
<1>1. row \in [Rows -> RowType] /\ r \in Rows /\ row[r] \in RowType
  BY RowsAre
<1>2. pc = "serve" /\ pc' = "drain" /\ row' = [row EXCEPT ![r] = Flags(a, row[r])]
  BY DEF Answer
<1> DEFINE w == Flags(a, row[r])
<1>3. /\ w.used = TRUE \/ w.used = row[r].used
      /\ w.lost = FALSE \/ w.lost = row[r].lost
      /\ w.bits = {} \/ w.bits = row[r].bits
      /\ w.card = row[r].card /\ w.amt = row[r].amt
  <2>1. CASE a = "AA"
    BY <1>1, <2>1 DEF Flags, RowType
  <2>2. CASE a = "BB"
    BY <1>1, <2>2 DEF Flags, RowType
  <2>3. CASE a = "CC"
    BY <1>1, <2>3 DEF Flags, RowType
  <2> QED BY <2>1, <2>2, <2>3
<1> HIDE DEF w
<1>4. row'[r] = w /\ \A m \in Rows : m # r => row'[m] = row[m]
  BY <1>1, <1>2 DEF w
<1> QED BY <1>2, <1>3, <1>4

LEMMA TwiceAnswer ==
  ASSUME Ready, bus' = bus, NEW a \in bus.answers, NEW r \in bus.readers, Answer(a, r)
  PROVE  TwiceInv'
<1>0. /\ TypeOK /\ BusKept /\ Company /\ bus.readers \subseteq Readers /\ r \in Rows
      /\ Settled /\ Fresh /\ OnlyLeftovers /\ pc = "serve" /\ a \in {"AA", "BB", "CC"}
      /\ \A s \in Readers : s \in Rows
  <2>1. bus.answers \subseteq {"AA", "BB", "55", "CC"} /\ "55" \notin bus.answers
    BY BusParts, ReaderAssumption DEF Ready, Company
  <2> QED BY <2>1, ReadyIs DEF Ready, Answer, Polling
<1>1. /\ Led_TaskCount' = Led_TaskCount /\ Rest' = Rest
      /\ UNCHANGED <<readerVars, TempBuff, reported, again>>
  BY DEF Answer, busVars, Rest
<1>2. /\ pc' = "drain"
      /\ \A m \in Rows : m # r => row'[m] = row[m]
      /\ row'[r].used = TRUE \/ row'[r].used = row[r].used
      /\ row'[r].lost = FALSE \/ row'[r].lost = row[r].lost
      /\ row'[r].bits = {} \/ row'[r].bits = row[r].bits
      /\ row'[r].card = row[r].card /\ row'[r].amt = row[r].amt
  BY <1>0, AnswerIs
<1>3. \A m \in Rows : /\ row'[m].amt = row[m].amt
                      /\ \/ row'[m].bits = {}
                         \/ /\ Entry(m)' = Entry(m)
                            /\ row'[m].bits = row[m].bits
  BY <1>2 DEF Entry
<1>4. \A s \in Readers : /\ count(s)' = count(s) /\ Pending(s)' = Pending(s)
                         /\ held'[s] = held[s] /\ (Meek(s)' <=> Meek(s)) /\ (Wrong(s)' => Wrong(s))
  BY <1>0, <1>1, <1>3, ReadersKept, WrongKept
<1>5. Settled'
  <2>1. \A m \in Rows : row'[m].used <=> m \in bus.readers
    BY <1>0, <1>2 DEF Settled
  <2>2. \A m \in Rows : ~row'[m].lost
    BY <1>0, <1>2 DEF Settled
  <2> QED BY <1>0, <1>1, <1>4, <2>1, <2>2 DEF Settled, Rows, readerVars
<1>6. Channel' /\ RobbedOnce'
  <2>1. \A s, t \in bus.readers : Sooner(t, s)' <=> Sooner(t, s)
    BY <1>0, <1>1, <1>2, SameOrder DEF AfterPoll
  <2> QED BY <1>0, <1>1, <1>2, <1>4, <2>1, QuietKept
<1>7. Fresh'
  <2>1. /\ ~again'
        /\ \A n \in Rows : row'[n].bits # {} => ~Repeats(Entry(n))'
        /\ \A e \in reported' : e.no \in Readers => e.amt <= row'[e.no].amt
    BY <1>0, <1>1, <1>3, RepeatsKept DEF Fresh, readerVars
  <2>2. ASSUME NEW s \in bus.readers, held'[s]
        PROVE  Unsaid(s)'
    <3>1. /\ held[s] /\ Unsaid(s) /\ count(s)' = count(s) /\ Pending(s)' = Pending(s)
          /\ s \in Rows
      BY <1>0, <1>4, <2>2 DEF Fresh
    <3>2. \A e \in reported' : ~OfPending(e, s)'
      BY <1>1, <3>1 DEF Unsaid, OfPending
    <3>3. ~OfPending(Entry(s), s)'
      <4>1. CASE row'[s].bits = {}
        BY <4>1 DEF OfPending, Entry
      <4>2. CASE Entry(s)' = Entry(s)
        BY <1>0, <3>1, <4>2 DEF OfPending, Unsaid
      <4> QED BY <1>3, <3>1, <4>1, <4>2
    <3> QED BY <3>2, <3>3 DEF Unsaid
  <2> QED BY <2>1, <2>2 DEF Fresh, Rows
<1> QED BY <1>5, <1>6, <1>7 DEF TwiceInv

(* The end of the turn, with a frame thrown away or not.                   *)
LEMMA TwiceTurn ==
  ASSUME Ready, bus' = bus, NoAnswer \/ Drain
  PROVE  TwiceInv'
<1>0. /\ TypeOK /\ BusKept /\ Company /\ bus.readers \subseteq Readers
      /\ Settled /\ OnlyLeftovers /\ pc \in {"serve", "drain"}
  BY ReadyIs DEF Ready, NoAnswer, Drain, Polling
<1>1. /\ pc' = "idle" /\ NextTurn
      /\ UNCHANGED <<readerVars, TempBuff, row, reported, again>>
      /\ AfterPoll /\ ~AfterPoll'
  BY <1>0 DEF NoAnswer, Drain, NextTurn, AfterPoll
<1>2. Rest' = Rest \/ (Rest' \in Seq(Frames) /\ Popped(Rest', Rest))
  <2>1. CASE fifo' = fifo /\ wire' = wire
    BY <2>1 DEF Rest
  <2>2. CASE fifo # <<>> /\ fifo' = Tail(fifo) /\ wire' = wire
    BY <1>0, <2>2, RestPop
  <2> QED BY <2>1, <2>2 DEF NoAnswer, Drain, busVars
<1>3. \A s, t \in bus.readers : Sooner(t, s)' <=> Sooner(t, s)
  BY <1>0, <1>1, SameOrder
<1>4. \A s \in Readers : count(s)' = count(s) /\ Pending(s)' = Pending(s)
                         /\ (Meek(s)' <=> Meek(s)) /\ (Wrong(s)' => Wrong(s))
  BY <1>0, <1>1, ReadersKept, WrongKept
<1>5. Settled'
  BY <1>0, <1>1, <1>4 DEF Settled, Rows, readerVars
<1>6. Fresh'
  BY <1>0, <1>1, FreshKept DEF readerVars
<1>7. Channel' /\ RobbedOnce'
  BY <1>0, <1>1, <1>2, <1>3, <1>4, QuietKept
<1> QED BY <1>5, <1>6, <1>7 DEF TwiceInv

LEMMA TwiceCards ==
  ASSUME Ready, bus' = bus, NEW r \in bus.readers,
         PullCard(r) \/ \E cd \in Cards : InsertCard(r, cd)
  PROVE  TwiceInv'
<1>0. /\ r \in Readers /\ slot \in [Readers -> Cards \cup {NoCard}]
      /\ "ins" \in Kinds /\ "pull" \in Kinds /\ "ins" # "pull" /\ NoCard \notin Cards
  BY ReadyIs, CardAssumption DEF TypeOK, Kinds
<1>1. CASE PullCard(r)
  <2>1. Happens(r, "pull", slot[r]) /\ slot[r] \in Cards /\ slot' = [slot EXCEPT ![r] = NoCard]
    BY <1>0, <1>1 DEF PullCard
  <2>2. slot' \in [Readers -> Cards \cup {NoCard}] /\ slot'[r] = NoCard
        /\ \A s \in Readers : s # r => slot'[s] = slot[s]
    BY <1>0, <2>1
  <2>3. ("pull" = "ins" <=> slot'[r] # NoCard) /\ ("pull" = "ins" <=> slot[r] = NoCard)
    BY <1>0, <2>1, <2>2
  <2> QED BY <1>0, <2>1, <2>2, <2>3, TwiceHappens
<1>2. ASSUME NEW cd \in Cards, InsertCard(r, cd)
      PROVE  TwiceInv'
  <2>1. Happens(r, "ins", cd) /\ slot[r] = NoCard /\ slot' = [slot EXCEPT ![r] = cd]
    BY <1>2 DEF InsertCard
  <2>2. slot' \in [Readers -> Cards \cup {NoCard}] /\ slot'[r] = cd
        /\ \A s \in Readers : s # r => slot'[s] = slot[s]
    BY <1>0, <2>1
  <2>3. ("ins" = "ins" <=> slot'[r] # NoCard) /\ ("ins" = "ins" <=> slot[r] = NoCard)
    BY <1>0, <2>1, <2>2
  <2> QED BY <1>0, <2>1, <2>2, <2>3, TwiceHappens
<1> QED BY <1>1, <1>2

(* A step that changes nothing.                                            *)
LEMMA TwiceStutter ==
  ASSUME TwiceInv, UNCHANGED vars
  PROVE  TwiceInv'
<1>1. /\ UNCHANGED <<bus, slot, happened, held, wire, fifo, pc, Led_TaskCount, attempt>>
      /\ UNCHANGED <<over, stale, TempBuff, row, reported, again>>
  BY DEF vars
<1>2. /\ no' = no /\ Rest' = Rest /\ (Polling' <=> Polling) /\ (AfterPoll' <=> AfterPoll)
      /\ \A r : count(r)' = count(r)
  BY <1>1 DEF no, Rest, Polling, AfterPoll, count
<1>3. \A r : Pending(r)' = Pending(r)
  BY <1>1, <1>2 DEF Pending
<1>4. /\ \A r : F1(r)' = F1(r) /\ F2(r)' = F2(r) /\ (Meek(r)' <=> Meek(r))
      /\ \A r : (Wrong(r)' <=> Wrong(r)) /\ (Gone(r)' <=> Gone(r)) /\ Entry(r)' = Entry(r)
      /\ \A r, e : OfPending(e, r)' <=> OfPending(e, r)
      /\ \A r, k : Begun(r, k)' <=> Begun(r, k)
  BY <1>1, <1>2, <1>3 DEF F1, F2, Meek, Wrong, Gone, Entry, OfPending, Begun
<1>5. \A r, q : (Sooner(r, q)' <=> Sooner(r, q)) /\ (NextTo(q, r)' <=> NextTo(q, r))
  BY <1>1, <1>4 DEF Sooner, NextTo
<1>6. \A k : Leftovers(k)' <=> Leftovers(k)
  BY <1>1, <1>2, <1>4, <1>5 DEF Leftovers, LastPolled
<1>7. OnlyLeftovers' <=> OnlyLeftovers
  BY <1>2, <1>6 DEF OnlyLeftovers
<1>8. \A r, k : Waiting(r, k)' <=> Waiting(r, k)
  BY <1>1, <1>2, <1>4, <1>5, <1>6 DEF Waiting, Nothing, Whole, Cut
<1>9. \A r : Poll(r)' <=> Poll(r)
  BY <1>1, <1>2, <1>4, <1>7, <1>8 DEF Poll
<1>10. Channel'
  BY <1>1, <1>2, <1>7, <1>9 DEF TwiceInv, Channel
<1>11. RobbedOnce'
  BY <1>1, <1>2, <1>4, <1>5 DEF TwiceInv, RobbedOnce, Spared
<1>12. Settled'
  BY <1>1, <1>2, <1>3 DEF TwiceInv, Settled, Rows
<1>13. Fresh'
  <2>1. \A n \in Rows : row'[n].bits # {} => ~Repeats(Entry(n))'
    BY <1>1, RepeatsKept DEF TwiceInv, Fresh
  <2> QED BY <1>1, <1>2, <1>4, <2>1 DEF TwiceInv, Fresh, Unsaid, Rows
<1> QED BY <1>10, <1>11, <1>12, <1>13 DEF TwiceInv

-----------------------------------------------------------------------------
(* The theorem                                                             *)

LEMMA TwiceInit ==
  ASSUME Init
  PROVE  TwiceInv
<1>0. /\ \A r \in Readers : r \in Rows /\ r # 0
      /\ \A r \in Readers : held[r] = FALSE /\ happened[r] = <<>>
      /\ bus.readers \subseteq Readers
      /\ fifo = <<>> /\ wire = <<>> /\ pc = "idle" /\ reported = {} /\ ~again
      /\ \A n \in Rows : /\ row[n].used = (n \in bus.readers)
                         /\ row[n].lost = FALSE
  BY ReaderAssumption, InitInv, BusParts DEF Init, Rows, BusKept
<1>1. \A r \in Readers : count(r) = 0 /\ ~Wrong(r)
  BY <1>0, EmptySeq DEF count, Wrong
<1>2. Rest = <<>> /\ Len(Rest) = 0
  BY <1>0, EmptySeq, ConcatEmptySeq DEF Rest
<1>3. Settled
  <2>1. \A n \in Rows : (row[n].used <=> n \in bus.readers) /\ ~row[n].lost
    BY <1>0
  <2>2. \A r \in Readers : ~(count(r) > 0)
    BY <1>1
  <2> QED BY <2>1, <2>2 DEF Settled
<1>4. Fresh
  BY <1>0 DEF Fresh, Repeats
<1>5. Channel
  BY <1>0, <1>2 DEF Channel, Polling, OnlyLeftovers, Leftovers
<1>6. RobbedOnce
  BY <1>0, <1>1 DEF RobbedOnce
<1> QED BY <1>3, <1>4, <1>5, <1>6 DEF TwiceInv

LEMMA TwiceNext ==
  ASSUME Ready, [Next]_vars
  PROVE  TwiceInv'
<1>0. bus' = bus /\ ~Lossy
  BY DEF Next, vars, Ready, GoodBus
<1>1. CASE UNCHANGED vars
  BY <1>1, TwiceStutter DEF Ready
<1>2. CASE \E r \in bus.readers, cd \in Cards : InsertCard(r, cd)
  BY <1>0, <1>2, TwiceCards
<1>3. CASE \E r \in bus.readers : PullCard(r)
  BY <1>0, <1>3, TwiceCards
<1>4. CASE Arrive
  BY <1>0, <1>4, TwiceArrive
<1>5. CASE LoseFrame
  BY <1>0, <1>5 DEF LoseFrame
<1>6. CASE StartPoll
  BY <1>0, <1>6, TwiceStartPoll
<1>7. CASE SendPoll
  BY <1>0, <1>7, TwiceSendPoll
<1>8. CASE Wait1
  BY <1>0, <1>8, TwiceWait1
<1>9. CASE Wait2
  BY <1>0, <1>9, TwiceWait2
<1>10. CASE SendAck
  BY <1>0, <1>10, TwiceSendAck
<1>11. CASE Forward
  BY <1>0, <1>11, TwiceForward
<1>12. CASE NoAnswer \/ Drain
  BY <1>0, <1>12, TwiceTurn
<1>13. CASE \E a \in bus.answers, r \in bus.readers : Answer(a, r)
  BY <1>0, <1>13, TwiceAnswer
<1> QED
  BY <1>1, <1>2, <1>3, <1>4, <1>5, <1>6, <1>7, <1>8, <1>9, <1>10, <1>11, <1>12, <1>13
  DEF Next, LedTask

(* The invariant, on the buses the property is about.                      *)
CompanyInv == AckKept /\ (GoodBus /\ Company => TwiceInv)

LEMMA CompanyStep ==
  ASSUME OVERFLOW > 2, FIFO_DEPTH > 2, IInv, BusKept, BitsWhen, CompanyInv, [Next]_vars
  PROVE  CompanyInv'
<1>1. AckKept'
  BY AckKeptStep DEF CompanyInv
<1>2. (GoodBus' <=> GoodBus) /\ (Company' <=> Company)
  <2>1. bus' = bus
    BY DEF Next, vars
  <2> QED BY <2>1 DEF GoodBus, Company, Lossy, Late
<1>3. GoodBus /\ Company => TwiceInv'
  BY TwiceNext DEF CompanyInv, Ready
<1> QED BY <1>1, <1>2, <1>3 DEF CompanyInv

(* On a bus that loses nothing and is never late, with two readers or more *)
(* none of which is in the last row, led_task marks no reader lost and     *)
(* puts no event of a reader in its queue twice, except that one queued    *)
(* with another one's card or kind may follow once more as it is: for any  *)
(* number of readers, cards and events, and whatever the second poll for a *)
(* pulled card leaves in the FIFO.  Two tries of a receive loop can be     *)
(* spent on such leftovers and a FIFO of one message can lose every first  *)
(* frame: the code makes ten tries (Overflow_Flag) and the FIFO of the CAN *)
(* peripheral holds three.                                                 *)
THEOREM PollNoneTwice ==
  ASSUME OVERFLOW > 2, FIFO_DEPTH > 2
  PROVE  Spec => []NoneTwice
<1>1. Init => BitsWhen /\ CompanyInv
  <2>1. Init => AckKept
    BY DEF Init, AckKept
  <2> QED BY <2>1, BitsWhenInit, TwiceInit DEF CompanyInv
<1>2. IInv /\ BusKept /\ BitsWhen /\ CompanyInv /\ [Next]_vars => BitsWhen' /\ CompanyInv'
  BY BitsWhenKept, CompanyStep
<1>3. IInv /\ BusKept /\ CompanyInv => NoneTwice
  <2>1. TwiceInv => ~again /\ \A n \in Rows : ~row[n].lost
    BY DEF TwiceInv, Fresh, Settled
  <2>2. \A r \in Readers : r \in Rows
    BY ReaderAssumption DEF Rows
  <2> QED BY <2>1, <2>2 DEF CompanyInv, NoneTwice
<1>4. QED
  BY <1>1, <1>2, <1>3, PollInvariant, PTL DEF Spec
=============================================================================

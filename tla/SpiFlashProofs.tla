--------------------------- MODULE SpiFlashProofs ---------------------------
(***************************************************************************)
(* Proofs about the serial flash, for sectors, program commands and chips  *)
(* of any size, any ranges, and any number of losses of power and of bytes *)
(* that fail.                                                              *)
(*                                                                         *)
(* The pieces that sf_WriteBuffer makes of a range are shown to be the     *)
(* parts of it that lie in one sector each (PiecesPart), so that no piece  *)
(* disturbs what another has written.  The inductive invariant follows the *)
(* sector under way through erasing, programming and comparing.            *)
(***************************************************************************)
EXTENDS SpiFlash, SequenceTheorems, TLAPS

InSector(a) == a \div PageSize

(* p is the whole part of w that lies in one sector.                       *)
Part(p, w) ==
  /\ p \in Write_ /\ (p.addr % PageSize) + Len(p.data) <= PageSize
  /\ \A a \in Span(p) : a \in Span(w) /\ At(p, a) = At(w, a)
  /\ \A a \in Span(w) : InSector(a) = InSector(p.addr) => a \in Span(p)

Active == {"erase", "program", "verify"}
Writing == Active \cup {"auto"}

(* What the code has read, merged and will program for address a.          *)
Buf(a) == s_spiBuf[a - uiFirstAddr]

(* Each piece still to be written is a part of the range, and what is in   *)
(* none of them is written.                                                *)
PartsLeft ==
  pc \in Writing =>
    /\ \A k \in DOMAIN todo : Part(todo[k], call)
    /\ \A a \in Span(call) : \/ \E k \in DOMAIN todo : a \in Span(todo[k])
                             \/ a \in Address /\ flash[a] = At(call, a)

(* The piece under way is not empty and begins within the chip.  The image *)
(* of its sector is the range, and around it what was there.               *)
Merged ==
  pc \in Active =>
    /\ todo # <<>> /\ Len(w0.data) > 0 /\ w0.addr < TotalSize
    /\ \A a \in Sector :
         /\ a \in Span(call) => Buf(a) = At(call, a)
         /\ a \notin Span(call) /\ faults = 0 => Buf(a) = before[a]

(* Programming finds every bit of the image set.  What it has done is      *)
(* exact, or a byte failed in this try.                                    *)
Programming ==
  /\ pc \in Active => faults >= tries
  /\ pc \in {"program", "verify"} =>
       /\ \A a \in Sector : Buf(a) \subseteq flash[a]
       /\ \/ \A a \in Sector : a < uiFirstAddr + page * PROG => flash[a] = Buf(a)
          \/ faults > tries
  /\ pc = "program" => page < PageSize \div PROG
  /\ pc = "verify" => page = PageSize \div PROG

(* Without failing bytes only the sector under way differs around the      *)
(* range.                                                                  *)
Around ==
  pc \in Writing \cup {"ret"} /\ faults = 0 =>
    \A a \in Address \ Span(call) : \/ flash[a] = before[a]
                                    \/ pc \in Active /\ a \in Sector

(* The result is that of the call.                                         *)
Result == WriteExact /\ FailsForCause

(* What the chip is erased for.                                            *)
Whole == pc = "chip" => Address \subseteq Span(call)

WriteInv ==
  PartsLeft /\ Merged /\ Programming /\ Around /\ Result /\ Whole /\ DamageIsLocal

(* The tested bytes, and when the sector they are in is being rewritten.   *)
MarkBytes == {MarkAt + o : o \in Tested}
InMark == pc \in Active /\ uiFirstAddr = 0

(* The marker stands, or the image that is being programmed has it.        *)
MarkStands ==
  ready =>
    /\ pc # "chip"
    /\ \A a \in MarkBytes :
         /\ InMark => Buf(a) = Marker
         /\ ~InMark \/ (pc = "program" /\ a < page * PROG) \/ pc = "verify" => flash[a] = Marker

(* Either the call writes the marker of a new chip, or it leaves it alone. *)
MarkCall ==
  pc \in Writing \cup {"ret"} =>
    \/ then = "mark" /\ ~ready /\ call = Fill(MarkAt, MarkLen, Marker)
    \/ then # "mark" /\ MarkBytes \cap Span(call) = {}

MarkInv == MarkStands /\ MarkCall

IInv == TypeOK /\ WriteInv /\ MarkInv

-----------------------------------------------------------------------------
(* Sectors                                                                 *)

LEMMA Sizes ==
  /\ PageSize \in Nat /\ PageSize > 0 /\ Sectors \in Nat /\ Sectors > 0
  /\ PROG \in Nat /\ PROG > 0 /\ TotalSize \in Nat /\ TotalSize = PageSize * Sectors
  /\ PageSize \div PROG \in Nat /\ PageSize \div PROG > 0
  /\ PageSize = (PageSize \div PROG) * PROG
<1>1. /\ PageSize \in Nat \ {0} /\ Sectors \in Nat \ {0} /\ PROG \in Nat \ {0}
      /\ PageSize % PROG = 0
  BY FlashAssumption
<1>2. PageSize \div PROG \in Nat /\ PageSize = (PageSize \div PROG) * PROG
  BY <1>1
<1>3. PageSize \div PROG # 0
  BY <1>1, <1>2
<1>4. TotalSize = PageSize * Sectors /\ TotalSize \in Nat
  BY <1>1 DEF TotalSize
<1> QED BY <1>1, <1>2, <1>3, <1>4

LEMMA SectorOf ==
  ASSUME NEW a \in Nat
  PROVE  /\ InSector(a) \in Nat /\ a % PageSize \in 0 .. PageSize - 1
         /\ a = PageSize * InSector(a) + (a % PageSize) /\ a % PageSize <= a
<1>1. /\ InSector(a) \in Nat /\ a % PageSize \in 0 .. PageSize - 1
      /\ a = PageSize * InSector(a) + (a % PageSize)
  BY Sizes DEF InSector
<1>2. PageSize * InSector(a) \in Nat
  BY <1>1, Sizes
<1> QED BY <1>1, <1>2, Sizes

LEMMA OffsetOf ==
  ASSUME NEW a \in Nat
  PROVE  a % PageSize \in Nat /\ a % PageSize <= a
<1>1. a % PageSize \in 0 .. PageSize - 1 /\ a % PageSize <= a /\ PageSize \in Nat
  BY SectorOf, Sizes
<1> DEFINE r == a % PageSize
<1> HIDE DEF r
<1>2. r \in 0 .. PageSize - 1 => r \in Nat
  BY <1>1
<1> QED BY <1>1, <1>2 DEF r

(* The addresses of a sector follow each other.                            *)
LEMMA SectorIsRange ==
  ASSUME NEW a \in Nat, NEW b \in Nat
  PROVE  InSector(a) = InSector(b)
           <=> b - (b % PageSize) <= a /\ a < b - (b % PageSize) + PageSize
<1> DEFINE q == InSector(a)
           d == InSector(b)
<1>1. /\ q \in Nat /\ d \in Nat /\ PageSize \in Nat /\ PageSize > 0
      /\ a % PageSize \in 0 .. PageSize - 1 /\ b % PageSize \in 0 .. PageSize - 1
      /\ a = PageSize * q + (a % PageSize) /\ b = PageSize * d + (b % PageSize)
  BY SectorOf, Sizes
<1> HIDE DEF q, d
<1>2. q < d => PageSize * q + PageSize <= PageSize * d
  BY <1>1
<1>3. d < q => PageSize * d + PageSize <= PageSize * q
  BY <1>1
<1>4. PageSize * q \in Nat /\ PageSize * d \in Nat
  BY <1>1
<1>5. b - (b % PageSize) = PageSize * d
  BY <1>1, <1>4
<1>6. q = d <=> PageSize * d <= a /\ a < PageSize * d + PageSize
  BY <1>1, <1>2, <1>3, <1>4
<1> QED BY <1>5, <1>6 DEF q, d

(* A sector that begins within the chip lies within it.                    *)
LEMMA SectorInChip ==
  ASSUME NEW b \in Nat, b < TotalSize, NEW a \in Nat, InSector(a) = InSector(b)
  PROVE  a \in Address
<1> DEFINE d == InSector(b)
<1>1. /\ d \in Nat /\ PageSize \in Nat /\ PageSize > 0 /\ Sectors \in Nat
      /\ TotalSize = PageSize * Sectors /\ TotalSize \in Nat
      /\ a % PageSize \in 0 .. PageSize - 1 /\ b % PageSize \in 0 .. PageSize - 1
      /\ a = PageSize * d + (a % PageSize) /\ b = PageSize * d + (b % PageSize)
  BY SectorOf, Sizes
<1> HIDE DEF d
<1>2. d < Sectors
  <2>1. d >= Sectors => PageSize * d >= PageSize * Sectors
    BY <1>1
  <2> QED BY <1>1, <2>1
<1>3. PageSize * d + PageSize <= PageSize * Sectors
  BY <1>1, <1>2
<1>4. PageSize * d \in Nat
  BY <1>1
<1>5. a < TotalSize
  BY <1>1, <1>3, <1>4
<1> QED BY <1>1, <1>5 DEF Address

-----------------------------------------------------------------------------
(* The pieces of a range                                                   *)

(* The addresses of a write.                                               *)
LEMMA SpanIs ==
  ASSUME NEW w \in Write_, NEW a
  PROVE  a \in Span(w) <=> a \in Nat /\ a >= w.addr /\ a < w.addr + Len(w.data)
<1> DEFINE A == w.addr
           M == Len(w.data)
<1>1. A \in Nat /\ M \in Nat
  BY DEF Write_
<1>2. Span(w) = A .. (A + M - 1)
  BY DEF Span, First, Last
<1> HIDE DEF A, M
<1>3. a \in Span(w) <=> a \in Nat /\ a >= A /\ a < A + M
  BY <1>1, <1>2
<1> QED BY <1>3 DEF A, M

(* What SubSeq takes from the data of a write.                             *)
LEMMA PieceIs ==
  ASSUME NEW w \in Write_, NEW from \in Nat, NEW n \in Nat, from + n <= Len(w.data)
  PROVE  /\ Piece(w, from, n) \in Write_
         /\ Piece(w, from, n).addr = w.addr + from /\ Len(Piece(w, from, n).data) = n
         /\ Span(Piece(w, from, n)) = (w.addr + from) .. (w.addr + from + n - 1)
         /\ \A a \in Span(Piece(w, from, n)) :
              a \in Span(w) /\ At(Piece(w, from, n), a) = At(w, a)
<1> DEFINE s == SubSeq(w.data, from + 1, from + n)
           p == Piece(w, from, n)
<1>1. w.addr \in Nat /\ w.data \in Seq(Byte) /\ Len(w.data) \in Nat
  BY DEF Write_
<1>2. s \in Seq(Byte) /\ Len(s) = n /\ \A k \in 1 .. n : s[k] = w.data[from + k]
  BY <1>1
<1>3. p.addr = w.addr + from /\ p.data = s
  BY DEF Piece
<1>4. p \in Write_
  BY <1>1, <1>2 DEF Write_, Piece
<1> HIDE DEF s, p
<1>5. Span(p) = (w.addr + from) .. (w.addr + from + n - 1)
  BY <1>2, <1>3 DEF Span, First, Last
<1>6. \A a \in Span(p) : a \in Span(w) /\ At(p, a) = At(w, a)
  <2> SUFFICES ASSUME NEW a \in Span(p) PROVE a \in Span(w) /\ At(p, a) = At(w, a)
    OBVIOUS
  <2>1. a \in Nat /\ a >= w.addr + from /\ a < w.addr + from + n
    BY <1>1, <1>5
  <2>2. a \in Span(w)
    <3> DEFINE A == w.addr
               M == Len(w.data)
    <3>1. A \in Nat /\ M \in Nat /\ a \in Nat /\ a >= A + from /\ a < A + from + n /\ from + n <= M
      BY <1>1, <2>1
    <3> HIDE DEF A, M
    <3>2. a >= A /\ a < A + M
      BY <3>1
    <3> QED BY <2>1, <3>2, SpanIs DEF A, M
  <2> DEFINE k == a - (w.addr + from) + 1
  <2>3. k \in 1 .. n /\ from + k = a - w.addr + 1
    <3> DEFINE A == w.addr
    <3>1. A \in Nat /\ a \in Nat /\ a >= A + from /\ a < A + from + n /\ k = a - (A + from) + 1
      BY <1>1, <2>1
    <3> HIDE DEF A, k
    <3>2. k \in 1 .. n /\ from + k = a - A + 1
      BY <3>1
    <3> QED BY <3>2 DEF A
  <2>4. s[k] = w.data[from + k]
    BY <1>2, <2>3
  <2>5. At(p, a) = s[k] /\ At(w, a) = w.data[from + k]
    BY <1>3, <2>3 DEF At
  <2> QED BY <2>2, <2>4, <2>5
<1> QED BY <1>2, <1>3, <1>4, <1>5, <1>6 DEF p

(* A piece that begins and ends with the range or at the edge of a sector. *)
LEMMA PieceIsPart ==
  ASSUME NEW w \in Write_, NEW from \in Nat, NEW n \in Nat, from + n <= Len(w.data),
         ((w.addr + from) % PageSize) + n <= PageSize,
         from = 0 \/ (w.addr + from) % PageSize = 0,
         from + n = Len(w.data) \/ (n > 0 /\ (w.addr + from + n) % PageSize = 0)
  PROVE  Part(Piece(w, from, n), w)
<1> DEFINE p == Piece(w, from, n)
           A == w.addr
           size == Len(w.data)
           b == A + from
           c == b + n
           r == b % PageSize
<1>1. A \in Nat /\ size \in Nat /\ PageSize \in Nat /\ from + n <= size
  BY Sizes DEF Write_
<1>2. /\ p \in Write_ /\ p.addr = b /\ Len(p.data) = n
      /\ \A a \in Span(p) : a \in Span(w) /\ At(p, a) = At(w, a)
  BY PieceIs
<1>3. /\ r + n <= PageSize
      /\ from = 0 \/ r = 0
      /\ from + n = size \/ (n > 0 /\ c % PageSize = 0)
  OBVIOUS
<1> HIDE DEF p, A, size, r
<1>4. b \in Nat /\ c \in Nat
  BY <1>1
<1>5. r \in Nat /\ r <= b
  <2> HIDE DEF b
  <2> QED BY <1>4, OffsetOf DEF r
<1>6. ASSUME NEW a \in Span(w), InSector(a) = InSector(b)
      PROVE  a \in Span(p)
  <2>1. a \in Nat /\ a >= A /\ a < A + size
    BY SpanIs DEF A, size
  <2>2. b - r <= a /\ a < b - r + PageSize
    <3> HIDE DEF b
    <3> QED BY <1>4, <1>6, <2>1, SectorIsRange DEF r
  <2>3. a >= b
    <3>1. CASE from = 0
      BY <1>1, <2>1, <3>1
    <3>2. CASE r = 0
      BY <1>4, <2>1, <2>2, <3>2
    <3> QED BY <1>3, <3>1, <3>2
  <2>4. a < c
    <3>1. CASE from + n = size
      BY <1>1, <2>1, <3>1
    <3>2. CASE n > 0 /\ c % PageSize = 0
      <4> SUFFICES ASSUME a >= c PROVE FALSE
        BY <1>4, <2>1
      <4>1. b <= c /\ b < c
        BY <1>4, <3>2
      <4> HIDE DEF b, c
      <4>2. b - r <= c /\ c < b - r + PageSize
        BY <1>1, <1>4, <1>5, <2>1, <2>2, <4>1
      <4>3. InSector(b) = InSector(c)
        BY <1>4, <4>2, SectorIsRange DEF r
      <4>4. c - (c % PageSize) <= b
        BY <1>4, <4>3, SectorIsRange
      <4>5. c <= b
        BY <1>4, <3>2, <4>4
      <4> QED BY <1>4, <4>1, <4>5
    <3> QED BY <1>3, <3>1, <3>2
  <2>5. a >= p.addr /\ a < p.addr + Len(p.data)
    BY <1>2, <2>3, <2>4
  <2> QED BY <1>2, <2>1, <2>5, SpanIs
<1>7. (p.addr % PageSize) + Len(p.data) <= PageSize
  BY <1>2, <1>3 DEF r
<1>8. \A a \in Span(w) : InSector(a) = InSector(p.addr) => a \in Span(p)
  BY <1>2, <1>6
<1> QED BY <1>2, <1>7, <1>8 DEF Part, p

(* A range within one sector is its own only piece.                        *)
LEMMA WholeIsPart ==
  ASSUME NEW w \in Write_, (w.addr % PageSize) + Len(w.data) <= PageSize
  PROVE  Part(w, w)
PROOF BY DEF Part

Parts(s, w) == s \in Seq(Write_) /\ \A k \in DOMAIN s : Part(s[k], w)

(* Every address from the first up to, and without, the second is in one.  *)
Covers(s, from, to) == \A a \in from .. (to - 1) : \E k \in DOMAIN s : a \in Span(s[k])

(* Pieces one after the other.                                             *)
LEMMA PartsJoined ==
  ASSUME NEW w, NEW s, NEW t, Parts(s, w), Parts(t, w)
  PROVE  Parts(s \o t, w)
<1>1. s \in Seq(Write_) /\ t \in Seq(Write_)
  BY DEF Parts
<1>2. /\ s \o t \in Seq(Write_) /\ DOMAIN (s \o t) = 1 .. (Len(s) + Len(t))
      /\ Len(s) \in Nat /\ Len(t) \in Nat
      /\ \A k \in 1 .. (Len(s) + Len(t)) :
           (s \o t)[k] = IF k <= Len(s) THEN s[k] ELSE t[k - Len(s)]
  BY <1>1
<1>3. ASSUME NEW k \in 1 .. (Len(s) + Len(t)) PROVE Part((s \o t)[k], w)
  <2>1. CASE k <= Len(s)
    BY <1>1, <1>2, <2>1 DEF Parts
  <2>2. CASE k > Len(s)
    <3>1. k - Len(s) \in DOMAIN t
      BY <1>1, <1>2, <2>2
    <3> QED BY <1>2, <2>2, <3>1 DEF Parts
  <2> QED BY <1>2, <2>1, <2>2
<1> QED BY <1>2, <1>3 DEF Parts

LEMMA CoversJoined ==
  ASSUME NEW s \in Seq(Write_), NEW t \in Seq(Write_),
         NEW from \in Int, NEW mid \in Int, NEW to \in Int,
         Covers(s, from, mid), Covers(t, mid, to)
  PROVE  Covers(s \o t, from, to)
<1>1. /\ DOMAIN (s \o t) = 1 .. (Len(s) + Len(t)) /\ Len(s) \in Nat /\ Len(t) \in Nat
      /\ DOMAIN s = 1 .. Len(s) /\ DOMAIN t = 1 .. Len(t)
      /\ \A k \in 1 .. (Len(s) + Len(t)) :
           (s \o t)[k] = IF k <= Len(s) THEN s[k] ELSE t[k - Len(s)]
  OBVIOUS
<1>2. ASSUME NEW a \in from .. (to - 1)
      PROVE  \E k \in DOMAIN (s \o t) : a \in Span((s \o t)[k])
  <2>1. CASE a < mid
    <3>1. PICK k \in DOMAIN s : a \in Span(s[k])
      BY <2>1 DEF Covers
    <3>2. k \in DOMAIN (s \o t) /\ (s \o t)[k] = s[k]
      BY <1>1
    <3> QED BY <3>1, <3>2
  <2>2. CASE a >= mid
    <3>1. PICK k \in DOMAIN t : a \in Span(t[k])
      BY <2>2 DEF Covers
    <3>2. Len(s) + k \in DOMAIN (s \o t) /\ (s \o t)[Len(s) + k] = t[k]
      BY <1>1
    <3> QED BY <3>1, <3>2
  <2> QED BY <2>1, <2>2
<1> QED BY <1>2 DEF Covers

(* A single piece.                                                         *)
LEMMA OnePiece ==
  ASSUME NEW w, NEW p, Part(p, w), NEW from \in Int, NEW to \in Int,
         p.addr = from, from + Len(p.data) = to
  PROVE  Parts(<<p>>, w) /\ <<p>> \in Seq(Write_) /\ Covers(<<p>>, from, to)
<1>1. <<p>> \in Seq(Write_)
  BY DEF Part
<1>2. DOMAIN <<p>> = {1} /\ <<p>>[1] = p
  OBVIOUS
<1>3. Span(p) = from .. (to - 1)
  BY DEF Span, First, Last
<1> QED BY <1>1, <1>2, <1>3 DEF Parts, Covers

LEMMA PairOfPieces ==
  ASSUME NEW p \in Write_, NEW u \in Write_
  PROVE  <<p>> \o <<u>> = <<p, u>>
<1>1. <<p>> \in Seq(Write_) /\ <<u>> \in Seq(Write_) /\ <<p, u>> \in Seq(Write_)
      /\ Len(<<p>>) = 1 /\ Len(<<u>>) = 1 /\ Len(<<p, u>>) = 2
  OBVIOUS
<1>2. <<p>> \o <<u>> \in Seq(Write_) /\ Len(<<p>> \o <<u>>) = 2
      /\ \A k \in 1 .. 2 : (<<p>> \o <<u>>)[k] = <<p, u>>[k]
  BY <1>1
<1> QED BY <1>1, <1>2, SeqEqual

LEMMA WholeSectors ==
  ASSUME NEW q \in Nat
  PROVE  (PageSize * q) % PageSize = 0 /\ PageSize * q \in Nat
PROOF BY Sizes

(* An address stays at the edge of a sector by whole sectors.              *)
LEMMA AtEdge ==
  ASSUME NEW b \in Nat, b % PageSize = 0, NEW j \in Nat
  PROVE  b + j * PageSize \in Nat /\ (b + j * PageSize) % PageSize = 0
<1> DEFINE q == InSector(b)
<1>1. q \in Nat /\ b = PageSize * q /\ PageSize \in Nat /\ PageSize > 0
  BY SectorOf, Sizes
<1> HIDE DEF q
<1>2. b + j * PageSize = PageSize * (q + j) /\ q + j \in Nat
  BY <1>1
<1> QED BY <1>2, WholeSectors

(* The loop over whole pages, and the rest, from the edge of a sector on.  *)
LEMMA PagesPart ==
  ASSUME NEW w \in Write_, NEW from \in Nat, from <= Len(w.data),
         (w.addr + from) % PageSize = 0
  PROVE  LET size == Len(w.data)
             m == (size - from) % PageSize
         IN  /\ Parts(Pages(w, from), w) /\ Part(Single(w, from), w)
             /\ m \in Nat /\ m <= size - from
             /\ Covers(Pages(w, from), w.addr + from, w.addr + size - m)
             /\ Single(w, from).addr = w.addr + size - m /\ Len(Single(w, from).data) = m
<1> DEFINE size == Len(w.data)
           L == size - from
           m == L % PageSize
           n == L \div PageSize
           b == w.addr + from
           s == Pages(w, from)
<1>1. /\ w.addr \in Nat /\ size \in Nat /\ L \in Nat /\ b \in Nat /\ b % PageSize = 0
      /\ PageSize \in Nat /\ PageSize > 0
  BY Sizes DEF Write_
<1>2. m \in Nat /\ m <= L /\ m < PageSize /\ n \in Nat /\ L = PageSize * n + m
  <2> HIDE DEF L
  <2>1. m \in 0 .. PageSize - 1 /\ n \in Nat /\ L = PageSize * n + m
    BY <1>1, SectorOf DEF InSector
  <2> QED BY <1>1, <2>1, OffsetOf
<1>11. L = size - from /\ b = w.addr + from /\ size = Len(w.data)
  OBVIOUS
<1>3. \A j \in Nat : b + j * PageSize \in Nat /\ (b + j * PageSize) % PageSize = 0
                     /\ j * PageSize \in Nat
  <2> SUFFICES ASSUME NEW j \in Nat
               PROVE  /\ b + j * PageSize \in Nat /\ (b + j * PageSize) % PageSize = 0
                      /\ j * PageSize \in Nat
    OBVIOUS
  <2> HIDE DEF b
  <2>1. j * PageSize \in Nat
    BY <1>1
  <2> QED BY <1>1, <2>1, AtEdge
<1>4. s = [k \in 1 .. n |-> Piece(w, from + (k - 1) * PageSize, PageSize)]
      /\ Single(w, from) = Piece(w, size - m, m)
  BY DEF Pages, Single
<1> HIDE DEF size, L, m, n, b, s
<1>5. ASSUME NEW k \in 1 .. n
      PROVE  /\ Part(s[k], w) /\ s[k].addr = b + (k - 1) * PageSize
             /\ Len(s[k].data) = PageSize
  <2> DEFINE j == k - 1
             f == from + j * PageSize
  <2>1. j \in Nat /\ j + 1 <= n /\ s[k] = Piece(w, f, PageSize)
    BY <1>2, <1>4
  <2> HIDE DEF j
  <2>2. j * PageSize \in Nat /\ (j + 1) * PageSize = j * PageSize + PageSize
    BY <1>1, <2>1
  <2>3. (j + 1) * PageSize <= n * PageSize /\ n * PageSize = PageSize * n /\ n * PageSize \in Nat
    BY <1>1, <1>2, <2>1
  <2>4. f \in Nat /\ f + PageSize <= size
    <3> DEFINE u == j * PageSize
               v == n * PageSize
    <3>1. u \in Nat /\ v \in Nat /\ u + PageSize <= v /\ v + m = L /\ from + L = size
      BY <1>1, <1>2, <1>11, <2>2, <2>3
    <3> HIDE DEF u, v
    <3>2. from + u \in Nat /\ from + u + PageSize <= size
      BY <1>1, <1>2, <3>1
    <3> QED BY <3>2 DEF u
  <2>5. /\ w.addr + f = b + j * PageSize
        /\ w.addr + f + PageSize = b + (j + 1) * PageSize
    <3> DEFINE u == j * PageSize
               v == (j + 1) * PageSize
    <3>1. u \in Nat /\ v = u + PageSize
      BY <2>2
    <3> HIDE DEF u, v
    <3> DEFINE A == w.addr
    <3>2. A \in Nat /\ b = A + from /\ PageSize \in Nat
      BY <1>1, <1>11
    <3> HIDE DEF A
    <3>3. A + (from + u) = b + u /\ A + (from + u) + PageSize = b + v
      BY <3>1, <3>2
    <3> QED BY <3>3 DEF u, v, A
  <2>6. (w.addr + f) % PageSize = 0 /\ (w.addr + f + PageSize) % PageSize = 0
    BY <1>3, <2>1, <2>5
  <2> HIDE DEF f
  <2>7. Part(Piece(w, f, PageSize), w)
    BY <1>1, <1>11, <2>4, <2>6, PieceIsPart
  <2>8. Piece(w, f, PageSize).addr = w.addr + f /\ Len(Piece(w, f, PageSize).data) = PageSize
    BY <1>1, <1>11, <2>4, PieceIs
  <2> QED BY <2>1, <2>5, <2>7, <2>8 DEF j
<1>6. s \in Seq(Write_) /\ DOMAIN s = 1 .. n
  <2>1. \A k \in 1 .. n : s[k] \in Write_
    BY <1>5 DEF Part
  <2> QED BY <1>2, <1>4, <2>1
<1>7. Parts(s, w)
  BY <1>5, <1>6 DEF Parts
<1>8. Part(Single(w, from), w) /\ Single(w, from).addr = w.addr + size - m
      /\ Len(Single(w, from).data) = m
  <2>1. n * PageSize = L - m /\ w.addr + (size - m) = b + n * PageSize
    <3>1. n * PageSize = PageSize * n /\ n * PageSize \in Nat
      BY <1>1, <1>2
    <3> DEFINE u == n * PageSize
    <3>2. u = L - m /\ u \in Nat /\ m \in Nat
      BY <1>1, <1>2, <3>1
    <3> HIDE DEF u
    <3>3. w.addr + (size - m) = b + u
      <4>1. size - m = from + u /\ size \in Nat /\ w.addr \in Nat
        BY <1>1, <1>11, <3>2
      <4>2. w.addr + (from + u) = (w.addr + from) + u
        BY <4>1, <3>2
      <4> QED BY <1>11, <4>1, <4>2
    <3> QED BY <3>2, <3>3 DEF u
  <2>2. (w.addr + (size - m)) % PageSize = 0
    BY <1>2, <1>3, <2>1
  <2> DEFINE f == size - m
  <2>3. f \in Nat /\ f + m = size /\ w.addr + f = w.addr + size - m
    BY <1>1, <1>2, <1>11
  <2>4. (w.addr + f) % PageSize = 0 /\ Single(w, from) = Piece(w, f, m)
    BY <1>4, <2>2
  <2> HIDE DEF f
  <2>5. Part(Piece(w, f, m), w)
    <3>1. ((w.addr + f) % PageSize) + m <= PageSize
      BY <1>1, <1>2, <2>4
    <3> QED BY <1>2, <1>11, <2>3, <2>4, <3>1, PieceIsPart
  <2>6. Piece(w, f, m).addr = w.addr + f /\ Len(Piece(w, f, m).data) = m
    <3>1. f \in Nat /\ m \in Nat /\ f + m <= Len(w.data)
      BY <1>2, <1>11, <2>3
    <3> QED BY <3>1, PieceIs
  <2> QED BY <2>3, <2>4, <2>5, <2>6
<1>12. w.addr + size - m = b + (L - m)
  <2> DEFINE A == w.addr
  <2>1. A \in Nat /\ size \in Nat /\ L = size - from /\ b = A + from
    BY <1>1, <1>11
  <2> HIDE DEF A
  <2>2. A + size - m = b + (L - m)
    BY <1>1, <1>2, <2>1
  <2> QED BY <2>2 DEF A
<1> DEFINE e == b + (L - m)
<1>13. e = b + (L - m)
  OBVIOUS
<1> HIDE DEF e
<1>9. ASSUME NEW a \in b .. (e - 1)
      PROVE  \E k \in DOMAIN s : a \in Span(s[k])
  <2> DEFINE o == a - b
             q == o \div PageSize
  <2>1. o \in Nat /\ o < L - m /\ a = b + o
    BY <1>1, <1>2, <1>13
  <2> HIDE DEF o
  <2>2. q \in Nat /\ PageSize * q <= o /\ o < PageSize * q + PageSize
    <3>1. q \in Nat /\ o % PageSize \in 0 .. PageSize - 1 /\ o = PageSize * q + (o % PageSize)
      BY <2>1, SectorOf DEF InSector
    <3> HIDE DEF q
    <3>2. PageSize * q \in Nat
      BY <1>1, <3>1
    <3> QED BY <1>1, <2>1, <3>1, <3>2
  <2> HIDE DEF q
  <2>3. q < n
    <3>1. q >= n => PageSize * q >= PageSize * n
      BY <1>1, <1>2, <2>2
    <3>2. PageSize * q \in Nat /\ PageSize * n \in Nat
      BY <1>1, <1>2, <2>2
    <3> QED BY <1>2, <2>1, <2>2, <3>1, <3>2
  <2>4. q + 1 \in 1 .. n /\ (q + 1) - 1 = q
    BY <1>2, <2>2, <2>3
  <2>5. s[q + 1].addr = b + q * PageSize /\ Len(s[q + 1].data) = PageSize
    BY <1>5, <2>4
  <2>6. a = b + o /\ q * PageSize = PageSize * q /\ q * PageSize \in Nat
    BY <1>1, <2>1, <2>2
  <2>7. a \in Span(s[q + 1])
    BY <1>1, <2>1, <2>2, <2>5, <2>6 DEF Span, First, Last
  <2> QED BY <1>6, <2>4, <2>7
<1>10. Covers(s, b, w.addr + size - m)
  <2>1. Covers(s, b, e)
    BY <1>9 DEF Covers
  <2>2. w.addr + size - m = e
    BY <1>12, <1>13
  <2> QED BY <2>1, <2>2
<1> QED BY <1>2, <1>7, <1>8, <1>10 DEF s, b, m, L, size

(* The case split of sf_WriteBuffer: every piece is the part of the range  *)
(* that lies in one sector, and the pieces together are the range.         *)
LEMMA PiecesPart ==
  ASSUME NEW w \in Write_
  PROVE  Parts(Pieces(w), w) /\ Covers(Pieces(w), w.addr, w.addr + Len(w.data))
<1> DEFINE A == w.addr
           size == Len(w.data)
           end == A + size
           Addr == A % PageSize
           count == PageSize - Addr
           next == A + count
           P == Pieces(w)
<1>1. A \in Nat /\ size \in Nat /\ end \in Nat /\ PageSize \in Nat /\ PageSize > 0
  BY Sizes DEF Write_
<1>2. Addr \in Nat /\ count \in Nat /\ count > 0 /\ Addr + count = PageSize
      /\ (Addr = 0 => count = PageSize)
  <2>1. Addr \in 0 .. PageSize - 1
    BY <1>1, SectorOf
  <2> HIDE DEF Addr
  <2> QED BY <1>1, <2>1
<1>3. next \in Nat /\ next % PageSize = 0
  <2> DEFINE q == InSector(A)
  <2>0. q \in Nat
    BY <1>1, SectorOf
  <2>1. q \in Nat /\ A = PageSize * q + Addr
    BY <1>1, SectorOf
  <2> HIDE DEF q, Addr, A
  <2>2. PageSize * (q + 1) = PageSize * q + PageSize /\ PageSize * q \in Nat
    BY <1>1, <2>1
  <2>3. next = PageSize * (q + 1)
    BY <1>1, <1>2, <2>1, <2>2
  <2>4. (PageSize * (q + 1)) % PageSize = 0 /\ PageSize * (q + 1) \in Nat
    <3>1. q + 1 \in Nat
      BY <2>0
    <3> QED BY <3>1, WholeSectors, Zenon
  <2> HIDE DEF next
  <2> QED BY <2>3, <2>4, Zenon
<1>4. /\ Addr = 0 /\ size < PageSize => P = <<w>>
      /\ Addr = 0 /\ ~(size < PageSize) => P = Pages(w, 0) \o <<Single(w, 0)>>
      /\ Addr # 0 /\ size < PageSize /\ size > count =>
           P = <<Piece(w, 0, count), Piece(w, count, size - count)>>
      /\ Addr # 0 /\ size < PageSize /\ ~(size > count) => P = <<w>>
      /\ Addr # 0 /\ ~(size < PageSize) =>
           P = <<Piece(w, 0, count)>> \o Pages(w, count)
                 \o (IF (size - count) % PageSize # 0 THEN <<Single(w, count)>> ELSE <<>>)
  <2>1. ~(size < PageSize) <=> size >= PageSize
    BY <1>1
  <2>2. ~(size > count) <=> size <= count
    <3> HIDE DEF size, count
    <3> QED BY <1>1, <1>2
  <2> QED BY <2>1, <2>2, Zenon DEF Pieces
<1>5. A + 0 = A /\ (A + 0) % PageSize = Addr /\ end = A + size /\ next = A + count
  BY <1>1
<1>6. w \in Write_ /\ w.addr = A /\ Len(w.data) = size
  OBVIOUS
<1>7. ASSUME Addr + size <= PageSize, P = <<w>>
      PROVE  Parts(P, w) /\ Covers(P, A, end)
  <2>1. Part(w, w)
    BY <1>7, WholeIsPart
  <2>2. A \in Int /\ end \in Int
    BY <1>1
  <2> QED BY <1>7, <2>1, <2>2, OnePiece
<1> HIDE DEF A, size, end, Addr, count, next, P
<1>8. ASSUME size >= count
      PROVE  Part(Piece(w, 0, count), w) /\ Parts(<<Piece(w, 0, count)>>, w)
             /\ <<Piece(w, 0, count)>> \in Seq(Write_)
             /\ Covers(<<Piece(w, 0, count)>>, A, next)
  <2> DEFINE p == Piece(w, 0, count)
  <2>1. /\ 0 + count <= size /\ ((A + 0) % PageSize) + count <= PageSize
        /\ A + 0 + count = next
    BY <1>1, <1>2, <1>5, <1>8
  <2>2. Part(p, w)
    BY <1>2, <1>3, <1>6, <2>1, PieceIsPart
  <2>3. p.addr = A + 0 /\ Len(p.data) = count
    BY <1>2, <1>6, <2>1, PieceIs
  <2>4. p.addr = A /\ A + Len(p.data) = next /\ A \in Int /\ next \in Int
    BY <1>1, <1>3, <1>5, <2>3
  <2> HIDE DEF p
  <2> QED BY <2>2, <2>4, OnePiece DEF p
<1>9. CASE Addr = 0 /\ size < PageSize
  BY <1>1, <1>4, <1>7, <1>9 DEF P, A, end, size
<1>10. CASE Addr # 0 /\ size < PageSize /\ ~(size > count)
  <2>1. Addr + size <= PageSize
    BY <1>1, <1>2, <1>10
  <2> QED BY <1>4, <1>7, <1>10, <2>1 DEF P, A, end, size
<1>11. CASE Addr = 0 /\ ~(size < PageSize)
  <2> DEFINE m == (size - 0) % PageSize
             s == Pages(w, 0)
             p == Single(w, 0)
             e == A + size - m
  <2>1. P = s \o <<p>>
    BY <1>4, <1>11
  <2>2. /\ Parts(s, w) /\ Part(p, w) /\ m \in Nat
        /\ Covers(s, A + 0, e) /\ p.addr = e /\ Len(p.data) = m
    <3>1. 0 \in Nat /\ 0 <= Len(w.data) /\ (w.addr + 0) % PageSize = 0
      BY <1>1, <1>5, <1>6, <1>11
    <3> QED BY <1>6, <3>1, PagesPart
  <2> HIDE DEF s, p, m
  <2>3. e \in Int /\ e + m = end /\ A \in Int /\ end \in Int
    BY <1>1, <1>5, <2>2
  <2> HIDE DEF e
  <2>4. Parts(<<p>>, w) /\ <<p>> \in Seq(Write_) /\ Covers(<<p>>, e, end)
    BY <2>2, <2>3, OnePiece
  <2>5. Covers(s, A, e) /\ s \in Seq(Write_)
    BY <1>5, <2>2 DEF Parts
  <2>6. Covers(s \o <<p>>, A, end)
    BY <2>3, <2>4, <2>5, CoversJoined
  <2> QED BY <2>1, <2>2, <2>4, <2>6, PartsJoined DEF P, A, end, size
<1>12. CASE Addr # 0 /\ size < PageSize /\ size > count
  <2> DEFINE p == Piece(w, 0, count)
             n == size - count
             u == Piece(w, count, n)
  <2>1. P = <<p, u>>
    BY <1>4, <1>12
  <2>2. /\ Part(p, w) /\ Parts(<<p>>, w) /\ <<p>> \in Seq(Write_)
        /\ Covers(<<p>>, A, next)
    BY <1>1, <1>2, <1>8, <1>12
  <2>3. n \in Nat /\ count + n = size /\ n <= PageSize /\ next + n = end
        /\ A \in Int /\ next \in Int /\ end \in Int
    BY <1>1, <1>2, <1>3, <1>5, <1>12
  <2> HIDE DEF n
  <2>4. count + n <= Len(w.data) /\ count + n = Len(w.data)
    BY <1>1, <1>6, <2>3
  <2>5. Part(u, w)
    <3>1. ((A + count) % PageSize) + n <= PageSize /\ (A + count) % PageSize = 0
      BY <1>1, <1>3, <1>5, <2>3
    <3> QED BY <1>2, <1>6, <2>3, <2>4, <3>1, PieceIsPart
  <2>6. u.addr = next /\ Len(u.data) = n
    <3>1. u.addr = w.addr + count /\ Len(u.data) = n
      BY <1>2, <2>3, <2>4, PieceIs
    <3> QED BY <1>5, <1>6, <3>1
  <2> HIDE DEF p, u
  <2>7. Parts(<<u>>, w) /\ <<u>> \in Seq(Write_) /\ Covers(<<u>>, next, end)
    BY <2>3, <2>5, <2>6, OnePiece
  <2>8. Covers(<<p>> \o <<u>>, A, end) /\ Parts(<<p>> \o <<u>>, w)
    BY <2>2, <2>3, <2>7, CoversJoined, PartsJoined
  <2>9. <<p>> \o <<u>> = <<p, u>>
    BY <2>2, <2>5, PairOfPieces DEF Part
  <2> QED BY <2>1, <2>8, <2>9 DEF P, A, end, size
<1>13. CASE Addr # 0 /\ ~(size < PageSize)
  <2> DEFINE m == (size - count) % PageSize
             p == Piece(w, 0, count)
             s == Pages(w, count)
             u == Single(w, count)
             e == A + size - m
             front == <<p>> \o s
  <2>1. P = front \o (IF m # 0 THEN <<u>> ELSE <<>>)
    BY <1>4, <1>13
  <2>2. count <= size /\ size >= count
    BY <1>1, <1>2, <1>13
  <2>3. Parts(<<p>>, w) /\ <<p>> \in Seq(Write_) /\ Covers(<<p>>, A, next)
    BY <1>8, <2>2
  <2>4. /\ Parts(s, w) /\ Part(u, w) /\ m \in Nat
        /\ Covers(s, A + count, e) /\ u.addr = e /\ Len(u.data) = m
    <3>1. count <= Len(w.data) /\ (w.addr + count) % PageSize = 0
      BY <1>3, <1>5, <1>6, <2>2
    <3> QED BY <1>2, <1>6, <3>1, PagesPart
  <2> HIDE DEF m, p, s, u
  <2>5. e \in Int /\ e + m = end /\ A \in Int /\ next \in Int /\ end \in Int
    BY <1>1, <1>3, <1>5, <2>4
  <2> HIDE DEF e
  <2>6. Covers(s, next, e) /\ s \in Seq(Write_)
    BY <1>5, <2>4 DEF Parts
  <2>7. Parts(front, w) /\ Covers(front, A, e)
    BY <2>3, <2>4, <2>5, <2>6, PartsJoined, CoversJoined
  <2> HIDE DEF front
  <2>8. front \in Seq(Write_)
    BY <2>7 DEF Parts
  <2>9. CASE m # 0
    <3>1. Parts(<<u>>, w) /\ <<u>> \in Seq(Write_) /\ Covers(<<u>>, e, end)
      BY <2>4, <2>5, OnePiece
    <3>2. Covers(front \o <<u>>, A, end) /\ Parts(front \o <<u>>, w)
      BY <2>5, <2>7, <2>8, <3>1, CoversJoined, PartsJoined
    <3> QED BY <2>1, <2>9, <3>2 DEF P, A, end, size
  <2>10. CASE m = 0
    <3>1. e = end
      BY <2>5, <2>10
    <3>2. front \o <<>> = front
      BY <2>8
    <3> QED BY <2>1, <2>7, <2>10, <3>1, <3>2 DEF P, A, end, size
  <2> QED BY <2>9, <2>10
<1> QED BY <1>9, <1>10, <1>11, <1>12, <1>13

LEMMA FillIs ==
  ASSUME NEW addr \in Nat, NEW n \in Nat, NEW v \in Byte
  PROVE  /\ Fill(addr, n, v) \in Write_ /\ Span(Fill(addr, n, v)) = addr .. (addr + n - 1)
         /\ \A a \in Span(Fill(addr, n, v)) : At(Fill(addr, n, v), a) = v
<1> DEFINE d == [k \in 1 .. n |-> v]
<1>1. d \in Seq(Byte) /\ Len(d) = n /\ \A k \in 1 .. n : d[k] = v
  OBVIOUS
<1>2. Fill(addr, n, v) = [addr |-> addr, data |-> d]
  BY DEF Fill
<1> HIDE DEF d
<1>3. Span(Fill(addr, n, v)) = addr .. (addr + n - 1)
  BY <1>1, <1>2 DEF Span, First, Last
<1>4. ASSUME NEW a \in addr .. (addr + n - 1) PROVE At(Fill(addr, n, v), a) = v
  <2>1. a - addr + 1 \in 1 .. n
    OBVIOUS
  <2> QED BY <1>1, <1>2, <2>1 DEF At
<1> QED BY <1>1, <1>2, <1>3, <1>4 DEF Write_

-----------------------------------------------------------------------------
(* The sector of the piece under way                                       *)

SectorIs ==
  /\ uiFirstAddr \in Nat /\ w0.addr \in Nat /\ w0 = todo[1] /\ 1 \in DOMAIN todo
  /\ Sector \subseteq Address
  /\ \A a \in Nat : a \in Sector <=> InSector(a) = InSector(w0.addr)
  /\ \A a \in Sector : a - uiFirstAddr \in 0 .. PageSize - 1
  /\ \A a \in Span(w0) : a \in Sector /\ a \in Span(call) /\ At(w0, a) = At(call, a)
  /\ \A a \in Sector : a \in Span(call) => a \in Span(w0)
  /\ w0.addr \in Span(call)

LEMMA SectorFacts ==
  ASSUME todo \in Seq(Write_), todo # <<>>, \A k \in DOMAIN todo : Part(todo[k], call),
         call \in Write_, Len(w0.data) > 0, w0.addr < TotalSize
  PROVE  SectorIs
<1> DEFINE b == w0.addr
           r == b % PageSize
<1>1. w0 = todo[1] /\ 1 \in DOMAIN todo /\ w0 \in Write_ /\ Part(w0, call)
  BY DEF w0
<1>2. b \in Nat /\ Len(w0.data) \in Nat /\ w0.data \in Seq(Byte)
      /\ call.addr \in Nat /\ Len(call.data) \in Nat
  BY <1>1 DEF Write_
<1>3. r \in Nat /\ r <= b /\ r + Len(w0.data) <= PageSize /\ PageSize \in Nat /\ PageSize > 0
  BY <1>1, <1>2, OffsetOf, Sizes DEF Part
<1>4. uiFirstAddr = b - r
  BY DEF uiFirstAddr
<1>5. Sector = (b - r) .. ((b - r) + PageSize - 1)
  BY <1>4 DEF Sector
<1>6. Span(w0) = b .. (b + Len(w0.data) - 1)
  BY DEF Span, First, Last
<1>7. \A a \in Nat : a \in Sector <=> InSector(a) = InSector(b)
  <2> SUFFICES ASSUME NEW a \in Nat
               PROVE  a \in Sector <=> InSector(a) = InSector(b)
    OBVIOUS
  <2>1. InSector(a) = InSector(b) <=> b - r <= a /\ a < (b - r) + PageSize
    BY <1>2, SectorIsRange
  <2> HIDE DEF b, r
  <2> QED BY <1>2, <1>3, <1>5, <2>1
<1>8. ASSUME NEW a \in Sector
      PROVE  a \in Nat /\ a \in Address /\ a - uiFirstAddr \in 0 .. PageSize - 1
  <2> HIDE DEF r
  <2>1. a \in Nat /\ a - uiFirstAddr \in 0 .. PageSize - 1
    <3> HIDE DEF b
    <3> QED BY <1>2, <1>3, <1>4, <1>5, <1>8
  <2> QED BY <1>2, <1>7, <2>1, SectorInChip
<1>9. ASSUME NEW a \in Span(w0)
      PROVE  a \in Sector /\ a \in Span(call) /\ At(w0, a) = At(call, a)
  <2> HIDE DEF r, b
  <2>1. a \in Sector
    BY <1>2, <1>3, <1>5, <1>6
  <2> QED BY <1>1, <2>1 DEF Part
<1>10. \A a \in Sector : a \in Span(call) => a \in Span(w0)
  BY <1>1, <1>7, <1>8 DEF Part
<1>11. b \in Span(w0)
  BY <1>2, <1>6
<1>12. uiFirstAddr \in Nat
  <2> HIDE DEF r, b
  <2> QED BY <1>2, <1>3, <1>4
<1> QED BY <1>1, <1>2, <1>7, <1>8, <1>9, <1>10, <1>11, <1>12 DEF SectorIs

(* The sector under way while it is erased, programmed and compared.       *)
LEMMA ActiveSector ==
  ASSUME TypeOK, PartsLeft, Merged, pc \in Active
  PROVE  SectorIs
PROOF BY SectorFacts DEF TypeOK, PartsLeft, Merged, Writing

(* The bytes of one program command are of the sector under way.           *)
LEMMA CommandInSector ==
  ASSUME TypeOK, SectorIs, page < PageSize \div PROG
  PROVE  /\ PageBytes \subseteq Sector /\ page * PROG \in Nat
         /\ (page + 1) * PROG = page * PROG + PROG
         /\ \A a \in Sector : a < uiFirstAddr + (page + 1) * PROG
              => a < uiFirstAddr + page * PROG \/ a \in PageBytes
<1> DEFINE n == PageSize \div PROG
           u == page * PROG
<1>1. page \in Nat /\ n \in Nat /\ page < n /\ PROG \in Nat /\ PageSize \in Nat
      /\ PageSize = n * PROG /\ uiFirstAddr \in Nat
  BY Sizes DEF TypeOK, SectorIs
<1> HIDE DEF n
<1>2. u \in Nat /\ (page + 1) * PROG = u + PROG /\ (page + 1) * PROG <= n * PROG
  BY <1>1
<1>3. PageBytes = (uiFirstAddr + u) .. (uiFirstAddr + u + PROG - 1)
  BY DEF PageBytes
<1>4. Sector = uiFirstAddr .. (uiFirstAddr + PageSize - 1)
  BY DEF Sector
<1> HIDE DEF u
<1>5. PageBytes \subseteq Sector
  BY <1>1, <1>2, <1>3, <1>4
<1>6. \A a \in Sector : a < uiFirstAddr + (u + PROG) => a < uiFirstAddr + u \/ a \in PageBytes
  BY <1>1, <1>2, <1>3, <1>4
<1> QED BY <1>2, <1>5, <1>6 DEF u

-----------------------------------------------------------------------------
(* Types                                                                   *)

LEMMA Callers ==
  /\ Fill(0, TotalSize, Bits) \in Write_ /\ Fill(MarkAt, MarkLen, Marker) \in Write_
  /\ Fill(CountAt, CountLen, {}) \in Write_
  /\ \A c \in Calls, v \in Byte : Fill(c[1], c[2], v) \in Write_
<1>1. /\ MarkAt \in Nat /\ MarkLen \in Nat /\ CountAt \in Nat /\ CountLen \in Nat
      /\ TotalSize \in Nat /\ Marker \in Byte
      /\ \A c \in Calls : c[1] \in Nat /\ c[2] \in Nat
  BY FlashAssumption, Sizes
<1>2. Bits \in Byte /\ {} \in Byte
  BY DEF Byte
<1> QED BY <1>1, <1>2, FillIs

LEMMA InitTypes == Init => TypeOK
<1> SUFFICES ASSUME Init PROVE TypeOK
  OBVIOUS
<1> USE DEF Init
<1>1. Bits \in Byte /\ {} \in Byte
  BY DEF Byte
<1>2. flash \in [Address -> Byte] /\ before \in [Address -> Byte]
  BY <1>1 DEF Erased
<1>3. s_spiBuf \in [0 .. PageSize - 1 -> Byte]
  BY <1>1
<1>4. call \in Write_ /\ todo \in Seq(Write_)
  BY DEF NoCall, Write_
<1>5. tries \in 0 .. TRIES - 1 /\ page \in 0 .. PageSize \div PROG /\ faults \in Nat
      /\ calls \in 0 .. MaxCalls /\ losses \in 0 .. MaxLosses /\ failed \in 0 .. MaxFaults
  BY FlashAssumption, Sizes DEF TRIES
<1> QED BY <1>2, <1>3, <1>4, <1>5 DEF TypeOK

(* What a program command leaves is a chip.                                *)
LEMMA ProgrammedTypes ==
  ASSUME NEW S, flash \in [Address -> Byte]
  PROVE  Programmed(S) \in [Address -> Byte]
PROOF BY DEF Programmed, Byte

(* The sector of a piece that is found to differ.                          *)
LEMMA ChangedSector ==
  ASSUME TypeOK, PartsLeft, PieceChanged
  PROVE  SectorIs /\ todo # <<>> /\ Len(w0.data) > 0 /\ w0.addr < TotalSize
<1>1. /\ pc = "auto" /\ todo # <<>> /\ Len(w0.data) # 0 /\ ~Refused(w0)
      /\ todo \in Seq(Write_) /\ call \in Write_
  BY DEF PieceChanged, TypeOK
<1>2. w0 \in Write_
  BY <1>1 DEF w0
<1>3. w0.addr \in Nat /\ Len(w0.data) \in Nat
  BY <1>2 DEF Write_
<1>4. Len(w0.data) > 0 /\ w0.addr < TotalSize
  BY <1>1, <1>3, Sizes DEF Refused
<1> QED BY <1>1, <1>4, SectorFacts DEF PartsLeft, Writing

(* Each step keeps the types.                                              *)
LEMMA TypesKept == TypeOK /\ PartsLeft /\ Merged /\ Programming /\ [Next]_vars => TypeOK'
<1> SUFFICES ASSUME TypeOK, PartsLeft, Merged, Programming, [Next]_vars PROVE TypeOK'
  OBVIOUS
<1> DEFINE Pcs == {"off", "boot", "chip", "idle", "auto", "erase", "program", "verify", "ret"}
<1>1. /\ flash \in [Address -> Byte] /\ before \in [Address -> Byte] /\ pc \in Pcs
      /\ todo \in Seq(Write_) /\ call \in Write_
      /\ then \in {"mark", "boot", "user"} /\ cRet \in {0, 1}
      /\ s_spiBuf \in [0 .. PageSize - 1 -> Byte]
      /\ ucNeedErase \in BOOLEAN /\ tries \in 0 .. TRIES - 1
      /\ page \in 0 .. PageSize \div PROG /\ faults \in Nat /\ ready \in BOOLEAN
      /\ calls \in 0 .. MaxCalls /\ losses \in 0 .. MaxLosses /\ failed \in 0 .. MaxFaults
  BY DEF TypeOK
<1>2. Bits \in Byte /\ Erased \in [Address -> Byte]
  BY DEF Byte, Erased
<1>3. 0 \in 0 .. TRIES - 1 /\ 0 \in 0 .. PageSize \div PROG /\ MaxCalls \in Nat
      /\ MaxLosses \in Nat /\ MaxFaults \in Nat
  BY FlashAssumption, Sizes DEF TRIES
<1>4. <<>> \in Seq(Write_) /\ (todo # <<>> => Tail(todo) \in Seq(Write_) /\ w0 \in Write_)
  BY <1>1 DEF w0
<1>5. ASSUME NEW w \in Write_, NEW from \in {"mark", "boot", "user"}, sf_WriteBuffer(w, from),
             flash' \in [Address -> Byte], cRet' = cRet, Idle, ready' \in BOOLEAN,
             calls' \in 0 .. MaxCalls, losses' = losses, failed' = failed
      PROVE  TypeOK'
  <2>1. Pieces(w) \in Seq(Write_)
    BY PiecesPart DEF Parts
  <2>2. /\ todo' = Pieces(w) /\ then' = from /\ pc' = "auto" /\ call' = w
        /\ before' = flash' /\ faults' = 0
        /\ UNCHANGED <<s_spiBuf, ucNeedErase, tries, page>>
    BY <1>5 DEF sf_WriteBuffer, Idle
  <2> QED BY <1>1, <1>5, <2>1, <2>2 DEF TypeOK
<1> HIDE DEF Pcs
<1>6. CASE UNCHANGED vars
  BY <1>6 DEF vars, counts, TypeOK
<1>7. CASE PowerOn \/ FoundUsed \/ Returned
  <2>1. pc' \in Pcs /\ UNCHANGED <<flash, todo, then, cRet, faults, s_spiBuf, ucNeedErase,
          tries, page, call, before, ready, calls, losses, failed>>
    BY <1>7 DEF PowerOn, FoundUsed, Returned, Idle, History, counts, Pcs
  <2> QED BY <1>1, <2>1 DEF TypeOK, Pcs
<1>8. CASE FoundNew
  <2>1. /\ pc' \in Pcs /\ call' = Fill(0, TotalSize, Bits) /\ before' = flash
        /\ UNCHANGED <<flash, todo, then, cRet, faults, s_spiBuf, ucNeedErase,
             tries, page, ready, calls, losses, failed>>
    BY <1>8 DEF FoundNew, Idle, counts, Pcs
  <2> QED BY <1>1, <2>1, Callers DEF TypeOK, Pcs
<1>9. CASE sf_EraseChip
  <2>1. flash' \in [Address -> Byte] /\ UNCHANGED <<cRet, ready, calls, losses, failed>> /\ Idle
    BY <1>2, <1>9 DEF sf_EraseChip, counts
  <2> QED BY <1>1, <1>5, <1>9, <2>1, Callers DEF sf_EraseChip
<1>10. CASE MarkWritten
  <2>1. flash' \in [Address -> Byte] /\ UNCHANGED <<cRet, calls, losses, failed>> /\ Idle
        /\ ready' \in BOOLEAN
    BY <1>1, <1>10 DEF MarkWritten, counts
  <2> QED BY <1>1, <1>5, <1>10, <2>1, Callers DEF MarkWritten
<1>11. ASSUME NEW c \in Calls, NEW v \in Byte, Write(c, v) PROVE TypeOK'
  <2>1. flash' \in [Address -> Byte] /\ UNCHANGED <<cRet, ready, losses, failed>> /\ Idle
        /\ calls' \in 0 .. MaxCalls
    BY <1>1, <1>3, <1>11 DEF Write
  <2>2. sf_WriteBuffer(Fill(c[1], c[2], v), "user") /\ Fill(c[1], c[2], v) \in Write_
    BY <1>11, Callers DEF Write
  <2> QED BY <1>1, <1>5, <2>1, <2>2
<1>12. CASE PieceDone \/ PieceRefused \/ AllWritten \/ Compared
  <2>1. /\ pc' \in Pcs /\ todo' \in Seq(Write_) /\ cRet' \in {0, 1}
        /\ UNCHANGED <<flash, then, faults, s_spiBuf, ucNeedErase,
             tries, page, call, before, ready, calls, losses, failed>>
    <3>1. Compared => todo # <<>>
      BY DEF Compared, Merged, Active
    <3>2. todo' \in Seq(Write_)
      BY <1>1, <1>4, <1>12, <3>1 DEF PieceDone, PieceRefused, AllWritten, Compared
    <3> QED BY <1>1, <1>12, <3>2
        DEF PieceDone, PieceRefused, AllWritten, Compared, Idle, History, counts, Pcs
  <2> QED BY <1>1, <2>1 DEF TypeOK, Pcs
<1>13. CASE PieceChanged
  <2>1. /\ s_spiBuf' = Image(w0) /\ ucNeedErase' = sf_NeedErase(w0) /\ tries' = 0 /\ page' = 0
        /\ pc' \in Pcs
        /\ UNCHANGED <<flash, todo, then, cRet, faults, call, before, ready, calls, losses, failed>>
    BY <1>13 DEF PieceChanged, History, counts, Pcs
  <2>2. sf_NeedErase(w0) \in BOOLEAN
    BY DEF sf_NeedErase
  <2>3. SectorIs
    BY <1>13, ChangedSector
  <2>4. ASSUME NEW k \in 0 .. PageSize - 1
        PROVE  (IF uiFirstAddr + k \in Span(w0) THEN At(w0, uiFirstAddr + k)
                ELSE flash[uiFirstAddr + k]) \in Byte
    <3> DEFINE a == uiFirstAddr + k
    <3>1. a \in Sector /\ a \in Address
      <4>1. uiFirstAddr \in Nat /\ PageSize \in Nat
        BY <2>3, Sizes DEF SectorIs
      <4> QED BY <2>3, <4>1 DEF SectorIs, Sector
    <3> HIDE DEF a
    <3>2. ASSUME a \in Span(w0) PROVE At(w0, a) \in Byte
      <4>1. w0.addr \in Nat /\ w0.data \in Seq(Byte) /\ Len(w0.data) \in Nat
        BY <1>4, <1>13 DEF Write_, PieceChanged
      <4>2. a - w0.addr + 1 \in 1 .. Len(w0.data)
        BY <3>2, <4>1 DEF Span, First, Last
      <4> QED BY <4>1, <4>2 DEF At
    <3>3. flash[a] \in Byte
      BY <1>1, <3>1
    <3> QED BY <3>2, <3>3 DEF a
  <2>5. s_spiBuf' \in [0 .. PageSize - 1 -> Byte]
    BY <2>1, <2>4 DEF Image
  <2> QED BY <1>1, <1>3, <2>1, <2>2, <2>5 DEF TypeOK, Pcs
<1>14. CASE sf_EraseSector
  <2>1. /\ flash' \in [Address -> Byte] /\ page' = 0 /\ pc' \in Pcs
        /\ UNCHANGED <<todo, then, cRet, s_spiBuf, ucNeedErase, tries, faults, call, before,
             ready, calls, losses, failed>>
    BY <1>1, <1>2, <1>14 DEF sf_EraseSector, History, counts, Pcs
  <2> QED BY <1>1, <1>3, <2>1 DEF TypeOK, Pcs
<1>15. CASE sf_PageWrite
  <2>1. /\ page' = page + 1 /\ pc = "program" /\ pc' \in Pcs
        /\ UNCHANGED <<todo, then, cRet, s_spiBuf, ucNeedErase, tries, call, before, calls, losses>>
    BY <1>15 DEF sf_PageWrite, Pcs
  <2>2. page' \in 0 .. PageSize \div PROG
    BY <1>1, <1>15, <2>1, Sizes DEF Programming
  <2>3. flash' \in [Address -> Byte]
    BY <1>1, <1>15, ProgrammedTypes DEF sf_PageWrite
  <2>4. faults' \in Nat /\ failed' \in 0 .. MaxFaults /\ ready' \in BOOLEAN
    <3>1. CASE UNCHANGED <<faults, failed, ready>>
      BY <1>1, <3>1
    <3>2. CASE /\ failed < MaxFaults /\ faults' = faults + 1 /\ failed' = failed + 1
               /\ \E a \in PageBytes : ready' = (ready /\ a - MarkAt \notin Tested)
      <4>1. faults' \in Nat /\ failed' \in 0 .. MaxFaults
        BY <1>1, <1>3, <3>2
      <4>2. ready' \in BOOLEAN
        BY <3>2, Zenon
      <4> QED BY <4>1, <4>2
    <3>3. \/ UNCHANGED <<faults, failed, ready>>
          \/ /\ failed < MaxFaults /\ faults' = faults + 1 /\ failed' = failed + 1
             /\ \E a \in PageBytes : ready' = (ready /\ a - MarkAt \notin Tested)
      BY <1>15, Zenon DEF sf_PageWrite
    <3> QED BY <3>1, <3>2, <3>3
  <2> QED BY <1>1, <2>1, <2>2, <2>3, <2>4 DEF TypeOK, Pcs
<1>16. CASE CompareFailed
  <2>1. /\ pc' \in Pcs /\ todo' \in Seq(Write_) /\ cRet' \in {0, 1}
        /\ tries' \in 0 .. TRIES - 1 /\ page' \in 0 .. PageSize \div PROG
        /\ UNCHANGED <<flash, then, s_spiBuf, ucNeedErase, faults, call, before, ready, calls,
             losses, failed>>
    <3>1. UNCHANGED <<flash, then, s_spiBuf, ucNeedErase, faults, call, before, ready, calls,
            losses, failed>>
      BY <1>16 DEF CompareFailed, History, counts
    <3>2. CASE LastTry
      BY <1>1, <1>4, <1>16, <3>1, <3>2 DEF CompareFailed, Pcs
    <3>3. CASE ~LastTry
      <4>1. /\ tries' = tries + 1 /\ page' = 0 /\ UNCHANGED <<todo, cRet>>
            /\ pc' = IF ucNeedErase THEN "erase" ELSE "program"
        BY <1>16, <3>3 DEF CompareFailed
      <4>2. tries' \in 0 .. TRIES - 1
        BY <1>1, <3>3, <4>1 DEF LastTry, TRIES
      <4> QED BY <1>1, <1>3, <3>1, <4>1, <4>2 DEF Pcs
    <3> QED BY <3>2, <3>3
  <2> QED BY <1>1, <2>1 DEF TypeOK, Pcs
<1>17. CASE PowerLoss
  <2>1. /\ pc' \in Pcs /\ todo' = <<>> /\ then' = "user" /\ cRet' = 0
        /\ losses' \in 0 .. MaxLosses /\ ready' \in BOOLEAN
        /\ UNCHANGED <<s_spiBuf, ucNeedErase, tries, page, call, before, faults, calls, failed>>
    BY <1>1, <1>3, <1>17 DEF PowerLoss, Idle, Pcs
  <2>2. flash' \in [Address -> Byte]
    <3>1. flash' \in Torn
      BY <1>17 DEF PowerLoss
    <3>2. CASE pc = "erase"
      BY <1>1, <1>2, <3>1, <3>2 DEF Torn
    <3>3. CASE pc = "program"
      BY <1>1, <3>1, <3>3, ProgrammedTypes DEF Torn
    <3>4. CASE pc = "chip"
      BY <1>1, <1>2, <3>1, <3>4 DEF Torn
    <3>5. CASE pc \notin {"erase", "program", "chip"}
      BY <1>1, <3>1, <3>5 DEF Torn
    <3> QED BY <3>2, <3>3, <3>4, <3>5
  <2> QED BY <1>1, <1>4, <2>1, <2>2 DEF TypeOK, Pcs
<1> QED BY <1>6, <1>7, <1>8, <1>9, <1>10, <1>11, <1>12, <1>13, <1>14, <1>15, <1>16, <1>17
    DEF Next

-----------------------------------------------------------------------------
(* Writing                                                                 *)

LEMMA InitWriteInv == Init => WriteInv
<1> SUFFICES ASSUME Init PROVE WriteInv
  OBVIOUS
<1>1. pc = "off" /\ before = flash
  BY DEF Init
<1> QED BY <1>1 DEF WriteInv, PartsLeft, Merged, Programming, Around, Result, Whole,
                  WriteExact, FailsForCause, DamageIsLocal, Writing, Active

(* Before and after a call.                                                *)
LEMMA QuietKeeps ==
  ASSUME IInv, PowerOn \/ FoundUsed \/ FoundNew \/ Returned
  PROVE  WriteInv'
<1>1. flash' = flash /\ pc' \in {"boot", "idle", "chip"} /\ (pc' = "chip" => FoundNew)
  BY DEF PowerOn, FoundUsed, FoundNew, Returned
<1>2. PartsLeft' /\ Merged' /\ Programming' /\ Around' /\ Result'
  BY <1>1 DEF PartsLeft, Merged, Programming, Around, Result, WriteExact, FailsForCause,
              Writing, Active
<1>3. Whole'
  <2>1. FoundNew => call' = Fill(0, TotalSize, Bits)
    BY DEF FoundNew
  <2>2. Span(Fill(0, TotalSize, Bits)) = Address
    BY Sizes, FillIs DEF Address, Byte
  <2> QED BY <1>1, <2>1, <2>2 DEF Whole
<1>4. DamageIsLocal'
  <2>1. CASE FoundNew
    BY <1>1, <2>1 DEF FoundNew, DamageIsLocal
  <2>2. CASE ~FoundNew
    <3>1. UNCHANGED <<call, before>>
      BY <2>2 DEF PowerOn, FoundUsed, Returned, History
    <3> QED BY <1>1, <3>1 DEF DamageIsLocal, IInv, WriteInv
  <2> QED BY <2>1, <2>2
<1> QED BY <1>2, <1>3, <1>4 DEF WriteInv

(* sf_WriteBuffer begins: every byte of the range is in a piece.           *)
LEMMA CallStarts ==
  ASSUME NEW w \in Write_, NEW from, sf_WriteBuffer(w, from)
  PROVE  WriteInv'
<1>1. todo' = Pieces(w) /\ pc' = "auto" /\ call' = w /\ before' = flash' /\ faults' = 0
  BY DEF sf_WriteBuffer
<1>2. PartsLeft'
  <2>1. \A k \in DOMAIN todo' : Part(todo'[k], call')
    BY <1>1, PiecesPart DEF Parts
  <2>2. \A a \in Span(call') : \E k \in DOMAIN todo' : a \in Span(todo'[k])
    <3> DEFINE A == w.addr
               to == A + Len(w.data)
    <3>1. Covers(Pieces(w), A, to)
      BY PiecesPart
    <3>2. Span(w) = A .. (A + Len(w.data) - 1) /\ A \in Nat /\ Len(w.data) \in Nat
      BY DEF Span, First, Last, Write_
    <3>3. Span(w) = A .. (to - 1)
      BY <3>2
    <3> HIDE DEF A, to
    <3> QED BY <1>1, <3>1, <3>3 DEF Covers
  <2> QED BY <2>1, <2>2 DEF PartsLeft
<1>3. Merged' /\ Programming' /\ Around' /\ Result' /\ Whole' /\ DamageIsLocal'
  BY <1>1 DEF Merged, Programming, Around, Result, WriteExact, FailsForCause, Whole,
              DamageIsLocal, Active
<1> QED BY <1>2, <1>3 DEF WriteInv

(* The first piece is in the chip, and the others are left.                *)
LEMMA FirstPieceWritten ==
  ASSUME TypeOK, PartsLeft, pc \in Writing, todo # <<>>, todo' = Tail(todo),
         UNCHANGED <<flash, call>>,
         \A a \in Span(w0) : a \in Address /\ flash[a] = At(call, a)
  PROVE  PartsLeft'
<1>1. todo \in Seq(Write_)
  BY DEF TypeOK
<1>2. /\ DOMAIN todo = 1 .. Len(todo) /\ Len(todo) \in Nat
      /\ DOMAIN todo' = 1 .. (Len(todo) - 1)
      /\ \A k \in 1 .. (Len(todo) - 1) : todo'[k] = todo[k + 1]
  BY <1>1
<1>3. \A k \in DOMAIN todo' : Part(todo'[k], call)
  <2>1. \A k \in DOMAIN todo' : k + 1 \in DOMAIN todo /\ todo'[k] = todo[k + 1]
    BY <1>2
  <2> QED BY <2>1 DEF PartsLeft
<1>4. ASSUME NEW a \in Span(call)
      PROVE  (\E k \in DOMAIN todo' : a \in Span(todo'[k]))
             \/ (a \in Address /\ flash[a] = At(call, a))
  <2>1. CASE \E k \in DOMAIN todo : a \in Span(todo[k])
    <3>1. PICK k \in DOMAIN todo : a \in Span(todo[k])
      BY <2>1
    <3>2. CASE k = 1
      BY <3>1, <3>2 DEF w0
    <3>3. CASE k # 1
      <4>1. k - 1 \in DOMAIN todo' /\ todo'[k - 1] = todo[(k - 1) + 1] /\ (k - 1) + 1 = k
        BY <1>2, <3>3
      <4> QED BY <3>1, <4>1
    <3> QED BY <3>2, <3>3
  <2>2. CASE a \in Address /\ flash[a] = At(call, a)
    BY <2>2
  <2> QED BY <2>1, <2>2 DEF PartsLeft
<1> QED BY <1>3, <1>4 DEF PartsLeft

(* Between the pieces.                                                     *)
LEMMA AutoKeeps ==
  ASSUME IInv, PieceDone \/ PieceRefused \/ AllWritten
  PROVE  WriteInv'
<1> USE DEF IInv, WriteInv
<1>1. /\ pc = "auto" /\ UNCHANGED <<flash, faults, call, before>> /\ pc' \in {"auto", "ret"}
      /\ todo \in Seq(Write_) /\ call \in Write_
  BY DEF PieceDone, PieceRefused, AllWritten, History, TypeOK
<1>2. Merged' /\ Programming' /\ Whole'
  BY <1>1 DEF Merged, Programming, Whole, Active
<1>3. Around' /\ DamageIsLocal'
  BY <1>1 DEF Around, DamageIsLocal, Writing, Active
<1>4. todo # <<>> => w0 \in Write_ /\ w0 = todo[1] /\ 1 \in DOMAIN todo /\ Part(w0, call)
                     /\ w0.addr \in Nat /\ Len(w0.data) \in Nat
  <2> HIDE DEF IInv, WriteInv
  <2> SUFFICES ASSUME todo # <<>>
               PROVE  w0 \in Write_ /\ w0 = todo[1] /\ 1 \in DOMAIN todo /\ Part(w0, call)
                      /\ w0.addr \in Nat /\ Len(w0.data) \in Nat
    OBVIOUS
  <2>1. w0 = todo[1] /\ 1 \in DOMAIN todo /\ w0 \in Write_
    BY <1>1 DEF w0
  <2>2. Part(todo[1], call)
    <3>1. PartsLeft
      BY DEF IInv, WriteInv
    <3> QED BY <1>1, <2>1, <3>1 DEF PartsLeft, Writing
  <2>3. w0.addr \in Nat /\ Len(w0.data) \in Nat
    BY <2>1 DEF Write_
  <2> QED BY <2>1, <2>2, <2>3
<1>5. CASE PieceDone
  <2>1. todo # <<>> /\ todo' = Tail(todo) /\ pc' = "auto"
    BY <1>5 DEF PieceDone
  <2>2. \A a \in Span(w0) : a \in Address /\ flash[a] = At(call, a)
    <3>1. CASE Len(w0.data) = 0
      <4>1. Span(w0) = {}
        BY <1>4, <2>1, <3>1 DEF Span, First, Last
      <4> QED BY <4>1
    <3>2. CASE Len(w0.data) > 0
      <4>1. ~Refused(w0) /\ Same(w0)
        BY <1>5, <3>2 DEF PieceDone
      <4>2. w0.addr < TotalSize
        BY <1>4, <2>1, <4>1, Sizes DEF Refused
      <4>3. SectorIs
        BY <1>1, <2>1, <3>2, <4>2, SectorFacts DEF PartsLeft, Writing
      <4> QED BY <4>1, <4>3 DEF SectorIs, Same
    <3> QED BY <1>4, <2>1, <3>1, <3>2
  <2>3. PartsLeft'
    BY <1>1, <2>1, <2>2, FirstPieceWritten DEF Writing
  <2>4. Result'
    BY <2>1 DEF Result, WriteExact, FailsForCause
  <2> QED BY <1>2, <1>3, <2>3, <2>4
<1>6. CASE PieceRefused
  <2>1. todo # <<>> /\ Len(w0.data) # 0 /\ Refused(w0) /\ pc' = "ret" /\ cRet' = 0
    BY <1>6 DEF PieceRefused
  <2>2. PartsLeft'
    BY <2>1 DEF PartsLeft, Writing, Active
  <2>3. w0.addr >= TotalSize
    <3>1. Len(w0.data) <= PageSize
      BY <1>4, <2>1, Sizes, OffsetOf DEF Part
    <3> QED BY <1>4, <2>1, <3>1, Sizes DEF Refused
  <2>4. w0.addr \in Span(call) /\ w0.addr \notin Address
    <3>1. w0.addr \in Span(w0)
      BY <1>4, <2>1 DEF Span, First, Last
    <3> QED BY <1>4, <2>1, <2>3, <3>1, Sizes DEF Part, Address
  <2>5. Result'
    BY <1>1, <2>1, <2>4 DEF Result, WriteExact, FailsForCause
  <2> QED BY <1>2, <1>3, <2>2, <2>5
<1>7. CASE AllWritten
  <2>1. todo = <<>> /\ pc' = "ret" /\ cRet' = 1
    BY <1>7 DEF AllWritten
  <2>2. PartsLeft'
    BY <2>1 DEF PartsLeft, Writing, Active
  <2>3. \A a \in Span(call) : a \in Address /\ flash[a] = At(call, a)
    BY <1>1, <2>1 DEF PartsLeft, Writing
  <2>4. Result'
    BY <1>1, <2>1, <2>3 DEF Result, WriteExact, FailsForCause
  <2> QED BY <1>2, <1>3, <2>2, <2>4
<1> QED BY <1>5, <1>6, <1>7

(* While no piece is finished, the sector under way is the same.           *)
LEMMA SameSector ==
  ASSUME todo' = todo
  PROVE  w0' = w0 /\ uiFirstAddr' = uiFirstAddr /\ Sector' = Sector
PROOF BY DEF w0, uiFirstAddr, Sector

(* What is done to the sector under way disturbs nothing around it.        *)
LEMMA SectorStep ==
  ASSUME WriteInv, SectorIs, pc \in Writing, pc' \in Active,
         UNCHANGED <<todo, call, before>>, faults' = 0 => faults = 0,
         \A a \in Address \ Sector : flash'[a] = flash[a]
  PROVE  PartsLeft' /\ Around' /\ Result' /\ Whole' /\ DamageIsLocal'
<1>1. PartsLeft /\ Around /\ DamageIsLocal
  BY DEF WriteInv
<1>2. Sector' = Sector
  BY SameSector
<1>3. PartsLeft'
  <2>1. ASSUME NEW a \in Span(call)
        PROVE  (\E k \in DOMAIN todo : a \in Span(todo[k]))
               \/ (a \in Address /\ flash'[a] = At(call, a))
    <3>1. CASE \E k \in DOMAIN todo : a \in Span(todo[k])
      BY <3>1
    <3>2. CASE a \in Address /\ flash[a] = At(call, a) /\ a \in Sector
      <4>1. a \in Span(todo[1]) /\ 1 \in DOMAIN todo
        BY <3>2 DEF SectorIs
      <4> QED BY <4>1
    <3>3. CASE a \in Address /\ flash[a] = At(call, a) /\ a \notin Sector
      BY <3>3
    <3> QED BY <1>1, <3>1, <3>2, <3>3 DEF PartsLeft
  <2> QED BY <1>1, <2>1 DEF PartsLeft
<1>4. Around'
  BY <1>1, <1>2 DEF Around, Writing
<1>5. Result' /\ Whole'
  BY DEF Result, WriteExact, FailsForCause, Whole, Active
<1>6. DamageIsLocal'
  <2> SUFFICES ASSUME NEW a \in Address,
                      a \div PageSize \notin {b \div PageSize : b \in Span(call)}
               PROVE  flash'[a] = before[a]
    BY DEF DamageIsLocal
  <2>1. a \in Nat
    BY Sizes DEF Address
  <2>2. a \notin Sector
    <3>1. w0.addr \in Span(call)
      BY DEF SectorIs
    <3>2. a \div PageSize # w0.addr \div PageSize
      BY <3>1
    <3> QED BY <2>1, <3>2 DEF SectorIs, InSector
  <2>3. flash[a] = before[a]
    BY <1>1 DEF DamageIsLocal
  <2> QED BY <2>2, <2>3
<1> QED BY <1>3, <1>4, <1>5, <1>6

(* The image stays while the sector is erased and programmed.              *)
LEMMA ImageStays ==
  ASSUME Merged, pc \in Active, pc' \in Active, UNCHANGED <<todo, call, before, s_spiBuf>>,
         faults' = 0 => faults = 0
  PROVE  Merged' /\ \A a : Buf(a)' = Buf(a)
<1>1. w0' = w0 /\ uiFirstAddr' = uiFirstAddr /\ Sector' = Sector
  BY SameSector
<1>2. \A a : Buf(a)' = Buf(a)
  BY <1>1 DEF Buf
<1> QED BY <1>1, <1>2 DEF Merged

(* The image of the sector, at each of its addresses.                      *)
LEMMA MergedImage ==
  ASSUME SectorIs, UNCHANGED todo, s_spiBuf' = Image(w0)
  PROVE  \A a \in Sector : Buf(a)' = IF a \in Span(w0) THEN At(w0, a) ELSE flash[a]
<1> SUFFICES ASSUME NEW a \in Sector
             PROVE  Buf(a)' = IF a \in Span(w0) THEN At(w0, a) ELSE flash[a]
  OBVIOUS
<1> DEFINE k == a - uiFirstAddr
<1>1. k \in 0 .. PageSize - 1 /\ uiFirstAddr + k = a
  <2>1. uiFirstAddr \in Nat /\ a \in Nat /\ k \in 0 .. PageSize - 1
    BY Sizes DEF SectorIs, Address
  <2> QED BY <2>1
<1>2. Buf(a)' = Image(w0)[k]
  BY SameSector DEF Buf
<1> HIDE DEF k
<1> QED BY <1>1, <1>2 DEF Image

(* The sector is read and merged.                                          *)
LEMMA ChangeKeeps ==
  ASSUME IInv, PieceChanged
  PROVE  WriteInv'
<1>1. TypeOK /\ WriteInv /\ PartsLeft /\ Around
  BY DEF IInv, WriteInv
<1>2. SectorIs /\ todo # <<>> /\ Len(w0.data) > 0 /\ w0.addr < TotalSize
  BY <1>1, ChangedSector
<1>3. /\ pc = "auto" /\ pc' = (IF sf_NeedErase(w0) THEN "erase" ELSE "program")
      /\ UNCHANGED <<flash, todo, faults, call, before>>
      /\ s_spiBuf' = Image(w0) /\ tries' = 0 /\ page' = 0 /\ faults \in Nat
  BY <1>1 DEF PieceChanged, History, TypeOK
<1>4. pc' \in Active /\ pc \in Writing
  BY <1>3 DEF Active, Writing
<1>5. PartsLeft' /\ Around' /\ Result' /\ Whole' /\ DamageIsLocal'
  BY <1>1, <1>2, <1>3, <1>4, SectorStep
<1>6. w0' = w0 /\ uiFirstAddr' = uiFirstAddr /\ Sector' = Sector
  BY <1>3, SameSector
<1>7. \A a \in Sector : Buf(a)' = IF a \in Span(w0) THEN At(w0, a) ELSE flash[a]
  BY <1>2, <1>3, MergedImage
<1>8. Merged'
  <2>1. ASSUME NEW a \in Sector, a \in Span(call) PROVE Buf(a)' = At(call, a)
    BY <1>2, <1>7, <2>1 DEF SectorIs
  <2>2. ASSUME NEW a \in Sector, a \notin Span(call), faults = 0 PROVE Buf(a)' = before[a]
    <3>1. a \in Address /\ a \notin Span(w0)
      BY <1>2, <2>2 DEF SectorIs
    <3>2. flash[a] = before[a]
      BY <1>1, <1>3, <2>2, <3>1 DEF Around, Writing, Active
    <3> QED BY <1>7, <3>1, <3>2
  <2> QED BY <1>2, <1>3, <1>6, <2>1, <2>2 DEF Merged
<1>9. Programming'
  <2>1. ASSUME pc' = "program", NEW a \in Sector PROVE Buf(a)' \subseteq flash'[a]
    <3>1. ~sf_NeedErase(w0)
      BY <1>3, <2>1
    <3> QED BY <1>3, <1>7, <3>1 DEF sf_NeedErase
  <2>2. ASSUME NEW a \in Sector PROVE ~(a < uiFirstAddr + 0 * PROG)
    BY <1>2, Sizes DEF Sector, SectorIs
  <2> QED BY <1>3, <1>6, <2>1, <2>2, Sizes DEF Programming
<1> QED BY <1>5, <1>8, <1>9 DEF WriteInv

(* Erasing sets every bit of the sector.                                   *)
LEMMA EraseKeeps ==
  ASSUME IInv, sf_EraseSector
  PROVE  WriteInv'
<1>1. TypeOK /\ WriteInv /\ PartsLeft /\ Merged /\ Programming
  BY DEF IInv, WriteInv
<1>2. /\ pc = "erase" /\ pc' = "program" /\ page' = 0
      /\ flash' = [a \in Address |-> IF a \in Sector THEN Bits ELSE flash[a]]
      /\ UNCHANGED <<todo, s_spiBuf, tries, faults, call, before>>
  BY DEF sf_EraseSector, History
<1>3. pc' \in Active /\ pc \in Active /\ pc \in Writing
  BY <1>2 DEF Active, Writing
<1>4. SectorIs
  BY <1>1, <1>3, ActiveSector
<1>5. PartsLeft' /\ Around' /\ Result' /\ Whole' /\ DamageIsLocal'
  BY <1>1, <1>2, <1>3, <1>4, SectorStep
<1>6. Merged' /\ (\A a : Buf(a)' = Buf(a)) /\ Sector' = Sector /\ uiFirstAddr' = uiFirstAddr
  BY <1>1, <1>2, <1>3, ImageStays, SameSector
<1>7. Programming'
  <2>1. ASSUME NEW a \in Sector PROVE Buf(a) \subseteq flash'[a] /\ ~(a < uiFirstAddr + 0 * PROG)
    <3>1. a \in Address /\ a - uiFirstAddr \in 0 .. PageSize - 1
      BY <1>4 DEF SectorIs
    <3>2. Buf(a) \in Byte
      BY <1>1, <3>1 DEF Buf, TypeOK
    <3>3. flash'[a] = Bits
      BY <1>2, <3>1
    <3>4. ~(a < uiFirstAddr + 0 * PROG)
      BY <1>4, Sizes DEF Sector, SectorIs
    <3> QED BY <3>2, <3>3, <3>4 DEF Byte
  <2>2. faults >= tries
    BY <1>1, <1>3 DEF Programming
  <2> QED BY <1>2, <1>6, <2>1, <2>2, Sizes DEF Programming
<1> QED BY <1>5, <1>6, <1>7 DEF WriteInv

(* One command programs its bytes, but for one that may fail.              *)
LEMMA CommandIs ==
  ASSUME sf_PageWrite
  PROVE  /\ pc = "program" /\ page' = page + 1
         /\ pc' = (IF page + 1 = PageSize \div PROG THEN "verify" ELSE "program")
         /\ UNCHANGED <<todo, then, s_spiBuf, tries, call, before>>
         /\ \/ flash' = Programmed(PageBytes) /\ faults' = faults /\ ready' = ready
            \/ \E a \in PageBytes :
                 /\ flash' = Programmed(PageBytes \ {a}) /\ faults' = faults + 1
                 /\ ready' = (ready /\ a - MarkAt \notin Tested)
<1>1. /\ pc = "program" /\ page' = page + 1
      /\ pc' = (IF page + 1 = PageSize \div PROG THEN "verify" ELSE "program")
      /\ UNCHANGED <<todo, then, s_spiBuf, tries, call, before>>
  BY DEF sf_PageWrite
<1>2. \/ flash' = Programmed(PageBytes) /\ faults' = faults /\ ready' = ready
      \/ \E a \in PageBytes :
           /\ flash' = Programmed(PageBytes \ {a}) /\ faults' = faults + 1
           /\ ready' = (ready /\ a - MarkAt \notin Tested)
  BY Zenon DEF sf_PageWrite
<1> QED BY <1>1, <1>2

(* Bits are only cleared, and none that the image has.                     *)
LEMMA ProgrammedIs ==
  ASSUME SectorIs, \A a \in Sector : Buf(a) \subseteq flash[a], NEW S \in SUBSET Sector,
         flash' = Programmed(S)
  PROVE  /\ \A a \in Address \ S : flash'[a] = flash[a]
         /\ \A a \in S : flash'[a] = Buf(a)
         /\ \A a \in Sector : Buf(a) \subseteq flash'[a]
         /\ \A a \in Sector : flash[a] = Buf(a) => flash'[a] = Buf(a)
<1>1. Sector \subseteq Address
  BY DEF SectorIs
<1>2. \A a \in Address : flash'[a] = IF a \in S THEN flash[a] \cap Buf(a) ELSE flash[a]
  BY DEF Programmed, Buf
<1>3. \A a \in S : flash[a] \cap Buf(a) = Buf(a)
  OBVIOUS
<1> QED BY <1>1, <1>2, <1>3

LEMMA ProgramKeeps ==
  ASSUME IInv, sf_PageWrite
  PROVE  WriteInv'
<1>1. TypeOK /\ WriteInv /\ PartsLeft /\ Merged /\ Programming
  BY DEF IInv, WriteInv
<1>2. /\ pc = "program" /\ page' = page + 1
      /\ pc' = (IF page + 1 = PageSize \div PROG THEN "verify" ELSE "program")
      /\ UNCHANGED <<todo, s_spiBuf, tries, call, before>>
      /\ page \in Nat /\ faults \in Nat /\ tries \in Nat
  BY <1>1, CommandIs DEF TypeOK, TRIES
<1>3. pc' \in Active /\ pc \in Active /\ pc \in Writing
  BY <1>2 DEF Active, Writing
<1>4. SectorIs
  BY <1>1, <1>3, ActiveSector
<1>5. page < PageSize \div PROG
  BY <1>1, <1>2 DEF Programming
<1>6. /\ PageBytes \subseteq Sector /\ page * PROG \in Nat
      /\ \A a \in Sector : a < uiFirstAddr + (page + 1) * PROG
              => a < uiFirstAddr + page * PROG \/ a \in PageBytes
  BY <1>1, <1>4, <1>5, CommandInSector
<1>7. faults >= tries /\ \A a \in Sector : Buf(a) \subseteq flash[a]
  BY <1>1, <1>2, <1>3 DEF Programming
<1>8. \/ flash' = Programmed(PageBytes) /\ faults' = faults
      \/ \E a \in PageBytes : flash' = Programmed(PageBytes \ {a}) /\ faults' = faults + 1
  BY CommandIs
<1>9. PICK S \in SUBSET PageBytes :
        flash' = Programmed(S) /\ (\/ S = PageBytes /\ faults' = faults
                                   \/ faults' = faults + 1)
  BY <1>8
<1>10. /\ \A a \in Address \ S : flash'[a] = flash[a]
       /\ \A a \in S : flash'[a] = Buf(a)
       /\ \A a \in Sector : Buf(a) \subseteq flash'[a]
       /\ \A a \in Sector : flash[a] = Buf(a) => flash'[a] = Buf(a)
  BY <1>4, <1>6, <1>7, <1>9, ProgrammedIs
<1>11. faults' = 0 => faults = 0
  BY <1>2, <1>9
<1>12. PartsLeft' /\ Around' /\ Result' /\ Whole' /\ DamageIsLocal'
  <2>1. \A a \in Address \ Sector : flash'[a] = flash[a]
    BY <1>6, <1>9, <1>10
  <2> QED BY <1>1, <1>2, <1>3, <1>4, <1>11, <2>1, SectorStep
<1>13. Merged' /\ (\A a : Buf(a)' = Buf(a)) /\ Sector' = Sector /\ uiFirstAddr' = uiFirstAddr
  BY <1>1, <1>2, <1>3, <1>11, ImageStays, SameSector
<1>14. Programming'
  <2>1. faults' >= tries'
    BY <1>2, <1>7, <1>9
  <2>2. \A a \in Sector' : (Buf(a) \subseteq flash[a])'
    BY <1>10, <1>13
  <2>3. \/ \A a \in Sector : a < uiFirstAddr + page' * PROG => flash'[a] = Buf(a)
        \/ faults' > tries'
    <3>1. CASE faults' = faults + 1
      BY <1>2, <1>7, <3>1
    <3>2. CASE S = PageBytes /\ faults' = faults /\ faults > tries
      BY <1>2, <3>2
    <3>3. CASE S = PageBytes /\ ~(faults > tries)
      <4>1. \A a \in Sector : a < uiFirstAddr + page * PROG => flash[a] = Buf(a)
        BY <1>1, <1>2, <3>3 DEF Programming
      <4>2. \A a \in Sector : a < uiFirstAddr + (page + 1) * PROG => flash'[a] = Buf(a)
        BY <1>6, <1>10, <3>3, <4>1
      <4> QED BY <1>2, <4>2
    <3> QED BY <1>9, <3>1, <3>2, <3>3
  <2>4. (pc' = "program" => page' < PageSize \div PROG)
        /\ (pc' = "verify" => page' = PageSize \div PROG)
    BY <1>2, <1>5, Sizes
  <2> QED BY <1>13, <2>1, <2>2, <2>3, <2>4 DEF Programming
<1> QED BY <1>12, <1>13, <1>14 DEF WriteInv

(* After its last command the sector holds the image, or a byte failed.    *)
LEMMA SectorProgrammed ==
  ASSUME TypeOK, SectorIs, Programming, pc = "verify"
  PROVE  \/ \A a \in Sector : flash[a] = Buf(a)
         \/ faults > tries
<1>1. page = PageSize \div PROG /\ page * PROG = PageSize /\ PageSize \in Nat
  BY Sizes DEF Programming
<1>2. \/ \A a \in Sector : a < uiFirstAddr + page * PROG => flash[a] = Buf(a)
      \/ faults > tries
  BY DEF Programming
<1>3. \A a \in Sector : a < uiFirstAddr + PageSize
  BY Sizes DEF Sector, SectorIs
<1> QED BY <1>1, <1>2, <1>3

LEMMA ComparedKeeps ==
  ASSUME IInv, Compared
  PROVE  WriteInv'
<1>1. TypeOK /\ WriteInv /\ PartsLeft /\ Merged /\ Programming /\ Around /\ DamageIsLocal
  BY DEF IInv, WriteInv
<1>2. /\ pc = "verify" /\ pc' = "auto" /\ Same(w0) /\ todo' = Tail(todo)
      /\ UNCHANGED <<flash, faults, call, before>> /\ faults \in Nat /\ tries \in Nat
  BY <1>1 DEF Compared, History, TypeOK, TRIES
<1>3. pc \in Active /\ pc \in Writing /\ todo # <<>>
  BY <1>1, <1>2 DEF Active, Writing, Merged
<1>4. SectorIs
  BY <1>1, <1>3, ActiveSector
<1>5. PartsLeft'
  <2>1. \A a \in Span(w0) : a \in Address /\ flash[a] = At(call, a)
    BY <1>2, <1>4 DEF SectorIs, Same
  <2> QED BY <1>1, <1>2, <1>3, <2>1, FirstPieceWritten
<1>6. Around'
  <2> SUFFICES ASSUME faults = 0, NEW a \in Address, a \notin Span(call)
               PROVE  flash[a] = before[a]
    BY <1>2 DEF Around
  <2>1. CASE a \in Sector
    <3>1. flash[a] = Buf(a)
      BY <1>1, <1>2, <1>4, <2>1, SectorProgrammed
    <3>2. Buf(a) = before[a]
      BY <1>1, <1>3, <2>1 DEF Merged
    <3> QED BY <3>1, <3>2
  <2>2. CASE a \notin Sector
    BY <1>1, <1>3, <2>2 DEF Around
  <2> QED BY <2>1, <2>2
<1>7. Merged' /\ Programming' /\ Result' /\ Whole' /\ DamageIsLocal'
  BY <1>1, <1>2 DEF Merged, Programming, Result, WriteExact, FailsForCause, Whole,
                    DamageIsLocal, Active
<1> QED BY <1>5, <1>6, <1>7 DEF WriteInv

(* A comparison fails because a byte did.                                  *)
LEMMA FailedKeeps ==
  ASSUME IInv, CompareFailed
  PROVE  WriteInv'
<1>1. TypeOK /\ WriteInv /\ PartsLeft /\ Merged /\ Programming /\ Around /\ DamageIsLocal
  BY DEF IInv, WriteInv
<1>2. /\ pc = "verify" /\ ~Same(w0)
      /\ UNCHANGED <<flash, s_spiBuf, faults, call, before>>
      /\ faults \in Nat /\ tries \in Nat
  BY <1>1 DEF CompareFailed, History, TypeOK, TRIES
<1>3. pc \in Active /\ pc \in Writing
  BY <1>2 DEF Active, Writing
<1>4. SectorIs
  BY <1>1, <1>3, ActiveSector
<1>5. faults > tries
  <2>1. ASSUME \A a \in Sector : flash[a] = Buf(a) PROVE Same(w0)
    <3>1. \A a \in Span(w0) : a \in Sector /\ a \in Span(call) /\ At(w0, a) = At(call, a)
      BY <1>4 DEF SectorIs
    <3>2. \A a \in Sector : a \in Span(call) => Buf(a) = At(call, a)
      BY <1>1, <1>3 DEF Merged
    <3> QED BY <2>1, <3>1, <3>2 DEF Same
  <2> QED BY <1>1, <1>2, <1>4, <2>1, SectorProgrammed
<1>6. CASE LastTry
  <2>1. pc' = "ret" /\ cRet' = 0
    BY <1>2, <1>6 DEF CompareFailed
  <2>2. faults >= TRIES
    BY <1>2, <1>5, <1>6 DEF LastTry, TRIES
  <2>3. Result'
    BY <1>2, <2>1, <2>2 DEF Result, WriteExact, FailsForCause
  <2>4. Around'
    BY <1>2, <1>5 DEF Around
  <2>5. PartsLeft' /\ Merged' /\ Programming' /\ Whole' /\ DamageIsLocal'
    BY <1>1, <1>2, <2>1 DEF PartsLeft, Merged, Programming, Whole, DamageIsLocal, Writing,
                            Active
  <2> QED BY <2>3, <2>4, <2>5 DEF WriteInv
<1>7. CASE ~LastTry
  <2>1. /\ tries' = tries + 1 /\ page' = 0 /\ todo' = todo
        /\ pc' = IF ucNeedErase THEN "erase" ELSE "program"
    BY <1>2, <1>7 DEF CompareFailed
  <2>2. pc' \in Active
    BY <2>1 DEF Active
  <2>3. PartsLeft' /\ Around' /\ Result' /\ Whole' /\ DamageIsLocal'
    BY <1>1, <1>2, <1>3, <1>4, <2>1, <2>2, SectorStep
  <2>4. Merged' /\ (\A a : Buf(a)' = Buf(a)) /\ Sector' = Sector /\ uiFirstAddr' = uiFirstAddr
    BY <1>1, <1>2, <1>3, <2>1, <2>2, ImageStays, SameSector
  <2>5. Programming'
    <3>1. faults' >= tries'
      BY <1>2, <1>5, <2>1
    <3>2. \A a \in Sector : Buf(a) \subseteq flash[a] /\ ~(a < uiFirstAddr + 0 * PROG)
      BY <1>1, <1>2, <1>4, Sizes DEF Programming, Sector, SectorIs
    <3> QED BY <1>2, <2>1, <2>4, <3>1, <3>2, Sizes DEF Programming
  <2> QED BY <2>3, <2>4, <2>5 DEF WriteInv
<1> QED BY <1>6, <1>7

(* A command that is torn disturbs no byte out of its sector.              *)
LEMMA TornElsewhere ==
  ASSUME TypeOK, PartsLeft, Merged, Programming, pc # "chip", flash' \in Torn,
         NEW a \in Address, pc \in Active => a \notin Sector
  PROVE  flash'[a] = flash[a]
<1>1. CASE pc = "erase"
  <2>1. PICK S \in SUBSET Sector :
          flash' = [x \in Address |-> IF x \in S THEN Bits ELSE flash[x]]
    BY <1>1 DEF Torn
  <2>2. a \notin S
    BY <1>1 DEF Active
  <2> QED BY <2>1, <2>2
<1>2. CASE pc = "program"
  <2>1. PICK S \in SUBSET PageBytes : flash' = Programmed(S)
    BY <1>2 DEF Torn
  <2>2. PageBytes \subseteq Sector
    BY <1>2, ActiveSector, CommandInSector DEF Active, Programming
  <2>3. a \notin S
    BY <1>2, <2>2 DEF Active
  <2> QED BY <2>1, <2>3 DEF Programmed
<1>3. CASE pc \notin {"erase", "program", "chip"}
  BY <1>3 DEF Torn
<1> QED BY <1>1, <1>2, <1>3

LEMMA LossKeeps ==
  ASSUME IInv, PowerLoss
  PROVE  WriteInv'
<1>1. TypeOK /\ WriteInv /\ PartsLeft /\ Merged /\ Programming /\ Whole /\ DamageIsLocal
  BY DEF IInv, WriteInv
<1>2. flash' \in Torn /\ pc' = "off" /\ UNCHANGED <<call, before>>
  BY DEF PowerLoss
<1>3. DamageIsLocal'
  <2> SUFFICES ASSUME NEW a \in Address,
                      a \div PageSize \notin {b \div PageSize : b \in Span(call)}
               PROVE  flash'[a] = flash[a]
    BY <1>1, <1>2 DEF DamageIsLocal
  <2>1. a \in Nat
    BY Sizes DEF Address
  <2>2. ASSUME pc \in Active PROVE a \notin Sector
    <3>1. SectorIs
      BY <1>1, <2>2, ActiveSector
    <3>2. w0.addr \in Span(call)
      BY <3>1 DEF SectorIs
    <3>3. a \div PageSize # w0.addr \div PageSize
      BY <3>2
    <3> QED BY <2>1, <3>1, <3>3 DEF SectorIs, InSector
  <2>3. pc # "chip"
    BY <1>1 DEF Whole
  <2> QED BY <1>1, <1>2, <2>2, <2>3, TornElsewhere
<1>4. PartsLeft' /\ Merged' /\ Programming' /\ Around' /\ Result' /\ Whole'
  BY <1>2 DEF PartsLeft, Merged, Programming, Around, Result, WriteExact, FailsForCause,
              Whole, Writing, Active
<1> QED BY <1>3, <1>4 DEF WriteInv

LEMMA WriteInvKept == IInv /\ [Next]_vars => WriteInv'
<1> SUFFICES ASSUME IInv, [Next]_vars PROVE WriteInv'
  OBVIOUS
<1>1. CASE UNCHANGED vars
  BY <1>1 DEF IInv, WriteInv, vars, counts, PartsLeft, Merged, Programming, Around, Result,
              Whole, WriteExact, FailsForCause, DamageIsLocal, Buf, Sector, uiFirstAddr, w0
<1>2. CASE PowerOn \/ FoundUsed \/ FoundNew \/ Returned
  BY <1>2, QuietKeeps
<1>3. CASE sf_EraseChip
  BY <1>3, CallStarts, Callers DEF sf_EraseChip
<1>4. CASE MarkWritten
  BY <1>4, CallStarts, Callers DEF MarkWritten
<1>5. ASSUME NEW c \in Calls, NEW v \in Byte, Write(c, v) PROVE WriteInv'
  BY <1>5, CallStarts, Callers DEF Write
<1>6. CASE PieceDone \/ PieceRefused \/ AllWritten
  BY <1>6, AutoKeeps
<1>7. CASE PieceChanged
  BY <1>7, ChangeKeeps
<1>8. CASE sf_EraseSector
  BY <1>8, EraseKeeps
<1>9. CASE sf_PageWrite
  BY <1>9, ProgramKeeps
<1>10. CASE Compared
  BY <1>10, ComparedKeeps
<1>11. CASE CompareFailed
  BY <1>11, FailedKeeps
<1>12. CASE PowerLoss
  BY <1>12, LossKeeps
<1> QED BY <1>1, <1>2, <1>3, <1>4, <1>5, <1>6, <1>7, <1>8, <1>9, <1>10, <1>11, <1>12 DEF Next

-----------------------------------------------------------------------------
(* The marker                                                              *)

(* The tested bytes are in sector 0, out of reach of the other callers.    *)
LEMMA MarkFacts ==
  /\ MarkBytes # {} /\ MarkBytes \subseteq 0 .. PageSize - 1 /\ MarkBytes \subseteq Address
  /\ MarkBytes \subseteq Span(Fill(MarkAt, MarkLen, Marker))
  /\ MarkBytes \cap Span(Fill(CountAt, CountLen, {})) = {}
  /\ \A c \in Calls, v \in Byte : MarkBytes \cap Span(Fill(c[1], c[2], v)) = {}
<1>1. /\ MarkAt \in Nat /\ MarkLen \in Nat /\ MarkAt + MarkLen <= PageSize
      /\ Tested # {} /\ Tested \subseteq 0 .. MarkLen - 1 /\ Marker \in Byte
      /\ CountAt \in Nat /\ CountLen \in Nat
      /\ \A c \in Calls : c[1] \in Nat /\ c[2] \in Nat
  BY FlashAssumption
<1>2. PageSize \in Nat /\ PageSize <= TotalSize /\ TotalSize \in Nat
  BY Sizes
<1>3. ASSUME NEW o \in Tested
      PROVE  MarkAt + o \in 0 .. PageSize - 1 /\ MarkAt + o \in Address
             /\ MarkAt + o \in MarkAt .. (MarkAt + MarkLen - 1)
  <2>1. o \in 0 .. MarkLen - 1
    BY <1>1
  <2> QED BY <1>1, <1>2, <2>1 DEF Address
<1>4. Span(Fill(MarkAt, MarkLen, Marker)) = MarkAt .. (MarkAt + MarkLen - 1)
  BY <1>1, FillIs
<1>5. Span(Fill(CountAt, CountLen, {})) = CountAt .. (CountAt + CountLen - 1)
  BY <1>1, FillIs DEF Byte
<1>6. \A c \in Calls, v \in Byte : Span(Fill(c[1], c[2], v)) = c[1] .. (c[1] + c[2] - 1)
  BY <1>1, FillIs
<1>7. \A o \in Tested : /\ MarkAt + o \notin CountAt .. CountAt + CountLen - 1
                        /\ \A c \in Calls : MarkAt + o \notin c[1] .. c[1] + c[2] - 1
  BY MarkerApart
<1>8. MarkBytes # {} /\ MarkBytes \subseteq 0 .. PageSize - 1 /\ MarkBytes \subseteq Address
  BY <1>1, <1>3 DEF MarkBytes
<1>9. MarkBytes \subseteq Span(Fill(MarkAt, MarkLen, Marker))
  BY <1>3, <1>4 DEF MarkBytes
<1>10. MarkBytes \cap Span(Fill(CountAt, CountLen, {})) = {}
  BY <1>5, <1>7 DEF MarkBytes
<1>11. \A c \in Calls, v \in Byte : MarkBytes \cap Span(Fill(c[1], c[2], v)) = {}
  BY <1>6, <1>7 DEF MarkBytes
<1> QED BY <1>8, <1>9, <1>10, <1>11

(* The sector under way has all of them or none.                           *)
LEMMA MarkSector ==
  ASSUME SectorIs
  PROVE  /\ uiFirstAddr = 0 => MarkBytes \subseteq Sector
         /\ uiFirstAddr # 0 => MarkBytes \cap Sector = {}
<1>1. MarkBytes \subseteq 0 .. PageSize - 1 /\ PageSize \in Nat
  BY MarkFacts, Sizes
<1>2. Sector = uiFirstAddr .. (uiFirstAddr + PageSize - 1) /\ uiFirstAddr \in Nat
  BY DEF Sector, SectorIs
<1>3. uiFirstAddr # 0 => uiFirstAddr >= PageSize
  <2> DEFINE b == w0.addr
             d == InSector(b)
  <2>1. b \in Nat /\ uiFirstAddr = b - (b % PageSize)
    BY DEF SectorIs, uiFirstAddr
  <2> HIDE DEF b
  <2>2. d \in Nat /\ b = PageSize * d + (b % PageSize) /\ b % PageSize \in Nat
    BY <2>1, SectorOf, OffsetOf
  <2> HIDE DEF d
  <2>3. PageSize * d \in Nat /\ uiFirstAddr = PageSize * d
    BY <1>1, <2>1, <2>2
  <2>4. d > 0 => PageSize * d >= PageSize
    BY <1>1, <2>2
  <2> QED BY <1>1, <2>2, <2>3, <2>4
<1> QED BY <1>1, <1>2, <1>3

LEMMA InitMarkInv == Init => MarkInv
PROOF BY DEF Init, MarkInv, MarkStands, MarkCall, Writing, Active

(* While no sector is being rewritten, before and after.                   *)
LEMMA MarkUntouched ==
  ASSUME MarkStands, pc \notin Active, pc' \notin Active \cup {"chip"}, flash' = flash,
         ready' = ready
  PROVE  MarkStands'
PROOF BY DEF MarkStands, InMark, Active

(* A marker that stands is found.                                          *)
LEMMA MarkFound ==
  ASSUME MarkStands, ready, pc = "boot"
  PROVE  Marked
<1>1. \A a \in MarkBytes : flash[a] = Marker
  BY DEF MarkStands, InMark, Active
<1>2. PICK o \in Tested : TRUE
  BY MarkFacts DEF MarkBytes
<1>3. MarkAt + o \in MarkBytes
  BY <1>2 DEF MarkBytes
<1> QED BY <1>1, <1>2, <1>3 DEF Marked

(* Before, between and after the pieces.                                   *)
LEMMA MarkQuiet ==
  ASSUME IInv,
         \/ PowerOn \/ FoundUsed \/ FoundNew \/ Returned
         \/ PieceDone \/ PieceRefused \/ AllWritten
  PROVE  MarkInv'
<1>1. MarkStands /\ MarkCall
  BY DEF IInv, MarkInv
<1>2. flash' = flash /\ ready' = ready /\ pc \notin Active
  BY DEF PowerOn, FoundUsed, FoundNew, Returned, PieceDone, PieceRefused, AllWritten,
         History, Active
<1>3. CASE FoundNew
  <2>1. pc = "boot" /\ pc' = "chip" /\ ~Marked
    BY <1>3 DEF FoundNew
  <2>2. ~ready
    BY <1>1, <2>1, MarkFound
  <2> QED BY <1>2, <2>1, <2>2 DEF MarkInv, MarkStands, MarkCall, Writing, Active
<1>4. CASE PowerOn \/ FoundUsed \/ Returned
  <2>1. pc' \in {"boot", "idle"}
    BY <1>4 DEF PowerOn, FoundUsed, Returned
  <2>2. MarkStands'
    BY <1>1, <1>2, <2>1, MarkUntouched DEF Active
  <2> QED BY <2>1, <2>2 DEF MarkInv, MarkCall, Writing, Active
<1>5. CASE PieceDone \/ PieceRefused \/ AllWritten
  <2>1. pc = "auto" /\ pc' \in {"auto", "ret"} /\ UNCHANGED <<then, call>>
    BY <1>5 DEF PieceDone, PieceRefused, AllWritten, History
  <2>2. MarkStands'
    BY <1>1, <1>2, <2>1, MarkUntouched DEF Active
  <2>3. MarkCall'
    BY <1>1, <1>2, <2>1 DEF MarkCall, Writing
  <2> QED BY <2>2, <2>3 DEF MarkInv
<1> QED BY <1>3, <1>4, <1>5

(* The calls: the marker of an erased chip, the counters, a user's range.  *)
LEMMA MarkCalls ==
  ASSUME IInv, sf_EraseChip \/ MarkWritten \/ (\E c \in Calls, v \in Byte : Write(c, v))
  PROVE  MarkInv'
<1>1. MarkStands /\ MarkCall /\ Result
  BY DEF IInv, MarkInv, WriteInv
<1>2. pc' = "auto" /\ pc \notin Active
  BY DEF sf_EraseChip, MarkWritten, Write, sf_WriteBuffer, Active
<1>3. CASE sf_EraseChip
  <2>1. pc = "chip" /\ ready' = ready /\ then' = "mark" /\ call' = Fill(MarkAt, MarkLen, Marker)
    BY <1>3 DEF sf_EraseChip, sf_WriteBuffer
  <2>2. ~ready'
    BY <1>1, <2>1 DEF MarkStands
  <2> QED BY <2>1, <2>2 DEF MarkInv, MarkStands, MarkCall
<1>4. CASE MarkWritten
  <2>1. /\ pc = "ret" /\ then = "mark" /\ ready' = (cRet = 1) /\ flash' = flash
        /\ then' = "boot" /\ call' = Fill(CountAt, CountLen, {})
    BY <1>4 DEF MarkWritten, sf_WriteBuffer
  <2>2. call = Fill(MarkAt, MarkLen, Marker)
    BY <1>1, <2>1 DEF MarkCall
  <2>3. ASSUME ready', NEW a \in MarkBytes PROVE flash'[a] = Marker
    <3>1. a \in Span(call)
      BY <2>2, MarkFacts
    <3>2. flash[a] = At(call, a)
      BY <1>1, <2>1, <2>3, <3>1 DEF Result, WriteExact
    <3>3. At(call, a) = Marker
      BY <2>2, <3>1, FillIs, FlashAssumption
    <3> QED BY <2>1, <3>2, <3>3
  <2>4. MarkStands'
    BY <1>2, <2>3 DEF MarkStands, InMark, Active
  <2>5. MarkCall'
    BY <2>1, MarkFacts DEF MarkCall, MarkBytes
  <2> QED BY <2>4, <2>5 DEF MarkInv
<1>5. ASSUME NEW c \in Calls, NEW v \in Byte, Write(c, v) PROVE MarkInv'
  <2>1. /\ flash' = flash /\ ready' = ready
        /\ then' = "user" /\ call' = Fill(c[1], c[2], v)
    BY <1>5 DEF Write, sf_WriteBuffer
  <2>2. MarkStands'
    BY <1>1, <1>2, <2>1, MarkUntouched DEF Active
  <2>3. MarkCall'
    BY <2>1, MarkFacts DEF MarkCall, MarkBytes
  <2> QED BY <2>2, <2>3 DEF MarkInv
<1> QED BY <1>3, <1>4, <1>5

(* The sector under way is merged with the marker that stands.             *)
LEMMA MarkMerged ==
  ASSUME IInv, PieceChanged
  PROVE  MarkInv'
<1>1. TypeOK /\ PartsLeft /\ MarkStands /\ MarkCall
  BY DEF IInv, MarkInv, WriteInv
<1>2. SectorIs
  BY <1>1, ChangedSector
<1>3. /\ pc = "auto" /\ pc' \in {"erase", "program"} /\ page' = 0
      /\ UNCHANGED <<flash, todo, then, call, ready>> /\ s_spiBuf' = Image(w0)
  BY DEF PieceChanged, History
<1>4. uiFirstAddr' = uiFirstAddr /\ (\A a \in Sector :
        Buf(a)' = IF a \in Span(w0) THEN At(w0, a) ELSE flash[a])
  BY <1>2, <1>3, MergedImage, SameSector
<1>5. ASSUME ready, NEW a \in MarkBytes
      PROVE  flash[a] = Marker /\ (uiFirstAddr = 0 => Buf(a)' = Marker) /\ ~(a < 0 * PROG)
  <2>1. flash[a] = Marker
    BY <1>1, <1>3, <1>5 DEF MarkStands, InMark, Active
  <2>2. a \notin Span(w0)
    <3>1. a \notin Span(call)
      BY <1>1, <1>3, <1>5 DEF MarkCall, Writing
    <3> QED BY <1>2, <3>1 DEF SectorIs
  <2>3. uiFirstAddr = 0 => a \in Sector
    BY <1>2, MarkSector
  <2>4. ~(a < 0 * PROG)
    BY MarkFacts, Sizes
  <2> QED BY <1>4, <2>1, <2>2, <2>3, <2>4
<1>6. MarkStands'
  BY <1>3, <1>4, <1>5 DEF MarkStands, InMark
<1>7. MarkCall'
  BY <1>1, <1>3 DEF MarkCall, Writing, Active
<1> QED BY <1>6, <1>7 DEF MarkInv

(* It is erased with its sector.                                           *)
LEMMA MarkErased ==
  ASSUME IInv, sf_EraseSector
  PROVE  MarkInv'
<1>1. TypeOK /\ PartsLeft /\ Merged /\ MarkStands /\ MarkCall
  BY DEF IInv, MarkInv, WriteInv
<1>2. /\ pc = "erase" /\ pc' = "program" /\ page' = 0
      /\ flash' = [a \in Address |-> IF a \in Sector THEN Bits ELSE flash[a]]
      /\ UNCHANGED <<todo, then, s_spiBuf, call, ready>>
  BY DEF sf_EraseSector, History
<1>3. SectorIs
  BY <1>1, <1>2, ActiveSector DEF Active
<1>4. uiFirstAddr' = uiFirstAddr /\ \A a : Buf(a)' = Buf(a)
  BY <1>2, SameSector DEF Buf
<1>5. ASSUME ready, NEW a \in MarkBytes
      PROVE  /\ uiFirstAddr = 0 => Buf(a) = Marker
             /\ uiFirstAddr # 0 => flash'[a] = Marker
             /\ ~(a < 0 * PROG)
  <2>1. a \in Address /\ ~(a < 0 * PROG)
    BY MarkFacts, Sizes
  <2>2. uiFirstAddr # 0 => a \notin Sector
    BY <1>3, MarkSector
  <2> QED BY <1>1, <1>2, <1>5, <2>1, <2>2 DEF MarkStands, InMark, Active
<1>6. MarkStands'
  BY <1>2, <1>4, <1>5 DEF MarkStands, InMark, Active
<1>7. MarkCall'
  BY <1>1, <1>2 DEF MarkCall, Writing, Active
<1> QED BY <1>6, <1>7 DEF MarkInv

(* It is programmed again, but for a tested byte that fails.               *)
LEMMA MarkProgrammed ==
  ASSUME IInv, sf_PageWrite
  PROVE  MarkInv'
<1>1. TypeOK /\ PartsLeft /\ Merged /\ Programming /\ MarkStands /\ MarkCall
  BY DEF IInv, MarkInv, WriteInv
<1>2. /\ pc = "program" /\ page' = page + 1
      /\ pc' = (IF page + 1 = PageSize \div PROG THEN "verify" ELSE "program")
      /\ UNCHANGED <<todo, then, s_spiBuf, call>>
  BY CommandIs
<1>3. SectorIs /\ page < PageSize \div PROG
  BY <1>1, <1>2, ActiveSector DEF Active, Programming
<1>4. uiFirstAddr' = uiFirstAddr /\ \A a : Buf(a)' = Buf(a)
  BY <1>2, SameSector DEF Buf
<1>5. /\ PageBytes \subseteq Sector /\ page * PROG \in Nat
      /\ \A a \in Sector : a < uiFirstAddr + (page + 1) * PROG
              => a < uiFirstAddr + page * PROG \/ a \in PageBytes
  BY <1>1, <1>3, CommandInSector
<1>6. PICK S \in SUBSET PageBytes :
        /\ flash' = Programmed(S) /\ ready' \in BOOLEAN /\ (ready' => ready)
        /\ ready' => MarkBytes \cap PageBytes \subseteq S
  <2>1. CASE flash' = Programmed(PageBytes) /\ ready' = ready
    <3>1. ready' \in BOOLEAN /\ (ready' => ready)
      BY <1>1, <2>1 DEF TypeOK
    <3> QED BY <2>1, <3>1
  <2>2. ASSUME NEW x \in PageBytes, flash' = Programmed(PageBytes \ {x}),
               ready' = (ready /\ x - MarkAt \notin Tested)
        PROVE  \E S \in SUBSET PageBytes :
                 /\ flash' = Programmed(S) /\ ready' \in BOOLEAN /\ (ready' => ready)
                 /\ ready' => MarkBytes \cap PageBytes \subseteq S
    <3>1. ready' \in BOOLEAN /\ (ready' => ready) /\ (ready' => x - MarkAt \notin Tested)
      BY <2>2, Zenon
    <3>2. x - MarkAt \notin Tested => x \notin MarkBytes
      <4>1. MarkAt \in Nat /\ MarkLen \in Nat /\ Tested \subseteq 0 .. MarkLen - 1
        BY FlashAssumption
      <4>2. \A o \in Tested : (MarkAt + o) - MarkAt = o
        BY <4>1
      <4> QED BY <4>2 DEF MarkBytes
    <3>3. ready' => MarkBytes \cap PageBytes \subseteq PageBytes \ {x}
      BY <3>1, <3>2
    <3> QED BY <2>2, <3>1, <3>3
  <2> QED BY <2>1, <2>2, CommandIs
<1>7. \A a \in Sector : Buf(a) \subseteq flash[a]
  BY <1>1, <1>2 DEF Programming
<1>8. /\ \A a \in Address \ S : flash'[a] = flash[a]
      /\ \A a \in S : flash'[a] = Buf(a)
      /\ \A a \in Sector : flash[a] = Buf(a) => flash'[a] = Buf(a)
  <2>1. S \in SUBSET Sector
    BY <1>5
  <2> QED BY <1>3, <1>6, <1>7, <2>1, ProgrammedIs
<1>9. ASSUME ready', NEW a \in MarkBytes
      PROVE  /\ uiFirstAddr = 0 => Buf(a) = Marker
             /\ uiFirstAddr # 0 => flash'[a] = Marker
             /\ uiFirstAddr = 0 /\ a < (page + 1) * PROG => flash'[a] = Marker
  <2>1. ready /\ a \in Address /\ pc \in Active
    BY <1>2, <1>6, <1>9, MarkFacts DEF Active
  <2>2. uiFirstAddr = 0 => Buf(a) = Marker
    BY <1>1, <2>1 DEF MarkStands, InMark
  <2>3. ASSUME uiFirstAddr # 0 PROVE flash'[a] = Marker
    <3>1. flash[a] = Marker
      BY <1>1, <2>1, <2>3 DEF MarkStands, InMark
    <3>2. a \notin S
      BY <1>3, <1>5, <2>3, MarkSector
    <3> QED BY <1>8, <2>1, <3>1, <3>2
  <2>4. ASSUME uiFirstAddr = 0, a < (page + 1) * PROG PROVE flash'[a] = Marker
    <3>1. a \in Sector
      BY <1>3, <2>4, MarkSector
    <3>2. CASE a \in PageBytes
      BY <1>6, <1>8, <1>9, <2>2, <2>4, <3>2
    <3>3. CASE a \notin PageBytes
      <4>1. a < page * PROG
        <5>1. page \in Nat /\ PROG \in Nat /\ (page + 1) * PROG \in Nat /\ page * PROG \in Nat
          BY <1>1, <1>5, Sizes DEF TypeOK
        <5>2. a < uiFirstAddr + (page + 1) * PROG
          BY <2>4, <5>1
        <5>3. a < uiFirstAddr + page * PROG
          BY <1>5, <3>1, <3>3, <5>2
        <5> QED BY <2>4, <5>1, <5>3
      <4>2. flash[a] = Marker
        BY <1>1, <1>2, <2>1, <4>1 DEF MarkStands
      <4> QED BY <1>8, <2>2, <2>4, <3>1, <4>2
    <3> QED BY <3>2, <3>3
  <2> QED BY <2>2, <2>3, <2>4
<1>10. (page + 1 = PageSize \div PROG) => \A a \in MarkBytes : a < (page + 1) * PROG
  <2>1. (PageSize \div PROG) * PROG = PageSize
    BY Sizes
  <2>2. \A a \in MarkBytes : a < PageSize
    BY MarkFacts, Sizes
  <2>3. page + 1 = PageSize \div PROG => (page + 1) * PROG = PageSize
    BY <2>1
  <2> QED BY <2>2, <2>3
<1>11. MarkStands'
  <2>1. pc' # "chip" /\ pc' \in Active
    BY <1>2 DEF Active
  <2>2. ASSUME ready', NEW a \in MarkBytes
        PROVE  /\ InMark' => Buf(a)' = Marker
               /\ ~InMark' \/ (pc' = "program" /\ a < page' * PROG) \/ pc' = "verify"
                    => flash'[a] = Marker
    BY <1>2, <1>4, <1>9, <1>10, <2>1, <2>2 DEF InMark
  <2> QED BY <2>1, <2>2 DEF MarkStands
<1>12. MarkCall'
  <2>1. pc \in Writing
    BY <1>2 DEF Writing, Active
  <2>2. ready \in BOOLEAN /\ ready' \in BOOLEAN /\ (ready' => ready)
    BY <1>1, <1>6 DEF TypeOK
  <2> QED BY <1>1, <1>2, <2>1, <2>2 DEF MarkCall
<1> QED BY <1>11, <1>12 DEF MarkInv

(* It stands after the comparison, and while the sector is tried again.    *)
LEMMA MarkCompared ==
  ASSUME IInv, Compared \/ CompareFailed
  PROVE  MarkInv'
<1>1. TypeOK /\ MarkStands /\ MarkCall
  BY DEF IInv, MarkInv
<1>2. /\ pc = "verify" /\ UNCHANGED <<flash, then, s_spiBuf, call, ready>>
      /\ \/ pc' \in {"auto", "ret"}
         \/ pc' \in {"erase", "program"} /\ todo' = todo /\ page' = 0
  BY DEF Compared, CompareFailed, Idle, History
<1>3. ASSUME ready, NEW a \in MarkBytes
      PROVE  flash[a] = Marker /\ (InMark => Buf(a) = Marker)
  BY <1>1, <1>2, <1>3 DEF MarkStands
<1>4. MarkCall'
  BY <1>1, <1>2 DEF MarkCall, Writing, Active
<1>5. CASE pc' \in {"auto", "ret"}
  BY <1>2, <1>3, <1>4, <1>5 DEF MarkInv, MarkStands, InMark, Active
<1>6. CASE pc' \in {"erase", "program"} /\ todo' = todo /\ page' = 0
  <2>1. uiFirstAddr' = uiFirstAddr /\ \A a : Buf(a)' = Buf(a)
    BY <1>2, <1>6, SameSector DEF Buf
  <2>2. InMark' = InMark
    BY <1>2, <1>6, <2>1 DEF InMark, Active
  <2>3. MarkStands'
    BY <1>2, <1>3, <1>6, <2>1, <2>2 DEF MarkStands
  <2> QED BY <1>4, <2>3 DEF MarkInv
<1> QED BY <1>2, <1>5, <1>6

(* A loss of power disturbs it only with its sector.                       *)
LEMMA MarkLoss ==
  ASSUME IInv, PowerLoss
  PROVE  MarkInv'
<1>1. /\ TypeOK /\ PartsLeft /\ Merged /\ Programming /\ MarkStands
  BY DEF IInv, MarkInv, WriteInv
<1>2. /\ pc' = "off" /\ flash' \in Torn
      /\ ready' = (ready /\ ~(pc \in {"erase", "program", "verify"} /\ uiFirstAddr = 0))
  BY DEF PowerLoss
<1>3. ready' => ready /\ ~InMark
  BY <1>2, Zenon DEF InMark, Active
<1>4. ASSUME ready', NEW a \in MarkBytes PROVE flash'[a] = Marker
  <2>1. flash[a] = Marker /\ pc # "chip" /\ a \in Address
    BY <1>1, <1>3, <1>4, MarkFacts DEF MarkStands
  <2>2. pc \in Active => a \notin Sector
    <3>1. pc \in Active => SectorIs /\ uiFirstAddr # 0
      BY <1>1, <1>3, <1>4, ActiveSector DEF InMark
    <3> QED BY <3>1, MarkSector
  <2>3. flash'[a] = flash[a]
    BY <1>1, <1>2, <2>1, <2>2, TornElsewhere
  <2> QED BY <2>1, <2>3
<1> QED BY <1>2, <1>4 DEF MarkInv, MarkStands, MarkCall, InMark, Writing, Active

LEMMA MarkInvKept == IInv /\ [Next]_vars => MarkInv'
<1> SUFFICES ASSUME IInv, [Next]_vars PROVE MarkInv'
  OBVIOUS
<1>1. CASE UNCHANGED vars
  BY <1>1 DEF IInv, MarkInv, MarkStands, MarkCall, InMark, Buf, uiFirstAddr, w0, vars, counts
<1>2. CASE \/ PowerOn \/ FoundUsed \/ FoundNew \/ Returned
           \/ PieceDone \/ PieceRefused \/ AllWritten
  BY <1>2, MarkQuiet
<1>3. CASE sf_EraseChip \/ MarkWritten \/ (\E c \in Calls, v \in Byte : Write(c, v))
  BY <1>3, MarkCalls
<1>4. CASE PieceChanged
  BY <1>4, MarkMerged
<1>5. CASE sf_EraseSector
  BY <1>5, MarkErased
<1>6. CASE sf_PageWrite
  BY <1>6, MarkProgrammed
<1>7. CASE Compared \/ CompareFailed
  BY <1>7, MarkCompared
<1>8. CASE PowerLoss
  BY <1>8, MarkLoss
<1> QED BY <1>1, <1>2, <1>3, <1>4, <1>5, <1>6, <1>7, <1>8 DEF Next

-----------------------------------------------------------------------------
(* The types, what the code has written of the range under way, and what   *)
(* stands around it and in the marker are invariant, for sectors, program  *)
(* commands and chips of any size and with any number of losses of power   *)
(* and of bytes that fail.                                                 *)
THEOREM FlashInvariant == Spec => []IInv
<1>1. Init => IInv
  BY InitTypes, InitWriteInv, InitMarkInv DEF IInv
<1>2. IInv /\ [Next]_vars => IInv'
  <2> SUFFICES ASSUME IInv, [Next]_vars PROVE IInv'
    OBVIOUS
  <2>1. TypeOK'
    BY TypesKept DEF IInv, WriteInv
  <2> QED BY <2>1, WriteInvKept, MarkInvKept DEF IInv
<1> QED BY <1>1, <1>2, PTL DEF Spec

(* The variables of sf_WriteBuffer and sf_AutoWritePage stay in their      *)
(* types: the image in a sector's buffer, the tries below three.           *)
THEOREM FlashTypes == Spec => []TypeOK
<1>1. IInv => TypeOK
  BY DEF IInv
<1> QED BY <1>1, FlashInvariant, PTL

(* When sf_WriteBuffer returns 1, the range lies in the chip, which holds  *)
(* exactly the bytes it was given: no piece has disturbed another, and no  *)
(* bit that had to be set was left to programming.                         *)
THEOREM FlashWriteExact == Spec => []WriteExact
<1>1. IInv => WriteExact
  BY DEF IInv, WriteInv, Result
<1> QED BY <1>1, FlashInvariant, PTL

(* Reading, merging and rewriting whole sectors leaves the bytes around    *)
(* the range as they were when sf_WriteBuffer was called, if none failed.  *)
THEOREM FlashNeighboursKept == Spec => []NeighboursKept
<1>1. IInv => NeighboursKept
  BY DEF IInv, WriteInv, Around, NeighboursKept, Active
<1> QED BY <1>1, FlashInvariant, PTL

(* sf_WriteBuffer returns 0 only for a range beyond the chip or when three *)
(* bytes at least failed: what sf_NeedErase decides is never the cause.    *)
THEOREM FlashFailsForCause == Spec => []FailsForCause
<1>1. IInv => FailsForCause
  BY DEF IInv, WriteInv, Result
<1> QED BY <1>1, FlashInvariant, PTL

(* Whenever power is lost, the sectors that the range of the call under    *)
(* way does not touch hold what they held when the call was made.          *)
THEOREM FlashDamageIsLocal == Spec => []DamageIsLocal
<1>1. IInv => DamageIsLocal
  BY DEF IInv, WriteInv
<1> QED BY <1>1, FlashInvariant, PTL

(* bsp_InitSFlash erases no chip whose marker was written and whose sector *)
(* 0 was not being rewritten when power was lost.                          *)
THEOREM FlashUsedChipKept == Spec => []UsedChipKept
<1>1. IInv => UsedChipKept
  BY DEF IInv, MarkInv, MarkStands, UsedChipKept
<1> QED BY <1>1, FlashInvariant, PTL

=============================================================================

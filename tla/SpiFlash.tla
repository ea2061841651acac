------------------------------ MODULE SpiFlash ------------------------------
(***************************************************************************)
(* The serial flash behind bsp_spi_flash.c: writing of any range of bytes  *)
(* by whole sectors (read, merge, erase, program, compare, try again), and *)
(* the power-up code that erases a chip it takes for a new one.            *)
(*                                                                         *)
(* A byte is the set of its bits that are 1.  Erasing sets every bit of a  *)
(* sector; programming can only clear bits, so it takes the intersection.  *)
(* Two things may go wrong in the chip: power is lost, which leaves any    *)
(* part of the erase or of the page program under way done, and a byte may *)
(* fail to be programmed, which is what the code compares and retries for. *)
(* The chip is programmed PROG bytes at a time: 256 on the MX25L1606E and  *)
(* the W25Qxx, 2 on the SST25VF016B.                                       *)
(***************************************************************************)
EXTENDS Integers, Sequences, FiniteSets

CONSTANTS
  Bits,        \* the bits of a byte
  PageSize,    \* g_tSF.PageSize, the size of a sector
  Sectors,     \* g_tSF.TotalSize \div g_tSF.PageSize
  PROG,        \* bytes programmed by one command
  Marker,      \* the byte 0xAA
  MarkAt, MarkLen, Tested,   \* bytes 10..19, of which 10, 12, 14, 16 are tested
  CountAt, CountLen,         \* bytes 100..103, the record counters
  Calls,       \* <<address, length>> of the calls of sf_WriteBuffer
  MaxCalls, MaxLosses, MaxFaults   \* bounds on calls, power losses and bytes that fail

Byte == SUBSET Bits
TotalSize == PageSize * Sectors
Address == 0 .. TotalSize - 1
TRIES == 3

ASSUME FlashAssumption ==
  /\ PageSize \in Nat \ {0} /\ Sectors \in Nat \ {0} /\ PROG \in Nat \ {0}
  /\ PageSize % PROG = 0
  /\ Marker \in Byte \ {Bits}
  /\ MarkAt \in Nat /\ MarkLen \in Nat /\ MarkAt + MarkLen <= PageSize
  /\ Tested # {} /\ Tested \subseteq 0 .. MarkLen - 1
  /\ CountAt \in Nat /\ CountLen \in Nat /\ CountAt + CountLen <= TotalSize
  /\ Calls \subseteq Nat \X Nat
  /\ MaxCalls \in Nat /\ MaxLosses \in Nat /\ MaxFaults \in Nat

\* Nobody else writes to the tested bytes: the record counters lie elsewhere, and
\* Ymodem_Receive writes 8 bytes at multiples of the packet length, 128 or 1024.
ASSUME MarkerApart ==
  \A o \in Tested :
    /\ MarkAt + o \notin CountAt .. CountAt + CountLen - 1
    /\ \A c \in Calls : MarkAt + o \notin c[1] .. c[1] + c[2] - 1

VARIABLES
  flash,      \* the chip's contents
  pc,         \* where the code is; "off" while there is no power
  todo,       \* pieces that sf_WriteBuffer has still to write: [addr, data]
  then,       \* the caller sf_WriteBuffer returns to
  s_spiBuf,   \* image of the sector being written
  ucNeedErase,\* the sector has to be erased first
  tries,      \* i of sf_AutoWritePage's loop
  page,       \* j of sf_PageWrite's loop
  cRet,       \* result of the last sf_WriteBuffer
  call,       \* history: [addr, data] of the call
  before,     \* history: the contents when the call was made
  faults,     \* history: bytes that failed in this call
  ready,      \* history: the chip is initialised and its marker not disturbed
  calls, losses, failed   \* the counts that are bounded

counts == <<calls, losses, failed>>
vars == <<flash, pc, todo, then, s_spiBuf, ucNeedErase, tries, page, cRet, call, before, faults, ready, counts>>

First(w) == w.addr
Last(w) == w.addr + Len(w.data) - 1
Span(w) == First(w) .. Last(w)
At(w, a) == w.data[a - w.addr + 1]

-----------------------------------------------------------------------------
Erased == [a \in Address |-> Bits]
NoCall == [addr |-> 0, data |-> <<>>]

\* A chip as it comes: erased, or with something else in it.
Init ==
  /\ flash \in {Erased, [a \in Address |-> {}]}
  /\ pc = "off" /\ todo = <<>> /\ then = "user" /\ cRet = 0
  /\ s_spiBuf = [k \in 0 .. PageSize - 1 |-> {}]
  /\ ucNeedErase = FALSE /\ tries = 0 /\ page = 0
  /\ call = NoCall /\ before = flash /\ faults = 0 /\ ready = FALSE
  /\ calls = 0 /\ losses = 0 /\ failed = 0

-----------------------------------------------------------------------------
Piece(w, from, n) == [addr |-> w.addr + from, data |-> SubSeq(w.data, from + 1, from + n)]

\* The whole pages that follow the first from bytes, and what remains.
Pages(w, from) ==
  LET n == (Len(w.data) - from) \div PageSize
  IN  [k \in 1 .. n |-> Piece(w, from + (k - 1) * PageSize, PageSize)]
Single(w, from) ==
  LET n == (Len(w.data) - from) % PageSize
  IN  Piece(w, Len(w.data) - n, n)

\* Mutant: the part beyond the first sector is forgotten.
PiecesFirst(w) == LET count == PageSize - (w.addr % PageSize)
                  IN  <<IF Len(w.data) < count THEN w ELSE Piece(w, 0, count)>>

\* The pieces, each within a sector, that sf_WriteBuffer hands to sf_AutoWritePage.
Pieces(w) ==
  LET Addr  == w.addr % PageSize
      count == PageSize - Addr
      size  == Len(w.data)
  IN  CASE Addr = 0 /\ size < PageSize -> <<w>>
        [] Addr = 0 /\ size >= PageSize -> Pages(w, 0) \o <<Single(w, 0)>>
        [] Addr # 0 /\ size < PageSize /\ size > count -> <<Piece(w, 0, count), Piece(w, count, size - count)>>
        [] Addr # 0 /\ size < PageSize /\ size <= count -> <<w>>
        [] Addr # 0 /\ size >= PageSize ->
             <<Piece(w, 0, count)>> \o Pages(w, count)
               \o (IF (size - count) % PageSize # 0 THEN <<Single(w, count)>> ELSE <<>>)

sf_WriteBuffer(w, from) ==
  /\ todo' = Pieces(w) /\ then' = from /\ pc' = "auto"
  /\ call' = w /\ before' = flash' /\ faults' = 0

-----------------------------------------------------------------------------
(* sf_AutoWritePage for the first piece of todo *)
w0 == Head(todo)
uiFirstAddr == w0.addr - (w0.addr % PageSize)
Sector == uiFirstAddr .. uiFirstAddr + PageSize - 1

Same(w) == \A a \in Span(w) : flash[a] = At(w, a)

\* Mutant: the wrong form that the comment of sf_NeedErase warns of, ucOld & (new != 0).
NeedEraseUnbracketed(w) == \E a \in Span(w) : 0 \notin flash[a] /\ At(w, a) # {}

\* Some bit would have to go from 0 to 1.
sf_NeedErase(w) == \E a \in Span(w) : ~(At(w, a) \subseteq flash[a])

\* Mutant: the rest of the sector is not read first.
ImageAlone(w) == [k \in 0 .. PageSize - 1 |-> IF uiFirstAddr + k \in Span(w) THEN At(w, uiFirstAddr + k) ELSE Bits]

Image(w) == [k \in 0 .. PageSize - 1 |->
               IF uiFirstAddr + k \in Span(w) THEN At(w, uiFirstAddr + k) ELSE flash[uiFirstAddr + k]]

Refused(w) == w.addr >= TotalSize \/ Len(w.data) > PageSize

Idle == UNCHANGED <<s_spiBuf, ucNeedErase, tries, page>>
History == UNCHANGED <<call, before, ready, counts>>

\* Nothing left to write, or nothing to write in this piece.
PieceDone ==
  /\ pc = "auto" /\ todo # <<>>
  /\ Len(w0.data) = 0 \/ (~Refused(w0) /\ Same(w0))
  /\ todo' = Tail(todo)
  /\ UNCHANGED <<flash, pc, then, cRet, faults>> /\ Idle /\ History

PieceRefused ==
  /\ pc = "auto" /\ todo # <<>> /\ Len(w0.data) # 0 /\ Refused(w0)
  /\ todo' = <<>> /\ cRet' = 0 /\ pc' = "ret"
  /\ UNCHANGED <<flash, then, faults>> /\ Idle /\ History

PieceChanged ==
  /\ pc = "auto" /\ todo # <<>> /\ Len(w0.data) # 0 /\ ~Refused(w0) /\ ~Same(w0)
  /\ ucNeedErase' = sf_NeedErase(w0) /\ s_spiBuf' = Image(w0)
  /\ tries' = 0 /\ page' = 0
  /\ pc' = IF sf_NeedErase(w0) THEN "erase" ELSE "program"
  /\ UNCHANGED <<flash, todo, then, cRet, faults>> /\ History

AllWritten ==
  /\ pc = "auto" /\ todo = <<>> /\ cRet' = 1 /\ pc' = "ret"
  /\ UNCHANGED <<flash, todo, then, faults>> /\ Idle /\ History

\* Mutant: the command that erases the whole chip is sent.
sf_EraseSectorByChip ==
  /\ pc = "erase" /\ pc' = "program" /\ page' = 0 /\ flash' = Erased
  /\ UNCHANGED <<todo, then, cRet, s_spiBuf, ucNeedErase, tries, faults>> /\ History

sf_EraseSector ==
  /\ pc = "erase" /\ pc' = "program" /\ page' = 0
  /\ flash' = [a \in Address |-> IF a \in Sector THEN Bits ELSE flash[a]]
  /\ UNCHANGED <<todo, then, cRet, s_spiBuf, ucNeedErase, tries, faults>> /\ History

\* The bytes of one program command, and the contents when those in S are programmed.
PageBytes == uiFirstAddr + page * PROG .. uiFirstAddr + page * PROG + PROG - 1
Programmed(S) == [a \in Address |-> IF a \in S THEN flash[a] \cap s_spiBuf[a - uiFirstAddr] ELSE flash[a]]

sf_PageWrite ==
  /\ pc = "program" /\ page' = page + 1
  /\ pc' = IF page + 1 = PageSize \div PROG THEN "verify" ELSE "program"
  /\ \/ flash' = Programmed(PageBytes) /\ UNCHANGED <<faults, failed, ready>>
     \/ \E a \in PageBytes :
          /\ failed < MaxFaults /\ ~(flash[a] \subseteq s_spiBuf[a - uiFirstAddr])
          /\ flash' = Programmed(PageBytes \ {a})
          /\ faults' = faults + 1 /\ failed' = failed + 1
          /\ ready' = (ready /\ a - MarkAt \notin Tested)
  /\ UNCHANGED <<todo, then, cRet, s_spiBuf, ucNeedErase, tries, call, before, calls, losses>>

LastTry == tries + 1 = TRIES

\* The second sf_CmpData of a failed comparison reads the same bytes again.
Compared ==
  /\ pc = "verify" /\ Same(w0)
  /\ todo' = Tail(todo) /\ pc' = "auto"
  /\ UNCHANGED <<flash, then, cRet, faults>> /\ Idle /\ History

CompareFailed ==
  /\ pc = "verify" /\ ~Same(w0)
  /\ IF LastTry
     THEN pc' = "ret" /\ cRet' = 0 /\ todo' = <<>> /\ UNCHANGED <<tries, page>>
     ELSE /\ tries' = tries + 1 /\ page' = 0 /\ UNCHANGED <<todo, cRet>>
          /\ pc' = IF ucNeedErase THEN "erase" ELSE "program"
  /\ UNCHANGED <<flash, then, s_spiBuf, ucNeedErase, faults>> /\ History

-----------------------------------------------------------------------------
(* The callers *)
Fill(addr, n, v) == [addr |-> addr, data |-> [k \in 1 .. n |-> v]]

PowerOn ==
  /\ pc = "off" /\ pc' = "boot"
  /\ UNCHANGED <<flash, todo, then, cRet, faults>> /\ Idle /\ History

Marked == \E o \in Tested : flash[MarkAt + o] = Marker

FoundUsed ==
  /\ pc = "boot" /\ Marked /\ pc' = "idle"
  /\ UNCHANGED <<flash, todo, then, cRet, faults>> /\ Idle /\ History

FoundNew ==
  /\ pc = "boot" /\ ~Marked /\ pc' = "chip"
  /\ call' = Fill(0, TotalSize, Bits) /\ before' = flash
  /\ UNCHANGED <<flash, todo, then, cRet, faults, ready, counts>> /\ Idle

sf_EraseChip ==
  /\ pc = "chip" /\ flash' = Erased
  /\ sf_WriteBuffer(Fill(MarkAt, MarkLen, Marker), "mark")
  /\ UNCHANGED <<cRet, ready, counts>> /\ Idle

MarkWritten ==
  /\ pc = "ret" /\ then = "mark" /\ ready' = (cRet = 1)
  /\ UNCHANGED <<flash, cRet, counts>> /\ Idle
  /\ sf_WriteBuffer(Fill(CountAt, CountLen, {}), "boot")

Returned ==
  /\ pc = "ret" /\ then \in {"boot", "user"} /\ pc' = "idle"
  /\ UNCHANGED <<flash, todo, then, cRet, faults>> /\ Idle /\ History

Write(c, v) ==
  /\ pc = "idle" /\ calls < MaxCalls /\ calls' = calls + 1
  /\ UNCHANGED <<flash, cRet, ready, losses, failed>> /\ Idle
  /\ sf_WriteBuffer(Fill(c[1], c[2], v), "user")

\* What the erase or the program command under way has done when power goes.
Torn ==
  CASE pc = "erase"   -> {[a \in Address |-> IF a \in S THEN Bits ELSE flash[a]] : S \in SUBSET Sector}
    [] pc = "program" -> {Programmed(S) : S \in SUBSET PageBytes}
    [] pc = "chip"    -> {[a \in Address |-> IF a \div PageSize \in S THEN Bits ELSE flash[a]] :
                            S \in SUBSET (0 .. Sectors - 1)}
    [] OTHER          -> {flash}

PowerLoss ==
  /\ pc # "off" /\ losses < MaxLosses /\ losses' = losses + 1
  /\ flash' \in Torn /\ pc' = "off"
  /\ ready' = (ready /\ ~(pc \in {"erase", "program", "verify"} /\ uiFirstAddr = 0))
  /\ todo' = <<>> /\ then' = "user" /\ cRet' = 0
  /\ UNCHANGED <<call, before, faults, calls, failed>> /\ Idle

Next ==
  \/ PowerOn \/ FoundUsed \/ FoundNew \/ sf_EraseChip \/ MarkWritten \/ Returned
  \/ \E c \in Calls, v \in Byte : Write(c, v)
  \/ PieceDone \/ PieceRefused \/ PieceChanged \/ AllWritten
  \/ sf_EraseSector \/ sf_PageWrite \/ Compared \/ CompareFailed
  \/ PowerLoss

Spec == Init /\ [][Next]_vars

-----------------------------------------------------------------------------
Write_ == [addr : Nat, data : Seq(Byte)]

\* The variables have their types; the loop makes no more than three tries.
TypeOK ==
  /\ flash \in [Address -> Byte] /\ before \in [Address -> Byte]
  /\ pc \in {"off", "boot", "chip", "idle", "auto", "erase", "program", "verify", "ret"}
  /\ todo \in Seq(Write_) /\ call \in Write_
  /\ then \in {"mark", "boot", "user"} /\ cRet \in {0, 1}
  /\ s_spiBuf \in [0 .. PageSize - 1 -> Byte]
  /\ ucNeedErase \in BOOLEAN /\ tries \in 0 .. TRIES - 1 /\ page \in 0 .. PageSize \div PROG
  /\ faults \in Nat /\ ready \in BOOLEAN
  /\ calls \in 0 .. MaxCalls /\ losses \in 0 .. MaxLosses /\ failed \in 0 .. MaxFaults

\* When sf_WriteBuffer reports success the range lies in the chip, which holds
\* exactly the bytes it was given, also when bytes failed on the way and wherever the range lies in the sectors.
WriteExact ==
  pc = "ret" /\ cRet = 1 => \A a \in Span(call) : a \in Address /\ flash[a] = At(call, a)

\* Rewriting whole sectors leaves the bytes around the range as they were, on a
\* chip whose bytes do not fail: the comparison covers the written range only.
NeighboursKept == pc = "ret" /\ faults = 0 => \A a \in Address \ Span(call) : flash[a] = before[a]

\* sf_WriteBuffer fails only for a range beyond the chip or after three failed
\* tries: the decision not to erase never leaves a bit that cannot be set.
FailsForCause == pc = "ret" /\ cRet = 0 => ~(Span(call) \subseteq Address) \/ faults >= TRIES

\* A loss of power damages only the sectors of the call that was under way; all
\* others hold what they held when the call was made.
DamageIsLocal ==
  \A a \in Address : a \div PageSize \notin {b \div PageSize : b \in Span(call)} => flash[a] = before[a]

\* bsp_InitSFlash erases the whole chip only if it was never initialised, or if
\* power was lost while sector 0, which holds the marker, was being rewritten.
UsedChipKept == pc = "chip" => ~ready

=============================================================================

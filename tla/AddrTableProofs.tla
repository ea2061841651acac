--------------------------- MODULE AddrTableProofs --------------------------
(***************************************************************************)
(* Proofs about the registration table, for tables and EEPROMs of any      *)
(* size, any readers and any number of power losses.                       *)
(*                                                                         *)
(* The rows: whatever a row of g_RUNDate says is in the table, and nothing *)
(* that is still to be written goes there; a slot that has been scanned    *)
(* and has no row is free, or the byte that frees it is still to be        *)
(* written; and until its slot is scanned nobody has a logical address.    *)
(* From this follow Recovered and PolledUnique.                            *)
(*                                                                         *)
(* The configuration: it is kept, and used, as long as the table stays     *)
(* where it does not reach into it (ClearUpTo).  The layout of this build, *)
(* where slot 38 begins at the address of the server, is clear up to 31.   *)
(***************************************************************************)
EXTENDS AddrTable, WellFoundedInduction, TLAPS

Writes == EEPROM \X Byte

Scan == {"scan", "delete"}
Booted == Scan \cup {"window", "assign", "run"}

(* The registration window has been opened, and nothing has happened yet.  *)
Opened == pc = "window" /\ ucCount = WINDOW

-----------------------------------------------------------------------------
(* The rows and the table                                                  *)

(* Nothing is left of the last power cycle; the window has a round left.   *)
Fresh ==
  /\ pc \in {"off", "check", "verify"} =>
       /\ slot = 1 /\ from = 1 /\ tries = 0
       /\ \A i \in Slots : row[i] = Unused
       /\ \A r \in Readers : logic[r] = 0
  /\ pc = "assign" => ucCount > 0
  /\ pc = "scan" => from = 1

(* A row says what the table says, and will say.                           *)
RowsStand ==
  \A i \in Slots : row[i] # Unused =>
    /\ Used(i) /\ PhysicalAt(i) = row[i]
    /\ \A k \in DOMAIN todo : todo[k][1] \notin Cells(i)

(* The scan comes to the slots, and the readers to their addresses, in     *)
(* order.                                                                  *)
InOrder ==
  pc \in Scan =>
    /\ \A i \in slot..ADD_SIZE : row[i] = Unused
    /\ \A r \in Readers : logic[r] <= slot
    /\ pc = "scan" /\ tries = 0 => \A r \in Readers : logic[r] < slot
    /\ pc = "scan" /\ tries = 1 =>
         /\ todo = <<>>
         /\ \A r \in Readers : logic[r] = slot => SN[r] = PhysicalAt(slot)

(* The reader about to be addressed is the one of the row, if there is one.*)
Assigned == pc = "assign" => row[slot] \in {Unused, sn}

(* The slot is free, or the zero that frees it is to be written.           *)
Vacated(i) == ~Used(i) \/ \E k \in DOMAIN todo : todo[k] = <<SlotBase(i), 0>>

Scanned == IF pc = "window" THEN Slots ELSE 1..(slot - 1)

(* A scanned slot without a row is, or will be, free.                      *)
NoneForgotten ==
  pc \in Scan \/ Opened =>
    /\ \A k \in DOMAIN todo, i \in Slots :
         todo[k][1] = SlotBase(i) => todo[k][2] = 0
    /\ \A i \in Scanned : row[i] = Unused => Vacated(i)
    /\ pc = "delete" /\ from > slot => Vacated(slot)

RowInv == Fresh /\ RowsStand /\ InOrder /\ Assigned /\ NoneForgotten /\ PolledUnique

IInv == TypeOK /\ RowInv

-----------------------------------------------------------------------------
(* The configuration                                                       *)

Whole == \A k \in DOMAIN ConfigDat : ee[ConfigDat[k][1]] = ConfigDat[k][2]

Protected == Config \cup {FLAG_ADD}

(* The first n slots do not reach into the configuration, and those that   *)
(* do begin with a byte of it that is none of the first n slot numbers.    *)
ClearUpTo(n) ==
  \A i \in Slots : Cells(i) \cap Protected # {} =>
    /\ i > n
    /\ \/ SlotBase(i) = FLAG_ADD /\ 85 \notin 1..n
       \/ \E k \in DOMAIN ConfigDat :
            ConfigDat[k][1] = SlotBase(i) /\ ConfigDat[k][2] \notin 1..n

(* No slot beyond n is in use.                                             *)
UpTo(n) == \A i \in Slots : Used(i) => i <= n

(* Writes that leave the configuration alone, or begin with the number of  *)
(* a slot beyond n.                                                        *)
Harmless(n) ==
  \/ \A k \in DOMAIN todo : todo[k][1] \notin Protected
  \/ todo # <<>> /\ \E i \in Slots : i > n /\ todo[1] = <<SlotBase(i), i>>

Done == Len(Format) - Len(todo)

(* AT24CXX_Check is formatting: what is to be written is the rest of       *)
(* Format, what was written is there, and the flag comes last.             *)
Formatting ==
  /\ Len(todo) <= Len(Format)
  /\ \A k \in 1..Len(todo) : todo[k] = Format[Done + k]
  /\ \A k \in DOMAIN ConfigDat :
       EE_TYPE + 1 + k <= Done => ee[ConfigDat[k][1]] = ConfigDat[k][2]
  /\ todo # <<>> => ee[FLAG_ADD] # 85

ConfigInv(n) ==
  /\ ConfigKept /\ ConfigUsed
  /\ pc \in {"off", "check"} => todo = <<>>
  /\ pc = "verify" => Formatting /\ formatted
  /\ pc \in Booted => ee[FLAG_ADD] = 85 /\ Harmless(n)
  /\ pc = "delete" => slot <= n
-----------------------------------------------------------------------------
(* Every set of slots that is not empty has a first one.                   *)
LEMMA LeastIsFirst ==
  ASSUME NEW S, S \subseteq Nat, S # {}
  PROVE  Least(S) \in S /\ \A i \in S : Least(S) <= i
<1> DEFINE Less == {p \in Nat \X Nat : p[1] < p[2]}
<1>1. IsWellFoundedOn(Less, Nat)
  BY NatLessThanWellFounded DEF OpToRel
<1> HIDE DEF Less
<1>2. PICK i \in S : \A j \in S : ~(<<j, i>> \in Less)
  BY <1>1, WFMin
<1>3. ASSUME NEW j \in S PROVE i <= j
  <2>1. i \in Nat /\ j \in Nat /\ <<j, i>> \in Nat \X Nat
    OBVIOUS
  <2>2. ~(j < i)
    BY <1>2, <2>1 DEF Less
  <2> QED BY <2>1, <2>2
<1> QED BY <1>3 DEF Least

(* u is what one call writes, followed by what another one writes.         *)
Joins(u, s, t) ==
  /\ u \in Seq(Writes) /\ Len(u) = Len(s) + Len(t)
  /\ \A k \in 1..Len(s) : u[k] = s[k]
  /\ \A k \in 1..Len(t) : u[Len(s) + k] = t[k]

LEMMA Joined ==
  ASSUME NEW s \in Seq(Writes), NEW t \in Seq(Writes)
  PROVE  Joins(s \o t, s, t)
PROOF BY DEF Joins

(* The slots do not overlap.                                               *)
LEMMA CellsApart ==
  ASSUME NEW i \in Slots, NEW j \in Slots, i # j
  PROVE  \A a \in Cells(i) : a \notin Cells(j)
PROOF BY TableShape DEF Slots, Cells, SlotBase

LEMMA CellsOf ==
  ASSUME NEW i \in Slots
  PROVE  /\ SlotBase(i) \in Cells(i) /\ \A k \in 1..4 : SlotBase(i) + k \in Cells(i)
         /\ Cells(i) \subseteq EEPROM
<1>1. i \in Nat /\ Start_ADD \in Nat
  BY TableShape DEF Slots
<1>2. Cells(i) \subseteq EEPROM
  BY TableShape
<1> QED BY <1>1, <1>2 DEF Cells, SlotBase

(* What Delete_LogicADD writes to a slot: zeros, in its own bytes, also to *)
(* the first.                                                              *)
LEMMA ClearSlotWrites ==
  ASSUME NEW i \in Slots
  PROVE  /\ ClearSlot(i) \in Seq(Writes) /\ Len(ClearSlot(i)) = 5
         /\ \A k \in 1..5 : ClearSlot(i)[k][1] \in Cells(i) /\ ClearSlot(i)[k][2] = 0
         /\ ClearSlot(i)[5] = <<SlotBase(i), 0>>
<1>1. ASSUME NEW k \in 1..4
      PROVE  ZerosFrom(i) + (k - 1) \in Cells(i)
  BY TableShape DEF ZerosFrom, Slots, Cells, SlotBase
<1> DEFINE zeros == [k \in 1..4 |-> <<ZerosFrom(i) + (k - 1), 0>>]
           last == << <<SlotBase(i), 0>> >>
<1>2. zeros \in Seq(Writes) /\ Len(zeros) = 4
  BY <1>1, CellsOf DEF Byte, Writes
<1>3. last \in Seq(Writes) /\ Len(last) = 1
  BY CellsOf DEF Byte, Writes
<1>4. \A k \in 1..4 : zeros[k][1] \in Cells(i) /\ zeros[k][2] = 0
  BY <1>1
<1>5. last[1] = <<SlotBase(i), 0>>
  OBVIOUS
<1>6. ClearSlot(i) = zeros \o last
  BY DEF ClearSlot
<1> HIDE DEF zeros, last
<1>7. /\ ClearSlot(i) \in Seq(Writes) /\ Len(ClearSlot(i)) = 5
      /\ \A k \in 1..4 : ClearSlot(i)[k] = zeros[k]
      /\ ClearSlot(i)[5] = last[1]
  <2>1. Joins(zeros \o last, zeros, last)
    BY <1>2, <1>3, Joined
  <2> QED BY <1>2, <1>3, <1>6, <2>1 DEF Joins
<1>8. <<SlotBase(i), 0>>[1] \in Cells(i) /\ <<SlotBase(i), 0>>[2] = 0
  BY CellsOf
<1>9. ASSUME NEW k \in 1..5
      PROVE  ClearSlot(i)[k][1] \in Cells(i) /\ ClearSlot(i)[k][2] = 0
  <2>1. k \in 1..4 \/ k = 5
    OBVIOUS
  <2> QED BY <2>1, <1>4, <1>5, <1>7, <1>8
<1> QED BY <1>5, <1>7, <1>9

(* What Distribute_LogicADD writes: the slot's number first, then the other*)
(* bytes of the slot and the count.                                        *)
LEMMA RegisterSlotWrites ==
  ASSUME NEW i \in Slots, NEW phys \in [1..4 -> Byte], ee \in [EEPROM -> Byte]
  PROVE  /\ RegisterWrites(i, phys) \in Seq(Writes)
         /\ Len(RegisterWrites(i, phys)) = 6
         /\ RegisterWrites(i, phys)[1] = <<SlotBase(i), i>>
         /\ \A k \in 1..6 :
              RegisterWrites(i, phys)[k][1] \in Cells(i) \cup {COUNT_ADD}
<1> DEFINE first == << <<SlotBase(i), i>> >>
           number == [k \in 1..4 |-> <<SlotBase(i) + k, phys[k]>>]
           count == << <<COUNT_ADD, (ee[COUNT_ADD] + 1) % 256>> >>
<1>1. first \in Seq(Writes) /\ Len(first) = 1
      /\ first[1] = <<SlotBase(i), i>>
  <2>1. SlotBase(i) \in EEPROM
    BY CellsOf
  <2>2. i \in Byte
    <3>1. ADD_SIZE \in 1..255
      BY TableShape
    <3> QED BY <3>1 DEF Byte, Slots
  <2>3. <<SlotBase(i), i>> \in Writes
    BY <2>1, <2>2 DEF Writes
  <2> QED BY <2>3
<1>2. number \in Seq(Writes) /\ Len(number) = 4
      /\ \A k \in 1..4 : number[k][1] \in Cells(i)
  BY CellsOf DEF Writes
<1>3. count \in Seq(Writes) /\ Len(count) = 1 /\ count[1][1] = COUNT_ADD
  <2>1. COUNT_ADD \in EEPROM /\ ee[COUNT_ADD] \in Byte
    BY TableShape
  <2>2. (ee[COUNT_ADD] + 1) % 256 \in Byte
    BY <2>1 DEF Byte
  <2> QED BY <2>1, <2>2 DEF Writes
<1>4. RegisterWrites(i, phys) = (first \o number) \o count
  BY DEF RegisterWrites
<1>5. first[1][1] \in Cells(i)
  BY <1>1, CellsOf
<1> HIDE DEF first, number, count
<1>6. first \o number \in Seq(Writes) /\ Len(first \o number) = 5
      /\ (first \o number)[1] = first[1]
      /\ \A k \in 2..5 : (first \o number)[k] = number[k - 1]
  <2>1. Joins(first \o number, first, number)
    BY <1>1, <1>2, Joined
  <2>2. ASSUME NEW k \in 2..5 PROVE (first \o number)[k] = number[k - 1]
    <3>1. k - 1 \in 1..4 /\ 1 + (k - 1) = k
      OBVIOUS
    <3> QED BY <1>1, <1>2, <2>1, <3>1 DEF Joins
  <2> QED BY <1>1, <1>2, <2>1, <2>2 DEF Joins
<1> DEFINE five == first \o number
<1>7. \A k \in 1..5 : five[k][1] \in Cells(i)
  <2> SUFFICES ASSUME NEW k \in 1..5 PROVE five[k][1] \in Cells(i)
    OBVIOUS
  <2>1. CASE k = 1
    <3>1. five[1] = first[1]
      BY <1>6
    <3> HIDE DEF five
    <3> QED BY <2>1, <3>1, <1>5
  <2>2. CASE k \in 2..5
    <3>1. five[k] = number[k - 1]
      BY <2>2, <1>6
    <3>2. k - 1 \in 1..4
      BY <2>2
    <3> HIDE DEF five
    <3> QED BY <1>2, <3>1, <3>2
  <2>3. k = 1 \/ k \in 2..5
    OBVIOUS
  <2> QED BY <2>1, <2>2, <2>3
<1>8. five \in Seq(Writes) /\ Len(five) = 5 /\ five[1] = <<SlotBase(i), i>>
      /\ RegisterWrites(i, phys) = five \o count
  BY <1>1, <1>4, <1>6
<1> HIDE DEF five
<1>9. /\ RegisterWrites(i, phys) \in Seq(Writes)
      /\ Len(RegisterWrites(i, phys)) = 6
      /\ \A k \in 1..5 : RegisterWrites(i, phys)[k] = five[k]
      /\ RegisterWrites(i, phys)[6] = count[1]
  <2>1. Joins(five \o count, five, count)
    BY <1>3, <1>8, Joined
  <2> DEFINE R == five \o count
  <2>2. RegisterWrites(i, phys) = R
    BY <1>8
  <2>3. Joins(R, five, count) /\ Len(five) = 5 /\ Len(count) = 1
    BY <1>3, <1>8, <2>1
  <2> HIDE DEF R
  <2>4. R \in Seq(Writes) /\ Len(R) = 6
    BY <2>3 DEF Joins
  <2>5. \A k \in 1..5 : R[k] = five[k]
    BY <2>3 DEF Joins
  <2>6. R[6] = count[1]
    BY <2>3 DEF Joins
  <2> QED BY <2>2, <2>4, <2>5, <2>6
<1>10. ASSUME NEW k \in 1..6
       PROVE  RegisterWrites(i, phys)[k][1] \in Cells(i) \cup {COUNT_ADD}
  <2>1. CASE k \in 1..5
    <3>1. RegisterWrites(i, phys)[k] = five[k] /\ five[k][1] \in Cells(i)
      BY <2>1, <1>7, <1>9
    <3> QED BY <3>1
  <2>2. CASE k = 6
    BY <2>2, <1>3, <1>9
  <2> QED BY <2>1, <2>2
<1>11. RegisterWrites(i, phys)[1] = <<SlotBase(i), i>>
  <2>1. RegisterWrites(i, phys)[1] = five[1] /\ five[1] = <<SlotBase(i), i>>
    BY <1>8, <1>9
  <2> QED BY <2>1
<1>12. RegisterWrites(i, phys) \in Seq(Writes) /\ Len(RegisterWrites(i, phys)) = 6
  BY <1>9
<1> QED BY <1>10, <1>11, <1>12

(* What AT24CXX_Check writes: zeros everywhere, the defaults, the flag.    *)
LEMMA FormatWrites ==
  /\ Format \in Seq(Writes)
  /\ Len(Format) = EE_TYPE + 2 + Len(ConfigDat) /\ Len(ConfigDat) \in Nat
  /\ \A k \in 1..(EE_TYPE + 1) : Format[k] = <<k - 1, 0>>
  /\ \A k \in DOMAIN ConfigDat : Format[EE_TYPE + 1 + k] = ConfigDat[k]
  /\ Format[Len(Format)] = <<FLAG_ADD, 85>>
<1> DEFINE flag == << <<FLAG_ADD, 85>> >>
<1>1. ConfigDat \in Seq(Writes) /\ EE_TYPE \in Nat /\ FLAG_ADD \in EEPROM
  BY TableShape DEF Writes
<1>2. Delete_allDat \in Seq(Writes) /\ Len(Delete_allDat) = EE_TYPE + 1
      /\ \A k \in 1..(EE_TYPE + 1) : Delete_allDat[k] = <<k - 1, 0>>
  BY <1>1 DEF Delete_allDat, EEPROM, Byte, Writes
<1>3. flag \in Seq(Writes) /\ Len(flag) = 1 /\ flag[1] = <<FLAG_ADD, 85>>
  BY <1>1 DEF Byte, Writes
<1>4. Format = (Delete_allDat \o ConfigDat) \o flag
  BY DEF Format
<1> HIDE DEF flag
<1> DEFINE both == Delete_allDat \o ConfigDat
<1>5. both \in Seq(Writes) /\ Len(both) = EE_TYPE + 1 + Len(ConfigDat)
      /\ (\A k \in 1..(EE_TYPE + 1) : both[k] = Delete_allDat[k])
      /\ (\A k \in 1..Len(ConfigDat) : both[EE_TYPE + 1 + k] = ConfigDat[k])
  <2>1. Joins(both, Delete_allDat, ConfigDat)
    BY <1>1, <1>2, Joined
  <2> HIDE DEF both
  <2> QED BY <1>2, <2>1 DEF Joins
<1>6. Len(ConfigDat) \in Nat /\ DOMAIN ConfigDat = 1..Len(ConfigDat)
  BY <1>1
<1>7. Format = both \o flag
  BY <1>4
<1> HIDE DEF both
<1>8. /\ Format \in Seq(Writes) /\ Len(Format) = Len(both) + 1
      /\ \A k \in 1..Len(both) : Format[k] = both[k]
      /\ \A k \in 1..1 : Format[Len(both) + k] = flag[k]
  <2>1. Joins(both \o flag, both, flag)
    BY <1>3, <1>5, Joined
  <2> QED BY <1>3, <1>7, <2>1 DEF Joins
<1>9. Len(both) \in Nat
  BY <1>1, <1>5, <1>6
<1>10. \A k \in 1..(EE_TYPE + 1) : k \in 1..Len(both)
  BY <1>1, <1>5, <1>6
<1>11. Len(Format) = EE_TYPE + 2 + Len(ConfigDat)
  BY <1>1, <1>5, <1>6, <1>8
<1>12. \A k \in 1..(EE_TYPE + 1) : Format[k] = <<k - 1, 0>>
  BY <1>2, <1>5, <1>8, <1>10
<1>13. \A k \in 1..Len(ConfigDat) : EE_TYPE + 1 + k \in 1..Len(both)
  BY <1>1, <1>5, <1>6
<1>14. \A k \in DOMAIN ConfigDat : Format[EE_TYPE + 1 + k] = ConfigDat[k]
  BY <1>5, <1>6, <1>8, <1>13
<1>15. Format[Len(Format)] = flag[1]
  BY <1>8, <1>9
<1> QED BY <1>3, <1>6, <1>8, <1>11, <1>12, <1>14, <1>15

(* AT24CXX_WriteOneByte makes the first write and leaves the others.       *)
LEMMA RestOfWrites ==
  ASSUME todo \in Seq(Writes), todo # <<>>
  PROVE  /\ todo[1] \in Writes /\ todo[1][1] \in EEPROM /\ todo[1][2] \in Byte
         /\ 1 \in DOMAIN todo /\ DOMAIN todo = 1..Len(todo)
         /\ Tail(todo) \in Seq(Writes)
         /\ Len(Tail(todo)) = Len(todo) - 1 /\ Len(todo) \in Nat \ {0}
         /\ DOMAIN Tail(todo) = 1..(Len(todo) - 1)
         /\ \A k \in DOMAIN Tail(todo) : k + 1 \in DOMAIN todo /\ Tail(todo)[k] = todo[k + 1]
<1>1. Len(todo) \in Nat \ {0} /\ DOMAIN todo = 1..Len(todo)
  OBVIOUS
<1>2. todo[1] \in Writes
  BY <1>1
<1>3. /\ Tail(todo) \in Seq(Writes) /\ Len(Tail(todo)) = Len(todo) - 1
      /\ DOMAIN Tail(todo) = 1..(Len(todo) - 1)
      /\ \A k \in 1..(Len(todo) - 1) : Tail(todo)[k] = todo[k + 1]
  BY <1>1
<1> QED BY <1>1, <1>2, <1>3 DEF Writes

-----------------------------------------------------------------------------
(* The sizes, and what is known of the first slot.                         *)
LEMMA Sizes ==
  /\ ADD_SIZE \in 1..255 /\ ADD_SIZE \in Nat \ {0} /\ WINDOW \in Nat \ {0}
  /\ MaxLosses \in Nat
  /\ 1 \in Slots /\ 1 \in 1..(ADD_SIZE + 1) /\ 0 \in 0..ADD_SIZE
  /\ {COUNT_ADD, FLAG_ADD} \subseteq EEPROM
  /\ Zeros \in [1..4 -> Byte] /\ 0 \in Byte /\ 255 \in Byte
<1>1. ADD_SIZE \in 1..255 /\ WINDOW \in Nat \ {0} /\ MaxLosses \in Nat
      /\ {COUNT_ADD, FLAG_ADD} \subseteq EEPROM
  BY TableShape
<1>2. Zeros \in [1..4 -> Byte] /\ 0 \in Byte /\ 255 \in Byte
  BY DEF Zeros, Byte
<1> QED BY <1>1, <1>2 DEF Slots

(* Before the first power-up nothing is addressed.                         *)
LEMMA InitIInv == Init => IInv
<1> SUFFICES ASSUME Init PROVE IInv
  OBVIOUS
<1> USE DEF Init
<1>1. TypeOK
  <2>1. ee \in [EEPROM -> Byte] /\ ram \in [Config -> Byte] /\ todo \in Seq(EEPROM \X Byte)
    BY Sizes
  <2>2. row \in [Slots -> {Unused} \cup [1..4 -> Byte]]
    OBVIOUS
  <2>3. logic \in [Readers -> 0..ADD_SIZE] /\ ucCount \in 0..WINDOW /\ losses \in 0..MaxLosses
    BY Sizes
  <2> QED BY <2>1, <2>2, <2>3, Sizes DEF TypeOK
<1>2. RowInv
  BY DEF RowInv, Fresh, RowsStand, InOrder, Assigned, NoneForgotten, PolledUnique,
         Opened, Scan, Unused
<1> QED BY <1>1, <1>2 DEF IInv

(* The next slot is a slot.                                                *)
LEMMA NextSlotTypes ==
  ASSUME TypeOK, NextSlot
  PROVE  /\ pc' \in {"scan", "window"} /\ slot' \in Slots /\ tries' = 0
         /\ ucCount' \in 0..WINDOW
         /\ pc' = "scan" => slot' = slot + 1
         /\ pc' = "window" => slot = ADD_SIZE /\ slot' = 1
PROOF BY Sizes DEF TypeOK, NextSlot, Slots

(* The logical addresses given out are slots.                              *)
LEMMA AddressTypes ==
  ASSUME NEW i \in Slots, NEW phys, NEW answered,
         logic \in [Readers -> 0..ADD_SIZE], Can_WriteLogitADD(i, phys, answered)
  PROVE  /\ logic' \in [Readers -> 0..ADD_SIZE]
         /\ \A r \in Readers : \/ logic'[r] = logic[r]
                               \/ logic'[r] = i /\ SN[r] = phys
<1>1. PICK heard \in SUBSET {r \in online : SN[r] = phys} :
        logic' = [r \in Readers |-> IF r \in heard THEN i ELSE logic[r]]
  BY DEF Can_WriteLogitADD
<1>2. i \in 0..ADD_SIZE
  BY Sizes DEF Slots
<1> QED BY <1>1, <1>2

LEMMA PhysicalTypes ==
  ASSUME TypeOK, NEW i \in Slots
  PROVE  PhysicalAt(i) \in [1..4 -> Byte]
PROOF BY CellsOf DEF PhysicalAt, TypeOK

(* The loop of Delete_LogicADD goes on behind the slot it clears.          *)
LEMMA HoldingIsSlot ==
  ASSUME TypeOK, Holding # {}
  PROVE  /\ Least(Holding) \in Slots /\ Least(Holding) \in from..ADD_SIZE
         /\ ee[SlotBase(Least(Holding))] = slot
         /\ \A j \in from..ADD_SIZE :
              ee[SlotBase(j)] = slot => Least(Holding) <= j
<1>1. from \in 1..(ADD_SIZE + 1) /\ ADD_SIZE \in Nat
  BY Sizes DEF TypeOK
<1>2. Holding \subseteq Nat /\ Holding \subseteq from..ADD_SIZE /\ from..ADD_SIZE \subseteq Slots
  BY <1>1 DEF Holding, Slots
<1>3. Least(Holding) \in Holding /\ \A i \in Holding : Least(Holding) <= i
  BY <1>2, LeastIsFirst
<1> QED BY <1>2, <1>3 DEF Holding

(* The slot given to a reader that announces itself.                       *)
LEMMA KnownIsSlot ==
  ASSUME NEW phys, Known(phys) # {}
  PROVE  /\ Least(Known(phys)) \in Slots
         /\ Used(Least(Known(phys))) /\ PhysicalAt(Least(Known(phys))) = phys
<1>1. Known(phys) \subseteq Nat
  BY DEF Known, Slots
<1> QED BY <1>1, LeastIsFirst DEF Known

LEMMA FreeIsSlot ==
  ASSUME Free # {}
  PROVE  Least(Free) \in Slots /\ ~Used(Least(Free))
<1>1. Free \subseteq Nat
  BY DEF Free, Slots
<1> QED BY <1>1, LeastIsFirst DEF Free

-----------------------------------------------------------------------------
(* Every step keeps the types.                                             *)
LEMMA TypesKept ==
  ASSUME TypeOK, Fresh, [Next]_vars
  PROVE  TypeOK'
<1> USE Sizes DEF TypeOK, disk, boot, bus
<1>1. CASE PowerOn
  <2>1. online' \subseteq Readers
    BY <1>1, TableShape DEF PowerOn
  <2> QED BY <1>1, <2>1 DEF PowerOn
<1>2. CASE PowerLoss
  <2> USE <1>2 DEF PowerLoss
  <2>3. ee' \in [EEPROM -> Byte] /\ todo' \in Seq(EEPROM \X Byte)
    OBVIOUS
  <2>4. ram' \in [Config -> Byte] /\ formatted' \in BOOLEAN
    OBVIOUS
  <2>5. row' \in [Slots -> {Unused} \cup [1..4 -> Byte]]
    OBVIOUS
  <2>6. slot' \in Slots /\ from' \in 1..(ADD_SIZE + 1) /\ tries' \in {0, 1} /\ ucCount' \in 0..WINDOW
    OBVIOUS
  <2>7. sn' \in [1..4 -> Byte] /\ logic' \in [Readers -> 0..ADD_SIZE]
    OBVIOUS
  <2>8. pc' = "off" /\ online' \subseteq Readers /\ losses' \in 0..MaxLosses
    OBVIOUS
  <2> QED BY <2>3, <2>4, <2>5, <2>6, <2>7, <2>8
<1>3. CASE WriteOneByte
  <2>1. todo' \in Seq(EEPROM \X Byte) /\ todo[1][1] \in EEPROM /\ todo[1][2] \in Byte
    BY <1>3, RestOfWrites DEF WriteOneByte, Writes
  <2> QED BY <1>3, <2>1 DEF WriteOneByte
<1>4. CASE Check
  <2> USE <1>4 DEF Check, At
  <2>1. \A a \in Config : a \in EEPROM
    <3>1. ConfigDat \in Seq(EEPROM \X Byte)
      BY TableShape
    <3>2. \A k \in DOMAIN ConfigDat : ConfigDat[k] \in EEPROM \X Byte
      BY <3>1
    <3> HIDE <1>4 DEF Check, At, TypeOK
    <3> QED BY <3>2 DEF Config
  <2>2. ram' \in [Config -> Byte]
    BY <2>1
  <2>3. todo' \in Seq(EEPROM \X Byte)
    <3>1. todo' = todo \/ todo' = Format
      OBVIOUS
    <3> HIDE <1>4 DEF Check, At
    <3> QED BY <3>1, FormatWrites DEF Writes
  <2>4. pc' \in {"scan", "verify"} /\ formatted' \in BOOLEAN
    OBVIOUS
  <2>5. UNCHANGED <<ee, row, slot, from, tries, ucCount, sn, logic, online, losses>>
    OBVIOUS
  <2> HIDE <1>4 DEF Check, At
  <2> QED BY <2>2, <2>3, <2>4, <2>5
<1>5. CASE Verify
  BY <1>5 DEF Verify, At
<1>6. CASE ScanUnused
  BY <1>6, NextSlotTypes DEF ScanUnused, At
<1>7. CASE ScanZero
  BY <1>7 DEF ScanZero, CallDelete, At
<1>8. CASE ScanAssigned
  <2> USE <1>8 DEF ScanAssigned, At
  <2>1. logic' \in [Readers -> 0..ADD_SIZE]
    BY AddressTypes
  <2>2. row' \in [Slots -> {Unused} \cup [1..4 -> Byte]]
    BY PhysicalTypes
  <2>3. /\ pc' \in {"scan", "window"} /\ slot' \in Slots /\ tries' \in {0, 1}
        /\ ucCount' \in 0..WINDOW
    BY NextSlotTypes
  <2>4. UNCHANGED <<ee, todo, ram, formatted, from, sn, online, losses>>
    OBVIOUS
  <2> HIDE <1>8 DEF ScanAssigned, At
  <2> QED BY <2>1, <2>2, <2>3, <2>4
<1>9. CASE ScanFailed
  <2> USE <1>9 DEF ScanFailed, At
  <2>1. logic' \in [Readers -> 0..ADD_SIZE]
    BY AddressTypes
  <2>2. UNCHANGED <<ee, todo, ram, formatted, row, slot, from, ucCount, sn, online, losses>>
    BY DEF CallDelete
  <2>3. pc' \in {"scan", "delete"} /\ tries' \in {0, 1}
    BY DEF CallDelete
  <2> HIDE <1>9 DEF ScanFailed, At
  <2> QED BY <2>1, <2>2, <2>3
<1>10. CASE DeleteSlot
  <2> USE <1>10 DEF DeleteSlot, At
  <2>1. Least(Holding) \in Slots /\ from' \in 1..(ADD_SIZE + 1)
    BY HoldingIsSlot DEF Slots
  <2>2. todo' \in Seq(EEPROM \X Byte)
    BY <2>1, ClearSlotWrites DEF Writes
  <2> QED BY <2>1, <2>2
<1>11. CASE DeleteCount
  <2> USE <1>11 DEF DeleteCount, At
  <2>1. todo' \in Seq(EEPROM \X Byte)
    <3>1. ee[COUNT_ADD] \in 0..255
      BY DEF Byte
    <3>2. CountDown \in Byte
      <4> HIDE <1>11 DEF DeleteCount, TypeOK
      <4> QED BY <3>1 DEF CountDown, Byte
    <3>3. <<COUNT_ADD, CountDown>> \in EEPROM \X Byte
      BY <3>2
    <3>4. todo' = << <<COUNT_ADD, CountDown>> >>
      OBVIOUS
    <3> HIDE <1>11 DEF DeleteCount, TypeOK
    <3> QED BY <3>3, <3>4
  <2>2. /\ pc' \in {"scan", "window"} /\ slot' \in Slots /\ tries' \in {0, 1}
        /\ ucCount' \in 0..WINDOW
    BY NextSlotTypes
  <2>3. row' \in [Slots -> {Unused} \cup [1..4 -> Byte]]
    OBVIOUS
  <2>4. from' \in 1..(ADD_SIZE + 1)
    <3>1. from' = 1
      OBVIOUS
    <3> HIDE <1>11 DEF DeleteCount, TypeOK
    <3> QED BY <3>1
  <2>5. UNCHANGED <<ee, ram, formatted, sn, logic, online, losses>>
    OBVIOUS
  <2> HIDE <1>11 DEF DeleteCount, At
  <2> QED BY <2>1, <2>2, <2>3, <2>4, <2>5
<1>12. CASE WindowNothing
  BY <1>12 DEF WindowNothing, At
<1>13. ASSUME NEW r \in Readers, WindowAnnounced(r) PROVE TypeOK'
  <2> USE <1>13 DEF WindowAnnounced, At
  <2>1. sn' \in [1..4 -> Byte] /\ SN[r] \in [1..4 -> Byte]
    BY TableShape
  <2>2. slot' \in Slots
    BY KnownIsSlot, FreeIsSlot
  <2>3. todo' \in Seq(EEPROM \X Byte)
    <3>1. todo' = todo \/ (Free # {} /\ todo' = RegisterWrites(Least(Free), SN[r]))
      OBVIOUS
    <3>2. todo \in Seq(Writes) /\ ee \in [EEPROM -> Byte]
      BY DEF Writes
    <3> HIDE <1>13 DEF WindowAnnounced, TypeOK
    <3>3. todo' \in Seq(Writes)
      BY <2>1, <3>1, <3>2, FreeIsSlot, RegisterSlotWrites
    <3> QED BY <3>3 DEF Writes
  <2>4. pc' \in {"window", "assign"} /\ ucCount' \in 0..WINDOW
    OBVIOUS
  <2>5. UNCHANGED <<ee, ram, formatted, row, from, tries, logic, online, losses>>
    OBVIOUS
  <2> HIDE <1>13 DEF WindowAnnounced, At
  <2> QED BY <2>1, <2>2, <2>3, <2>4, <2>5
<1>14. CASE Assign
  <2> USE <1>14 DEF Assign, At
  <2>1. logic' \in [Readers -> 0..ADD_SIZE]
    BY AddressTypes
  <2>2. ucCount' \in 0..WINDOW
    BY DEF Fresh
  <2>3. slot' \in Slots
    <3>1. slot' = 1
      OBVIOUS
    <3> HIDE <1>14 DEF Assign, TypeOK
    <3> QED BY <3>1
  <2> QED BY <2>1, <2>2, <2>3
<1>15. CASE WindowEnds
  BY <1>15 DEF WindowEnds, At
<1>16. CASE UNCHANGED vars
  BY <1>16 DEF vars
<1> QED BY <1>1, <1>2, <1>3, <1>4, <1>5, <1>6, <1>7, <1>8, <1>9, <1>10, <1>11, <1>12,
           <1>13, <1>14, <1>15, <1>16 DEF Next, Boot

-----------------------------------------------------------------------------
(* Without power, and until the flag has been seen, there is no row and no *)
(* logical address.                                                        *)
LEMMA ColdKeeps ==
  ASSUME IInv, PowerOn \/ PowerLoss \/ Check \/ Verify
  PROVE  RowInv'
<1> USE DEF IInv, RowInv
<1>1. /\ pc' \in {"off", "check", "verify", "scan"}
      /\ slot' = 1 /\ from' = 1 /\ tries' = 0
      /\ \A i \in Slots : row'[i] = Unused
      /\ \A r \in Readers : logic'[r] = 0
  <2>1. CASE PowerOn
    BY <2>1 DEF PowerOn, Fresh, disk, boot
  <2>2. CASE PowerLoss
    BY <2>2 DEF PowerLoss
  <2>3. CASE Check
    BY <2>3 DEF Check, At, Fresh, bus
  <2>4. CASE Verify
    BY <2>4 DEF Verify, At, Fresh, bus
  <2> QED BY <2>1, <2>2, <2>3, <2>4
<1>2. pc' = "scan" => todo' = <<>>
  BY <1>1 DEF PowerOn, PowerLoss, Check, Verify, At, disk
<1>3. Fresh'
  BY <1>1 DEF Fresh
<1>4. RowsStand' /\ Assigned'
  BY <1>1 DEF RowsStand, Assigned
<1>5. InOrder'
  BY <1>1, <1>2 DEF InOrder, Scan, Slots
<1>6. NoneForgotten'
  <2>1. ~Opened' /\ pc' # "delete"
    BY <1>1 DEF Opened
  <2>2. CASE pc' \in Scan
    <3>1. todo' = <<>> /\ Scanned' = 1..(1 - 1)
      BY <1>1, <1>2, <2>1, <2>2 DEF Scan, Scanned
    <3> QED BY <3>1, <2>1 DEF NoneForgotten
  <2> QED BY <2>1, <2>2 DEF NoneForgotten
<1>7. PolledUnique'
  BY <1>1 DEF PolledUnique
<1> QED BY <1>3, <1>4, <1>5, <1>6, <1>7

(* A byte is written: it is not a byte of a row, or it frees its slot.     *)
LEMMA WriteKeeps ==
  ASSUME IInv, WriteOneByte
  PROVE  RowInv'
<1> USE DEF IInv, RowInv
<1>1. /\ todo # <<>> /\ ee' = [ee EXCEPT ![todo[1][1]] = todo[1][2]]
      /\ todo' = Tail(todo)
      /\ UNCHANGED <<pc, row, slot, from, tries, ucCount, sn, logic>>
  BY DEF WriteOneByte, boot, bus
<1>2. todo \in Seq(Writes) /\ ee \in [EEPROM -> Byte]
  BY DEF TypeOK, Writes
<1>3. Fresh' /\ Assigned' /\ PolledUnique'
  BY <1>1 DEF Fresh, Assigned, PolledUnique
<1>4. InOrder'
  <2>1. ~(pc = "scan" /\ tries = 1)
    BY <1>1 DEF InOrder, Scan
  <2>2. UNCHANGED <<pc, row, slot, tries, logic>>
    BY <1>1
  <2> QED BY <2>1, <2>2 DEF InOrder
<1>5. RowsStand'
  <2> SUFFICES ASSUME NEW i \in Slots, row[i] # Unused
               PROVE  /\ Used(i)' /\ PhysicalAt(i)' = row[i]
                      /\ \A k \in DOMAIN todo' : todo'[k][1] \notin Cells(i)
    BY <1>1 DEF RowsStand
  <2>1. /\ Used(i) /\ PhysicalAt(i) = row[i]
        /\ \A k \in DOMAIN todo : todo[k][1] \notin Cells(i)
    BY DEF RowsStand
  <2>2. \A a \in Cells(i) : ee'[a] = ee[a]
    BY <1>1, <1>2, <2>1, RestOfWrites, CellsOf
  <2>3. Used(i)' /\ PhysicalAt(i)' = PhysicalAt(i)
    BY <2>1, <2>2, CellsOf DEF Used, PhysicalAt
  <2>4. \A k \in DOMAIN todo' : todo'[k][1] \notin Cells(i)
    BY <1>1, <1>2, <2>1, RestOfWrites
  <2> QED BY <2>1, <2>3, <2>4
<1>6. NoneForgotten'
  <2> SUFFICES ASSUME pc \in Scan \/ Opened
               PROVE  NoneForgotten'
    BY <1>1 DEF NoneForgotten, Opened
  <2>1. \A k \in DOMAIN todo, i \in Slots :
          todo[k][1] = SlotBase(i) => todo[k][2] = 0
    BY DEF NoneForgotten
  <2>2. ASSUME NEW k \in DOMAIN todo', NEW i \in Slots, todo'[k][1] = SlotBase(i)
        PROVE  todo'[k][2] = 0
    BY <1>1, <1>2, <2>1, <2>2, RestOfWrites
  <2>3. ASSUME NEW i \in Slots, Vacated(i) PROVE Vacated(i)'
    <3>1. SlotBase(i) \in EEPROM /\ i # 0
      BY CellsOf DEF Slots
    <3>2. CASE todo[1][1] = SlotBase(i)
      <4>1. ee'[SlotBase(i)] = 0
        BY <1>1, <1>2, <2>1, <3>1, <3>2, RestOfWrites
      <4> QED BY <3>1, <4>1 DEF Vacated, Used
    <3>3. CASE todo[1][1] # SlotBase(i)
      <4>1. Used(i)' <=> Used(i)
        BY <1>1, <1>2, <3>1, <3>3, RestOfWrites DEF Used
      <4>2. ASSUME NEW k \in DOMAIN todo, todo[k] = <<SlotBase(i), 0>>
            PROVE  \E j \in DOMAIN todo' : todo'[j] = <<SlotBase(i), 0>>
        <5>1. k # 1
          BY <3>3, <4>2
        <5>2. k - 1 \in DOMAIN todo' /\ todo'[k - 1] = todo[k]
          BY <1>1, <1>2, <5>1, RestOfWrites
        <5> QED BY <4>2, <5>2
      <4> QED BY <2>3, <4>1, <4>2 DEF Vacated
    <3> QED BY <3>2, <3>3
  <2>4. Scanned' = Scanned /\ Scanned \subseteq Slots
    BY <1>1, Sizes DEF Scanned, TypeOK, Slots
  <2>5. slot \in Slots
    BY DEF TypeOK
  <2>6. \A i \in Scanned' : row'[i] = Unused => Vacated(i)'
    BY <1>1, <2>3, <2>4 DEF NoneForgotten
  <2>7. pc' = "delete" /\ from' > slot' => Vacated(slot)'
    BY <1>1, <2>3, <2>5 DEF NoneForgotten
  <2>8. slot' = slot
    BY <1>1
  <2> QED BY <2>2, <2>6, <2>7, <2>8 DEF NoneForgotten
<1> QED BY <1>3, <1>4, <1>5, <1>6

-----------------------------------------------------------------------------
(* The slot has been dealt with: it has a row, or it is free, or about to  *)
(* be.                                                                     *)
LEMMA NextSlotKeeps ==
  ASSUME IInv, pc \in Scan, NextSlot, from' = 1,
         \A i \in (slot + 1)..ADD_SIZE : row'[i] = Unused,
         \A r \in Readers : logic'[r] <= slot /\ logic'[r] \in 0..ADD_SIZE,
         \A k \in DOMAIN todo', i \in Slots :
           todo'[k][1] = SlotBase(i) => todo'[k][2] = 0,
         \A i \in 1..slot : row'[i] = Unused => Vacated(i)'
  PROVE  Fresh' /\ InOrder' /\ Assigned' /\ NoneForgotten'
<1> slot \in Nat /\ slot \in Slots
  BY DEF IInv, TypeOK, Slots
<1>1. tries' = 0 /\ \/ slot < ADD_SIZE /\ slot' = slot + 1 /\ pc' = "scan"
                    \/ slot = ADD_SIZE /\ slot' = 1 /\ pc' = "window"
  BY Sizes DEF NextSlot, Slots
<1>2. Fresh'
  BY <1>1 DEF Fresh
<1>3. Assigned'
  BY <1>1 DEF Assigned
<1>4. InOrder'
  <2>1. CASE slot' = slot + 1 /\ pc' = "scan"
    <3>1. \A r \in Readers : logic'[r] < slot' /\ logic'[r] <= slot'
      BY <2>1, Sizes
    <3> QED BY <1>1, <2>1, <3>1 DEF InOrder
  <2>2. CASE pc' = "window"
    BY <2>2 DEF InOrder, Scan
  <2> QED BY <1>1, <2>1, <2>2
<1>5. NoneForgotten'
  <2>1. Scanned' = 1..slot
    BY <1>1, Sizes DEF Scanned, Slots
  <2> QED BY <1>1, <2>1 DEF NoneForgotten
<1> QED BY <1>2, <1>3, <1>4, <1>5

(* The scan: a row is set under the number that is in the table, for the   *)
(* readers that have just been given its address.                          *)
LEMMA ScanKeeps ==
  ASSUME IInv, ScanUnused \/ ScanZero \/ ScanAssigned \/ ScanFailed
  PROVE  RowInv'
<1> USE DEF IInv, RowInv
<1>1. /\ pc = "scan" /\ todo = <<>> /\ slot \in Slots /\ from = 1
      /\ UNCHANGED <<ee, todo, from, sn>>
  BY DEF ScanUnused, ScanZero, ScanAssigned, ScanFailed, At, CallDelete, disk,
         TypeOK, Fresh
<1>2. /\ \A i \in slot..ADD_SIZE : row[i] = Unused
      /\ \A r \in Readers : logic[r] <= slot /\ logic[r] \in 0..ADD_SIZE
      /\ \A r \in Readers : logic[r] = slot => SN[r] = PhysicalAt(slot)
  <2>1. \A r \in Readers : logic[r] \in 0..ADD_SIZE
    BY DEF TypeOK
  <2>2. tries = 0 \/ tries = 1
    BY DEF TypeOK
  <2>3. slot \in Nat
    BY <1>1 DEF Slots
  <2>4. CASE tries = 0
    BY <1>1, <2>1, <2>3, <2>4, Sizes DEF InOrder, Scan
  <2>5. CASE tries = 1
    BY <1>1, <2>1, <2>5 DEF InOrder, Scan
  <2> QED BY <2>2, <2>4, <2>5
<1>3. \A i \in 1..(slot - 1) : row[i] = Unused => ~Used(i)
  <2>1. Scanned = 1..(slot - 1)
    BY <1>1 DEF Scanned
  <2> QED BY <1>1, <2>1 DEF NoneForgotten, Vacated, Scan
<1>4. \A i \in Slots : Used(i)' = Used(i) /\ PhysicalAt(i)' = PhysicalAt(i)
  BY <1>1 DEF Used, PhysicalAt
<1>5. slot \in Nat /\ \A i \in (slot + 1)..ADD_SIZE : i \in slot..ADD_SIZE
  BY <1>1, Sizes DEF Slots
<1>6. CASE ScanUnused
  <2>1. NextSlot /\ ~Used(slot) /\ UNCHANGED <<row, logic>>
    BY <1>6 DEF ScanUnused
  <2>2. \A i \in 1..slot : row'[i] = Unused => Vacated(i)'
    <3>1. ASSUME NEW i \in 1..slot, row'[i] = Unused PROVE ~Used(i)
      <4>1. i = slot \/ i \in 1..(slot - 1)
        BY <1>5
      <4> QED BY <1>3, <2>1, <3>1, <4>1
    <3>2. \A i \in 1..slot : i \in Slots
      BY <1>1, <1>5, Sizes DEF Slots
    <3> QED BY <1>4, <3>1, <3>2 DEF Vacated
  <2>3. Fresh' /\ InOrder' /\ Assigned' /\ NoneForgotten'
    BY <1>1, <1>2, <1>5, <2>1, <2>2, NextSlotKeeps DEF Scan
  <2>4. RowsStand' /\ PolledUnique'
    BY <1>1, <1>4, <2>1 DEF RowsStand, PolledUnique
  <2> QED BY <2>3, <2>4
<1>7. CASE ScanAssigned
  <2> DEFINE phys == PhysicalAt(slot)
  <2>1. /\ NextSlot /\ row' = [row EXCEPT ![slot] = phys] /\ Used(slot)
        /\ Can_WriteLogitADD(slot, phys, TRUE)
    BY <1>7 DEF ScanAssigned
  <2>2. phys # Unused
    BY <1>1, PhysicalTypes DEF Unused
  <2>3. \A i \in Slots : i \in DOMAIN row
    BY DEF TypeOK
  <2>4. \A i \in Slots : row'[i] = IF i = slot THEN phys ELSE row[i]
    BY <2>1, <2>3
  <2>5. \A r \in Readers : \/ logic'[r] = logic[r]
                           \/ logic'[r] = slot /\ SN[r] = phys
    BY <1>1, <2>1, AddressTypes DEF TypeOK
  <2>6. \A i \in 1..slot : row'[i] = Unused => Vacated(i)'
    <3>1. ASSUME NEW i \in 1..slot, row'[i] = Unused PROVE ~Used(i)
      <4>1. i \in Slots /\ (i = slot \/ i \in 1..(slot - 1))
        BY <1>1, <1>5, Sizes DEF Slots
      <4> QED BY <1>3, <2>2, <2>4, <3>1, <4>1
    <3>2. \A i \in 1..slot : i \in Slots
      BY <1>1, <1>5, Sizes DEF Slots
    <3> QED BY <1>4, <3>1, <3>2 DEF Vacated
  <2>7. \A i \in (slot + 1)..ADD_SIZE : row'[i] = Unused
    <3>1. \A i \in (slot + 1)..ADD_SIZE : i \in Slots /\ i # slot
      BY <1>1, <1>5, Sizes DEF Slots
    <3> QED BY <1>2, <1>5, <2>4, <3>1
  <2>8. \A r \in Readers : logic'[r] <= slot /\ logic'[r] \in 0..ADD_SIZE
    BY <1>1, <1>2, <1>5, <2>5, Sizes DEF Slots
  <2>9. Fresh' /\ InOrder' /\ Assigned' /\ NoneForgotten'
    BY <1>1, <2>1, <2>6, <2>7, <2>8, NextSlotKeeps DEF Scan
  <2>10. RowsStand'
    BY <1>1, <1>4, <2>1, <2>4 DEF RowsStand
  <2>11. PolledUnique'
    BY <1>1, <1>2, <2>4, <2>5 DEF PolledUnique
  <2> QED BY <2>9, <2>10, <2>11
<1>8. CASE ScanZero \/ ScanFailed
  <2>1. /\ UNCHANGED <<row, slot>>
        /\ \/ pc' = "scan" /\ tries' = 1
           \/ pc' = "delete"
    BY <1>8 DEF ScanZero, ScanFailed, CallDelete, At
  <2>2. \A r \in Readers : \/ logic'[r] = logic[r]
                           \/ logic'[r] = slot /\ SN[r] = PhysicalAt(slot)
    BY <1>1, <1>8, AddressTypes DEF ScanZero, ScanFailed, TypeOK
  <2>3. Fresh' /\ Assigned'
    BY <1>1, <2>1 DEF Fresh, Assigned
  <2>4. RowsStand'
    BY <1>1, <1>4, <2>1 DEF RowsStand
  <2>5. \A r \in Readers :
          logic'[r] <= slot /\ (logic'[r] = slot => SN[r] = PhysicalAt(slot))
    BY <1>2, <1>5, <2>2
  <2>6. InOrder'
    BY <1>1, <1>2, <1>4, <2>1, <2>5 DEF InOrder
  <2>7. PolledUnique'
    <3> SUFFICES ASSUME NEW i \in Slots, NEW r \in Readers,
                        row[i] # Unused, logic'[r] = i
                 PROVE  row[i] = SN[r]
      BY <2>1 DEF PolledUnique
    <3>1. i # slot
      BY <1>2, <1>5, Sizes DEF Slots
    <3> QED BY <2>2, <3>1 DEF PolledUnique
  <2>8. NoneForgotten'
    <3>1. Scanned' = 1..(slot - 1) /\ pc' # "window" /\ from' = 1 /\ todo' = <<>> /\ slot' = slot
      BY <1>1, <2>1 DEF Scanned
    <3>2. \A i \in 1..(slot - 1) : i \in Slots
      BY <1>1, <1>5, Sizes DEF Slots
    <3>3. \A i \in 1..(slot - 1) : row'[i] = Unused => Vacated(i)'
      BY <1>3, <1>4, <2>1, <3>2 DEF Vacated
    <3>4. ~(from' > slot')
      BY <1>1, <1>5, <3>1 DEF Slots
    <3> QED BY <3>1, <3>3, <3>4 DEF NoneForgotten
  <2> QED BY <2>3, <2>4, <2>6, <2>7, <2>8
<1> QED BY <1>6, <1>7, <1>8

(* Delete_LogicADD: the slots it clears are those that hold the number,    *)
(* and no row has one of them.                                             *)
LEMMA DeleteKeeps ==
  ASSUME IInv, DeleteSlot \/ DeleteCount
  PROVE  RowInv'
<1> USE DEF IInv, RowInv
<1>1. /\ pc = "delete" /\ todo = <<>> /\ slot \in Slots /\ slot \in Nat
      /\ from \in Nat /\ UNCHANGED <<ee, sn, logic>>
  BY DEF DeleteSlot, DeleteCount, At, TypeOK, Slots
<1>2. /\ \A i \in slot..ADD_SIZE : row[i] = Unused
      /\ \A r \in Readers : logic[r] <= slot /\ logic[r] \in 0..ADD_SIZE
  BY <1>1 DEF InOrder, Scan, TypeOK
<1>3. /\ \A i \in 1..(slot - 1) : row[i] = Unused => ~Used(i)
      /\ from > slot => ~Used(slot)
  <2>1. Scanned = 1..(slot - 1)
    BY <1>1 DEF Scanned
  <2> QED BY <1>1, <2>1 DEF NoneForgotten, Vacated, Scan
<1>4. \A i \in Slots : Used(i)' = Used(i) /\ PhysicalAt(i)' = PhysicalAt(i)
  BY <1>1 DEF Used, PhysicalAt
<1>5. \A i \in 1..slot : i \in Slots /\ (i = slot \/ i \in 1..(slot - 1))
  BY <1>1, Sizes DEF Slots
<1>6. CASE DeleteSlot
  <2> DEFINE j == Least(Holding)
  <2>1. /\ Holding # {} /\ todo' = ClearSlot(j) /\ from' = j + 1
        /\ UNCHANGED <<pc, row, slot, tries, ucCount>>
    BY <1>6 DEF DeleteSlot
  <2>2. /\ j \in Slots /\ j \in from..ADD_SIZE /\ ee[SlotBase(j)] = slot
        /\ \A i \in from..ADD_SIZE : ee[SlotBase(i)] = slot => j <= i
    BY <2>1, HoldingIsSlot
  <2>3. /\ DOMAIN todo' = 1..5 /\ todo'[5] = <<SlotBase(j), 0>>
        /\ \A k \in 1..5 : todo'[k][1] \in Cells(j) /\ todo'[k][2] = 0
    BY <2>1, <2>2, ClearSlotWrites
  <2> HIDE DEF j
  <2>4. Fresh' /\ Assigned' /\ PolledUnique'
    BY <1>1, <2>1 DEF Fresh, Assigned, PolledUnique
  <2>5. InOrder'
    BY <1>1, <1>2, <2>1 DEF InOrder
  <2>6. RowsStand'
    <3> SUFFICES ASSUME NEW i \in Slots, row[i] # Unused
                 PROVE  /\ Used(i) /\ PhysicalAt(i) = row[i]
                        /\ \A k \in 1..5 : todo'[k][1] \notin Cells(i)
      BY <1>4, <2>1, <2>3 DEF RowsStand
    <3>1. Used(i) /\ PhysicalAt(i) = row[i]
      BY DEF RowsStand
    <3>2. i # slot
      BY <1>2, Sizes DEF Slots
    <3>3. i # j
      BY <2>2, <3>1, <3>2 DEF Used
    <3> QED BY <2>2, <2>3, <3>1, <3>3, CellsApart
  <2>7. NoneForgotten'
    <3>1. Scanned' = 1..(slot - 1) /\ pc' = "delete" /\ slot' = slot
      BY <1>1, <2>1 DEF Scanned
    <3>2. \A i \in 1..(slot - 1) : row'[i] = Unused => Vacated(i)'
      <4>1. \A i \in 1..(slot - 1) : i \in Slots
        BY <1>1, Sizes DEF Slots
      <4> QED BY <1>3, <1>4, <2>1, <4>1 DEF Vacated
    <3>3. ASSUME j + 1 > slot PROVE Vacated(slot)'
      <4>1. CASE j = slot
        <5>1. 5 \in DOMAIN todo' /\ todo'[5] = <<SlotBase(slot), 0>>
          BY <2>3, <4>1
        <5> QED BY <3>1, <5>1 DEF Vacated
      <4>2. CASE j # slot
        <5>1. j > slot
          BY <1>1, <2>2, <3>3, <4>2 DEF Slots
        <5>2. ~Used(slot)
          <6>1. CASE from > slot
            BY <1>3, <6>1
          <6>2. CASE from <= slot
            <7>1. slot \in from..ADD_SIZE
              BY <1>1, <6>2, Sizes DEF Slots
            <7>2. ~(j <= slot)
              BY <1>1, <2>2, <5>1 DEF Slots
            <7> QED BY <2>2, <7>1, <7>2 DEF Used
          <6> QED BY <1>1, <6>1, <6>2
        <5> QED BY <1>1, <1>4, <3>1, <5>2 DEF Vacated
      <4> QED BY <4>1, <4>2
    <3> QED BY <2>1, <2>3, <3>1, <3>2, <3>3 DEF NoneForgotten
  <2> QED BY <2>4, <2>5, <2>6, <2>7
<1>7. CASE DeleteCount
  <2>1. /\ Holding = {} /\ row' = [row EXCEPT ![slot] = Unused] /\ NextSlot
        /\ todo' = << <<COUNT_ADD, CountDown>> >> /\ from' = 1
    BY <1>7 DEF DeleteCount
  <2>2. DOMAIN todo' = {1} /\ todo'[1][1] = COUNT_ADD
    BY <2>1
  <2>3. \A i \in Slots : COUNT_ADD \notin Cells(i) /\ COUNT_ADD # SlotBase(i)
    BY LayoutShape, CellsOf
  <2>4. \A i \in Slots : row'[i] = row[i]
    <3>1. slot \in slot..ADD_SIZE
      BY <1>1, Sizes DEF Slots
    <3> QED BY <1>1, <1>2, <2>1, <3>1 DEF TypeOK
  <2>5. ~Used(slot)
    <3>1. CASE from > slot
      BY <1>3, <3>1
    <3>2. CASE from <= slot
      <4>1. slot \in from..ADD_SIZE
        BY <1>1, <3>2, Sizes DEF Slots
      <4> QED BY <2>1, <4>1 DEF Used, Holding
    <3> QED BY <1>1, <3>1, <3>2
  <2>6. \A i \in 1..slot : row'[i] = Unused => Vacated(i)'
    BY <1>3, <1>4, <1>5, <2>4, <2>5 DEF Vacated
  <2>7. \A i \in (slot + 1)..ADD_SIZE : row'[i] = Unused
    <3>1. \A i \in (slot + 1)..ADD_SIZE : i \in Slots /\ i \in slot..ADD_SIZE
      BY <1>1, Sizes DEF Slots
    <3> QED BY <1>2, <2>4, <3>1
  <2>8. \A k \in DOMAIN todo', i \in Slots :
          todo'[k][1] = SlotBase(i) => todo'[k][2] = 0
    BY <2>2, <2>3
  <2>9. Fresh' /\ InOrder' /\ Assigned' /\ NoneForgotten'
    BY <1>1, <1>2, <2>1, <2>6, <2>7, <2>8, NextSlotKeeps DEF Scan
  <2>10. RowsStand'
    BY <1>4, <2>2, <2>3, <2>4 DEF RowsStand
  <2>11. PolledUnique'
    BY <1>1, <2>4 DEF PolledUnique
  <2> QED BY <2>9, <2>10, <2>11
<1> QED BY <1>6, <1>7

(* The registration window: a reader is given the slot under its number,   *)
(* or a free one, which has no row.                                        *)
LEMMA WindowKeeps ==
  ASSUME IInv,
         WindowNothing \/ (\E r \in Readers : WindowAnnounced(r)) \/ Assign
           \/ WindowEnds
  PROVE  RowInv'
<1> USE DEF IInv, RowInv
<1>1. /\ pc \in {"window", "assign"} /\ todo = <<>> /\ UNCHANGED <<ee, row, from, tries>>
      /\ pc' \in {"window", "assign", "run"}
  BY DEF WindowNothing, WindowAnnounced, Assign, WindowEnds, At, disk
<1>2. ~Opened' /\ pc' \notin Scan
  <2>1. pc' = "window" => ucCount' = ucCount - 1
    BY DEF WindowNothing, WindowAnnounced, Assign, WindowEnds
  <2>2. ucCount \in Nat /\ ucCount <= WINDOW
    BY Sizes DEF TypeOK
  <2> QED BY <1>1, <2>1, <2>2, Sizes DEF Opened, Scan
<1>3. NoneForgotten' /\ InOrder'
  BY <1>2 DEF NoneForgotten, InOrder
<1>4. \A i \in Slots : Used(i)' = Used(i) /\ PhysicalAt(i)' = PhysicalAt(i)
  BY <1>1 DEF Used, PhysicalAt
<1>5. CASE WindowNothing
  <2>1. pc' = "window" /\ UNCHANGED <<todo, logic, slot, sn>>
    BY <1>5 DEF WindowNothing, At, disk
  <2>2. Fresh' /\ Assigned'
    BY <2>1 DEF Fresh, Assigned
  <2>3. RowsStand' /\ PolledUnique'
    BY <1>1, <1>4, <2>1 DEF RowsStand, PolledUnique
  <2> QED BY <1>3, <2>2, <2>3
<1>6. ASSUME NEW r \in Readers, WindowAnnounced(r) PROVE RowInv'
  <2>1. sn' = SN[r] /\ logic' = logic /\ ucCount > 0
    BY <1>6 DEF WindowAnnounced
  <2>2. Fresh'
    <3>1. pc' = "window" \/ (pc' = "assign" /\ ucCount' = ucCount)
      BY <1>6 DEF WindowAnnounced, At
    <3> QED BY <2>1, <3>1 DEF Fresh
  <2>3. PolledUnique'
    BY <1>1, <2>1 DEF PolledUnique
  <2>4. CASE Known(SN[r]) # {} /\ slot' = Least(Known(SN[r])) /\ todo' = todo
    <3>1. slot' \in Slots /\ Used(slot') /\ PhysicalAt(slot') = SN[r]
      BY <2>4, KnownIsSlot
    <3>2. Assigned'
      BY <1>1, <2>1, <3>1 DEF Assigned, RowsStand
    <3>3. RowsStand'
      BY <1>1, <1>4, <2>4 DEF RowsStand
    <3> QED BY <1>3, <2>2, <2>3, <3>2, <3>3
  <2>5. CASE Free # {} /\ slot' = Least(Free) /\ todo' = RegisterWrites(Least(Free), SN[r])
    <3> DEFINE j == Least(Free)
    <3>1. j \in Slots /\ ~Used(j)
      BY <2>5, FreeIsSlot
    <3>2. row[j] = Unused
      BY <3>1 DEF RowsStand
    <3>3. Assigned'
      BY <1>1, <2>5, <3>2 DEF Assigned
    <3>4. SN[r] \in [1..4 -> Byte]
      BY TableShape
    <3>5. /\ DOMAIN todo' = 1..6
          /\ \A k \in 1..6 : todo'[k][1] \in Cells(j) \cup {COUNT_ADD}
      <4>1. todo' = RegisterWrites(j, SN[r])
        BY <2>5
      <4>2. /\ RegisterWrites(j, SN[r]) \in Seq(Writes) /\ Len(RegisterWrites(j, SN[r])) = 6
            /\ \A k \in 1..6 : RegisterWrites(j, SN[r])[k][1] \in Cells(j) \cup {COUNT_ADD}
        <5>1. ee \in [EEPROM -> Byte]
          BY DEF TypeOK
        <5> HIDE DEF j
        <5> QED BY <3>1, <3>4, <5>1, RegisterSlotWrites
      <4> HIDE DEF j
      <4> QED BY <4>1, <4>2
    <3> HIDE DEF j
    <3>6. ASSUME NEW i \in Slots, row[i] # Unused
          PROVE  \A k \in 1..6 : todo'[k][1] \notin Cells(i)
      <4>1. i # j
        BY <3>2, <3>6
      <4>2. COUNT_ADD \notin Cells(i)
        BY LayoutShape
      <4> QED BY <3>1, <3>5, <4>1, <4>2, CellsApart
    <3>7. RowsStand'
      BY <1>1, <1>4, <3>5, <3>6 DEF RowsStand
    <3> QED BY <1>3, <2>2, <2>3, <3>3, <3>7
  <2>6. CASE pc' = "window" /\ todo' = todo
    <3>1. Assigned'
      BY <2>6 DEF Assigned
    <3>2. RowsStand'
      BY <1>1, <1>4, <2>6 DEF RowsStand
    <3> QED BY <1>3, <2>2, <2>3, <3>1, <3>2
  <2> QED BY <1>6, <2>4, <2>5, <2>6 DEF WindowAnnounced, At
<1>7. CASE Assign
  <2>1. pc = "assign" /\ pc' = "window" /\ todo' = todo
    BY <1>7 DEF Assign, At, disk
  <2>2. slot \in Slots
    BY DEF TypeOK
  <2>3. \A r \in Readers : \/ logic'[r] = logic[r]
                           \/ logic'[r] = slot /\ SN[r] = sn
    BY <1>7, <2>2, AddressTypes DEF Assign, TypeOK
  <2>4. Fresh' /\ Assigned'
    BY <2>1 DEF Fresh, Assigned
  <2>5. RowsStand'
    BY <1>1, <1>4, <2>1 DEF RowsStand
  <2>6. PolledUnique'
    BY <1>1, <2>1, <2>2, <2>3 DEF PolledUnique, Assigned
  <2> QED BY <1>3, <2>4, <2>5, <2>6
<1>8. CASE WindowEnds
  <2>1. pc' = "run" /\ UNCHANGED <<todo, logic, slot, sn>>
    BY <1>8 DEF WindowEnds, At, disk
  <2>2. Fresh' /\ Assigned'
    BY <2>1 DEF Fresh, Assigned
  <2>3. RowsStand' /\ PolledUnique'
    BY <1>1, <1>4, <2>1 DEF RowsStand, PolledUnique
  <2> QED BY <1>3, <2>2, <2>3
<1> QED BY <1>5, <1>6, <1>7, <1>8

(* Every step keeps the invariant.                                         *)
LEMMA NextIInv == IInv /\ [Next]_vars => IInv'
<1> SUFFICES ASSUME IInv, [Next]_vars PROVE IInv'
  OBVIOUS
<1>1. TypeOK'
  BY TypesKept DEF IInv, RowInv
<1>2. CASE UNCHANGED vars
  <2>1. UNCHANGED <<pc, ee, todo, row, slot, from, tries, ucCount, sn, logic>>
    BY <1>2 DEF vars
  <2>2. \A i \in Slots : Used(i)' = Used(i) /\ PhysicalAt(i)' = PhysicalAt(i)
                         /\ Vacated(i)' = Vacated(i)
    BY <2>1 DEF Used, PhysicalAt, Vacated
  <2>3. Fresh' /\ InOrder' /\ Assigned' /\ PolledUnique'
    BY <2>1, <2>2 DEF IInv, RowInv, Fresh, InOrder, Assigned, PolledUnique, PhysicalAt
  <2>4. RowsStand'
    BY <2>1, <2>2 DEF IInv, RowInv, RowsStand
  <2>5. Vacated(slot)' = Vacated(slot) /\ Scanned' = Scanned /\ Opened' = Opened
    BY <2>1 DEF Vacated, Used, Scanned, Opened
  <2>6. \A i \in Scanned : Vacated(i)' = Vacated(i)
    BY <2>1 DEF Vacated, Used
  <2>7. NoneForgotten'
    BY <2>1, <2>5, <2>6 DEF IInv, RowInv, NoneForgotten
  <2> QED BY <1>1, <2>3, <2>4, <2>7 DEF IInv, RowInv
<1>3. CASE Next
  BY <1>1, <1>3, ColdKeeps, WriteKeeps, ScanKeeps, DeleteKeeps, WindowKeeps
  DEF Next, Boot, IInv
<1> QED BY <1>2, <1>3

(* The invariant of the table and the rows.                                *)
THEOREM TableInvariant == Spec => []IInv
<1>1. Init => IInv
  BY InitIInv
<1>2. IInv /\ [Next]_vars => IInv'
  BY NextIInv
<1> QED BY <1>1, <1>2, PTL DEF Spec

(* The variables of the registration code keep their types.                *)
THEOREM TableTypes == Spec => []TypeOK
<1>1. IInv => TypeOK
  BY DEF IInv
<1> QED BY <1>1, TableInvariant, PTL

(* However the power was lost before, the check at power-up leaves the     *)
(* table and the rows of g_RUNDate in agreement.                           *)
THEOREM TableRecovered == Spec => []Recovered
<1>1. IInv => Recovered
  <2> SUFFICES ASSUME IInv, At("window"), ucCount = WINDOW, NEW i \in Slots
               PROVE  /\ Used(i) <=> row[i] # Unused
                      /\ Used(i) => row[i] = PhysicalAt(i)
    BY DEF Recovered
  <2>1. row[i] # Unused => Used(i) /\ PhysicalAt(i) = row[i]
    BY DEF IInv, RowInv, RowsStand
  <2>2. row[i] = Unused => ~Used(i)
    BY DEF IInv, RowInv, NoneForgotten, Scanned, Opened, At, Vacated
  <2> QED BY <2>1, <2>2
<1> QED BY <1>1, TableInvariant, PTL

(* Whoever has the logical address of a polled row is the reader whose     *)
(* serial number the row holds: an address is never shared.                *)
THEOREM TablePolledUnique == Spec => []PolledUnique
<1>1. IInv => PolledUnique
  BY DEF IInv, RowInv
<1> QED BY <1>1, TableInvariant, PTL

-----------------------------------------------------------------------------
(* The configuration                                                       *)

LEMMA ConfigTypes ==
  /\ ConfigDat \in Seq(Writes) /\ DOMAIN ConfigDat = 1..Len(ConfigDat)
  /\ Len(ConfigDat) \in Nat /\ EE_TYPE \in Nat
  /\ \A k \in DOMAIN ConfigDat :
       ConfigDat[k][1] \in EEPROM /\ ConfigDat[k][1] \in Config /\ ConfigDat[k] \in Writes
  /\ FLAG_ADD \in Protected /\ Config \subseteq Protected /\ FLAG_ADD \in EEPROM
<1>1. ConfigDat \in Seq(Writes) /\ EE_TYPE \in Nat /\ FLAG_ADD \in EEPROM
  BY TableShape DEF Writes
<1>2. Len(ConfigDat) \in Nat /\ DOMAIN ConfigDat = 1..Len(ConfigDat)
      /\ \A k \in DOMAIN ConfigDat : ConfigDat[k] \in Writes
  BY <1>1
<1>3. \A k \in DOMAIN ConfigDat : ConfigDat[k][1] \in EEPROM
  BY <1>2 DEF Writes
<1> QED BY <1>1, <1>2, <1>3 DEF Config, Protected

(* An unchanged configuration.                                             *)
LEMMA ProtectedKept ==
  ASSUME \A a \in Protected : ee'[a] = ee[a]
  PROVE  /\ ee'[FLAG_ADD] = ee[FLAG_ADD] /\ (Whole' <=> Whole)
         /\ (ConfigKept' <=> ConfigKept)
PROOF BY ConfigTypes DEF Whole, ConfigKept

(* The steps of Format keep its progress.                                  *)
LEMMA FormattingKept ==
  ASSUME TypeOK, Formatting, ConfigKept, WriteOneByte
  PROVE  Formatting' /\ ConfigKept'
<1> DEFINE L == Len(Format)
           d == L - Len(todo)
<1>1. /\ todo # <<>> /\ ee' = [ee EXCEPT ![todo[1][1]] = todo[1][2]]
      /\ todo' = Tail(todo)
  BY DEF WriteOneByte
<1>2. todo \in Seq(Writes) /\ ee \in [EEPROM -> Byte]
  BY DEF TypeOK, Writes
<1>3. /\ L \in Nat /\ Len(todo) \in Nat \ {0} /\ Len(todo) <= L
      /\ Len(todo') = Len(todo) - 1 /\ DOMAIN todo' = 1..(Len(todo) - 1)
      /\ d \in 0..(L - 1) /\ ee[FLAG_ADD] # 85
      /\ \A k \in 1..(Len(todo) - 1) : todo'[k] = todo[k + 1]
  BY <1>1, <1>2, RestOfWrites, FormatWrites, ConfigTypes DEF Formatting
<1>4. todo[1] = Format[d + 1] /\ todo[1][1] \in EEPROM
  BY <1>1, <1>2, <1>3, RestOfWrites DEF Formatting, Done
<1>5. \A k \in 1..Len(todo') : todo'[k] = Format[(d + 1) + k]
  <2> SUFFICES ASSUME NEW k \in 1..(Len(todo) - 1)
               PROVE  todo'[k] = Format[(d + 1) + k]
    BY <1>3
  <2>1. k + 1 \in 1..Len(todo) /\ d + (k + 1) = (d + 1) + k
    BY <1>3
  <2>2. todo[k + 1] = Format[d + (k + 1)]
    BY <2>1 DEF Formatting, Done
  <2> QED BY <1>3, <2>1, <2>2
<1>6. Done = d /\ Done' = d + 1 /\ L = EE_TYPE + 2 + Len(ConfigDat)
  BY <1>1, <1>3, FormatWrites DEF Done
<1>7. \A k \in DOMAIN ConfigDat :
        EE_TYPE + 1 + k <= d => ee[ConfigDat[k][1]] = ConfigDat[k][2]
  BY <1>6 DEF Formatting
<1> HIDE DEF d, L
<1>8. CASE d <= EE_TYPE
  <2>1. d + 1 \in 1..(EE_TYPE + 1)
    BY <1>3, <1>8, ConfigTypes
  <2>2. todo[1] = <<(d + 1) - 1, 0>>
    BY <1>4, <2>1, FormatWrites
  <2>3. ee'[FLAG_ADD] # 85
    <3>1. todo[1][1] = d /\ todo[1][2] = 0
      BY <1>3, <2>2
    <3> QED BY <1>1, <1>2, <1>3, <1>4, <3>1, ConfigTypes
  <2>4. \A k \in DOMAIN ConfigDat : ~(EE_TYPE + 1 + k <= d + 1)
    BY <1>3, <1>8, ConfigTypes
  <2>5. Formatting'
    BY <1>3, <1>5, <1>6, <2>3, <2>4 DEF Formatting
  <2> QED BY <2>3, <2>5 DEF ConfigKept
<1>9. CASE d > EE_TYPE /\ d < L - 1
  <2> DEFINE j == d - EE_TYPE
  <2>1. j \in DOMAIN ConfigDat /\ EE_TYPE + 1 + j = d + 1
    BY <1>3, <1>6, <1>9, ConfigTypes
  <2>2. todo[1] = ConfigDat[j]
    BY <1>4, <2>1, FormatWrites
  <2>3. ConfigDat[j][1] # FLAG_ADD
    BY <2>1, LayoutShape, ConfigTypes
  <2>4. ee'[FLAG_ADD] # 85
    BY <1>1, <1>2, <1>3, <1>4, <2>2, <2>3, ConfigTypes
  <2>5. ASSUME NEW k \in DOMAIN ConfigDat, EE_TYPE + 1 + k <= d + 1
        PROVE  ee'[ConfigDat[k][1]] = ConfigDat[k][2]
    <3>1. CASE k = j
      BY <1>1, <1>2, <1>4, <2>2, <3>1
    <3>2. CASE k # j
      <4>1. EE_TYPE + 1 + k <= d
        BY <1>3, <2>1, <2>5, <3>2, ConfigTypes
      <4>2. ConfigDat[k][1] # ConfigDat[j][1] /\ ConfigDat[k][1] \in EEPROM
        BY <2>1, <3>2, LayoutShape, ConfigTypes
      <4> QED BY <1>1, <1>2, <1>7, <2>2, <4>1, <4>2
    <3> QED BY <3>1, <3>2
  <2>6. Formatting'
    BY <1>3, <1>5, <1>6, <2>4, <2>5 DEF Formatting
  <2> QED BY <2>4, <2>6 DEF ConfigKept
<1>10. CASE d = L - 1
  <2>1. todo' = <<>>
    <3>1. Len(todo') = 0 /\ todo' \in Seq(Writes)
      BY <1>1, <1>2, <1>3, <1>10, RestOfWrites DEF d
    <3> QED BY <3>1
  <2>2. todo[1] = <<FLAG_ADD, 85>>
    <3>1. d + 1 = Len(Format)
      BY <1>3, <1>10 DEF L
    <3> QED BY <1>4, <3>1, FormatWrites
  <2>3. ASSUME NEW k \in DOMAIN ConfigDat
        PROVE  ee'[ConfigDat[k][1]] = ConfigDat[k][2]
    <3>1. EE_TYPE + 1 + k <= d
      BY <1>3, <1>6, <1>10, ConfigTypes
    <3>2. ConfigDat[k][1] # FLAG_ADD /\ ConfigDat[k][1] \in EEPROM
      BY LayoutShape, ConfigTypes
    <3> QED BY <1>1, <1>2, <1>7, <2>2, <3>1, <3>2
  <2>4. Formatting'
    BY <1>3, <1>5, <1>6, <2>1, <2>3 DEF Formatting
  <2> QED BY <2>3, <2>4 DEF ConfigKept
<1> QED BY <1>3, <1>8, <1>9, <1>10, ConfigTypes

(* The EEPROM of a new board does not say that it is formatted.            *)
LEMMA ConfigInit == ASSUME NEW n \in Nat PROVE Init => ConfigInv(n)
<1> SUFFICES ASSUME Init PROVE ConfigInv(n)
  OBVIOUS
<1>1. ee[FLAG_ADD] = 255 /\ pc = "off" /\ todo = <<>>
  BY ConfigTypes DEF Init
<1> QED BY <1>1 DEF ConfigInv, ConfigKept, ConfigUsed, Booted, Scan

(* A step that writes nothing to the EEPROM.                               *)
LEMMA ConfigSame ==
  ASSUME ee' = ee, ConfigKept
  PROVE  ConfigKept' /\ Whole' = Whole
PROOF BY DEF ConfigKept, Whole

(* AT24CXX_Check.                                                          *)
LEMMA CheckKeepsConfig ==
  ASSUME NEW n \in Nat, IInv, ConfigInv(n), Check \/ Verify
  PROVE  ConfigInv(n)'
<1>1. ee' = ee /\ ConfigKept' /\ ee \in [EEPROM -> Byte] /\ todo = <<>>
  BY ConfigSame DEF ConfigInv, Check, Verify, disk, At, IInv, TypeOK
<1>2. CASE Check /\ pc' = "scan"
  <2>1. todo' = <<>> /\ ee[FLAG_ADD] = 85 /\ ram' = [a \in Config |-> ee[a]]
    BY <1>1, <1>2 DEF Check
  <2>2. ConfigUsed'
    BY <1>1, <2>1, ConfigTypes DEF ConfigUsed, ConfigKept, ConfigInv
  <2> QED BY <1>1, <1>2, <2>1, <2>2 DEF ConfigInv, Harmless, Booted, Scan
<1>3. CASE Check /\ pc' = "verify"
  <2>1. todo' = Format /\ formatted' /\ ee[FLAG_ADD] # 85
    BY <1>3 DEF Check
  <2>2. Len(Format) \in Nat /\ EE_TYPE \in Nat /\ DOMAIN ConfigDat = 1..Len(ConfigDat)
        /\ Len(ConfigDat) \in Nat
    BY FormatWrites, ConfigTypes
  <2>3. Done' = 0
    BY <2>1, <2>2 DEF Done
  <2>4. Formatting'
    BY <1>1, <2>1, <2>2, <2>3 DEF Formatting
  <2> QED BY <1>1, <1>3, <2>1, <2>4 DEF ConfigInv, ConfigUsed, Booted, Scan
<1>4. CASE Verify
  <2>1. pc = "verify" /\ todo' = todo /\ formatted' = formatted /\ formatted
        /\ pc' = (IF ee[FLAG_ADD] = 85 THEN "scan" ELSE "check")
    BY <1>4 DEF Verify, At, disk, boot, ConfigInv
  <2> QED BY <1>1, <2>1 DEF ConfigInv, ConfigUsed, Harmless, Booted, Scan
<1>5. Check => pc' \in {"scan", "verify"}
  BY DEF Check
<1> QED BY <1>2, <1>3, <1>4, <1>5

(* A write of a registration or a deletion: not to the configuration, as   *)
(* no slot beyond n comes into use.                                        *)
LEMMA WriteKeepsConfig ==
  ASSUME NEW n \in Nat, IInv, ConfigInv(n), UpTo(n)', WriteOneByte, pc \in Booted
  PROVE  ConfigInv(n)'
<1>1. /\ todo # <<>> /\ ee' = [ee EXCEPT ![todo[1][1]] = todo[1][2]]
      /\ todo' = Tail(todo) /\ UNCHANGED <<pc, ram, formatted, slot>>
  BY DEF WriteOneByte, boot
<1>2. todo \in Seq(Writes) /\ ee \in [EEPROM -> Byte]
  BY DEF IInv, TypeOK, Writes
<1>3. todo[1][1] \in EEPROM /\ 1 \in DOMAIN todo
      /\ \A k \in DOMAIN todo' : k + 1 \in DOMAIN todo /\ todo'[k] = todo[k + 1]
  BY <1>1, <1>2, RestOfWrites
<1>4. \A k \in DOMAIN todo : todo[k][1] \notin Protected
  <2> SUFFICES ASSUME NEW i \in Slots, i > n, todo[1] = <<SlotBase(i), i>> PROVE FALSE
    BY DEF ConfigInv, Harmless
  <2>1. ee'[SlotBase(i)] = i
    BY <1>1, <1>2, <1>3
  <2>2. i <= n
    BY <2>1 DEF UpTo, Used
  <2> QED BY <2>2 DEF Slots
<1>5. \A a \in Protected : ee'[a] = ee[a]
  BY <1>1, <1>2, <1>3, <1>4
<1>6. ee'[FLAG_ADD] = 85 /\ ConfigKept'
  BY <1>5, ProtectedKept DEF ConfigInv
<1>7. Harmless(n)'
  BY <1>3, <1>4 DEF Harmless
<1> QED BY <1>1, <1>6, <1>7 DEF ConfigInv, ConfigUsed, Booted, Scan

(* Delete_LogicADD of one of the first n numbers: the slots that hold the  *)
(* number do not reach into the configuration, and the count is not of it. *)
LEMMA DeleteKeepsConfig ==
  ASSUME NEW n \in Nat, ClearUpTo(n), IInv, ConfigInv(n), DeleteSlot \/ DeleteCount
  PROVE  ConfigInv(n)'
<1>1. /\ pc = "delete" /\ todo = <<>> /\ slot \in Slots /\ UNCHANGED <<ee, ram, formatted>>
      /\ slot \in 1..n /\ ee[FLAG_ADD] = 85
  BY DEF DeleteSlot, DeleteCount, At, boot, IInv, TypeOK, ConfigInv, Booted, Scan, Slots
<1>2. ConfigKept' /\ Whole
  BY <1>1, ConfigSame DEF ConfigInv, ConfigKept, Whole
<1>3. CASE DeleteSlot
  <2> DEFINE j == Least(Holding)
  <2>1. Holding # {} /\ todo' = ClearSlot(j) /\ UNCHANGED <<pc, slot>>
    BY <1>3 DEF DeleteSlot
  <2>2. j \in Slots /\ ee[SlotBase(j)] = slot
    BY <2>1, HoldingIsSlot DEF IInv
  <2>3. DOMAIN todo' = 1..5 /\ \A k \in 1..5 : todo'[k][1] \in Cells(j)
    BY <2>1, <2>2, ClearSlotWrites
  <2> HIDE DEF j
  <2>4. Cells(j) \cap Protected = {}
    BY <1>1, <1>2, <2>2 DEF ClearUpTo, Whole
  <2>5. Harmless(n)'
    BY <2>3, <2>4 DEF Harmless
  <2> QED BY <1>1, <1>2, <2>1, <2>5 DEF ConfigInv, ConfigUsed, Booted, Scan
<1>4. CASE DeleteCount
  <2>1. todo' = << <<COUNT_ADD, CountDown>> >> /\ pc' \in {"scan", "window"}
    BY <1>4 DEF DeleteCount, NextSlot
  <2>2. COUNT_ADD \notin Protected
    BY LayoutShape DEF Protected
  <2>3. Harmless(n)'
    BY <2>1, <2>2 DEF Harmless
  <2> QED BY <1>1, <1>2, <2>1, <2>3 DEF ConfigInv, ConfigUsed, Booted, Scan
<1> QED BY <1>3, <1>4

(* A registration in one of the first n slots, or one that begins with the *)
(* number of a slot beyond them.                                           *)
LEMMA RegisterKeepsConfig ==
  ASSUME NEW n \in Nat, ClearUpTo(n), IInv, ConfigInv(n),
         NEW r \in Readers, WindowAnnounced(r)
  PROVE  ConfigInv(n)'
<1>1. /\ pc = "window" /\ todo = <<>> /\ UNCHANGED <<ee, ram, formatted>>
      /\ pc' \in {"window", "assign"} /\ ee[FLAG_ADD] = 85
  BY DEF WindowAnnounced, At, boot, ConfigInv, Booted, Scan
<1>2. ConfigKept'
  BY <1>1, ConfigSame DEF ConfigInv
<1>3. Harmless(n)'
  <2>1. CASE todo' = todo
    BY <1>1, <2>1 DEF Harmless
  <2>2. CASE Free # {} /\ todo' = RegisterWrites(Least(Free), SN[r])
    <3> DEFINE j == Least(Free)
    <3>1. j \in Slots /\ SN[r] \in [1..4 -> Byte] /\ ee \in [EEPROM -> Byte]
      BY <2>2, FreeIsSlot, TableShape DEF IInv, TypeOK
    <3>2. /\ DOMAIN todo' = 1..6 /\ todo'[1] = <<SlotBase(j), j>>
          /\ \A k \in 1..6 : todo'[k][1] \in Cells(j) \cup {COUNT_ADD}
      BY <2>2, <3>1, RegisterSlotWrites
    <3> HIDE DEF j
    <3>3. CASE j > n
      <4>1. todo' # <<>>
        BY <3>2
      <4> QED BY <3>1, <3>2, <3>3, <4>1 DEF Harmless
    <3>4. CASE ~(j > n)
      <4>1. Cells(j) \cap Protected = {} /\ COUNT_ADD \notin Protected
        BY <3>1, <3>4, LayoutShape DEF ClearUpTo, Protected
      <4> QED BY <3>2, <4>1 DEF Harmless
    <3> QED BY <3>3, <3>4
  <2> QED BY <2>1, <2>2 DEF WindowAnnounced
<1> QED BY <1>1, <1>2, <1>3 DEF ConfigInv, ConfigUsed, Booted, Scan

(* The other steps do not touch the EEPROM.                                *)
LEMMA QuietKeepsConfig ==
  ASSUME NEW n \in Nat, IInv, ConfigInv(n), UpTo(n),
         \/ ScanUnused \/ ScanZero \/ ScanAssigned \/ ScanFailed
         \/ WindowNothing \/ Assign \/ WindowEnds
  PROVE  ConfigInv(n)'
<1>1. /\ UNCHANGED <<ee, todo, ram, formatted>> /\ pc \in Booted
      /\ pc' \in {"scan", "delete", "window", "run"}
      /\ pc' = "delete" => pc = "scan" /\ Used(slot) /\ slot' = slot
  BY DEF ScanUnused, ScanZero, ScanAssigned, ScanFailed, WindowNothing, Assign,
         WindowEnds, At, disk, boot, Booted, Scan, NextSlot, CallDelete
<1>2. ConfigKept' /\ ee'[FLAG_ADD] = 85 /\ Harmless(n)'
  BY <1>1, ConfigSame DEF ConfigInv, Harmless
<1>3. ConfigUsed'
  BY <1>1 DEF ConfigUsed, ConfigInv, Booted, Scan
<1>4. pc' = "delete" => slot' <= n
  BY <1>1 DEF UpTo, IInv, TypeOK
<1> QED BY <1>1, <1>2, <1>3, <1>4 DEF ConfigInv, Booted, Scan

(* Every step keeps the configuration as long as no slot beyond n is used. *)
LEMMA ConfigNext ==
  ASSUME NEW n \in Nat, ClearUpTo(n)
  PROVE  IInv /\ ConfigInv(n) /\ UpTo(n) /\ UpTo(n)' /\ [Next]_vars => ConfigInv(n)'
<1> SUFFICES ASSUME IInv, ConfigInv(n), UpTo(n), UpTo(n)', [Next]_vars
             PROVE  ConfigInv(n)'
  OBVIOUS
<1>1. CASE UNCHANGED vars
  <2>1. UNCHANGED <<pc, ee, todo, ram, formatted, slot>>
    BY <1>1 DEF vars
  <2>2. Formatting' = Formatting /\ Harmless(n)' = Harmless(n)
    BY <2>1 DEF Formatting, Harmless, Done
  <2>3. ConfigKept' /\ ConfigUsed'
    BY <2>1 DEF ConfigInv, ConfigKept, ConfigUsed
  <2> QED BY <2>1, <2>2, <2>3 DEF ConfigInv
<1>2. CASE PowerOn
  <2>1. pc = "off" /\ pc' = "check" /\ todo' = todo /\ ee' = ee
    BY <1>2 DEF PowerOn, disk
  <2> QED BY <2>1, ConfigSame DEF ConfigInv, ConfigUsed, Booted, Scan
<1>3. CASE PowerLoss
  <2>1. pc' = "off" /\ todo' = <<>> /\ ee' = ee
    BY <1>3 DEF PowerLoss
  <2> QED BY <2>1, ConfigSame DEF ConfigInv, ConfigUsed, Booted, Scan
<1>4. CASE WriteOneByte
  <2>1. CASE pc \in Booted
    BY <1>4, <2>1, WriteKeepsConfig
  <2>2. CASE pc \notin Booted
    <3>1. pc = "verify" /\ pc' = "verify" /\ formatted' = formatted
      BY <1>4, <2>2 DEF ConfigInv, WriteOneByte, boot, Booted, Scan, IInv, TypeOK
    <3>2. Formatting' /\ ConfigKept'
      BY <1>4, <3>1, FormattingKept DEF ConfigInv, IInv
    <3> QED BY <3>1, <3>2 DEF ConfigInv, ConfigUsed, Booted, Scan
  <2> QED BY <2>1, <2>2
<1>5. CASE Next /\ ~PowerOn /\ ~PowerLoss /\ ~WriteOneByte
  BY <1>5, CheckKeepsConfig, DeleteKeepsConfig, RegisterKeepsConfig, QuietKeepsConfig
  DEF Next, Boot
<1> QED BY <1>1, <1>2, <1>3, <1>4, <1>5

(* As long as no slot beyond n is used, and the first n slots are clear of *)
(* the configuration, no registration, deletion or power loss damages it.  *)
THEOREM ConfigStays ==
  ASSUME NEW n \in Nat, ClearUpTo(n)
  PROVE  Spec /\ []UpTo(n) => []ConfigKept
<1>1. Init => ConfigInv(n)
  BY ConfigInit
<1>2. IInv /\ ConfigInv(n) /\ UpTo(n) /\ UpTo(n)' /\ [Next]_vars => ConfigInv(n)'
  BY ConfigNext
<1>3. ConfigInv(n) => ConfigKept
  BY DEF ConfigInv
<1> QED BY <1>1, <1>2, <1>3, TableInvariant, PTL DEF Spec

(* And the configuration in use is the stored one, except in the power     *)
(* cycle that formatted the EEPROM.                                        *)
THEOREM ConfigInUse ==
  ASSUME NEW n \in Nat, ClearUpTo(n)
  PROVE  Spec /\ []UpTo(n) => []ConfigUsed
<1>1. Init => ConfigInv(n)
  BY ConfigInit
<1>2. IInv /\ ConfigInv(n) /\ UpTo(n) /\ UpTo(n)' /\ [Next]_vars => ConfigInv(n)'
  BY ConfigNext
<1>3. ConfigInv(n) => ConfigUsed
  BY DEF ConfigInv
<1> QED BY <1>1, <1>2, <1>3, TableInvariant, PTL DEF Spec

(* A table that lies clear of the configuration altogether needs nothing   *)
(* said of the slots in use.                                               *)
THEOREM ConfigOfClearTable ==
  ASSUME ClearUpTo(ADD_SIZE)
  PROVE  Spec => [](ConfigKept /\ ConfigUsed)
<1>1. ADD_SIZE \in Nat
  BY Sizes
<1>2. UpTo(ADD_SIZE)
  BY Sizes DEF UpTo, Slots
<1>3. Init => ConfigInv(ADD_SIZE)
  BY <1>1, ConfigInit
<1>4. IInv /\ ConfigInv(ADD_SIZE) /\ [Next]_vars => ConfigInv(ADD_SIZE)'
  <2>1. UpTo(ADD_SIZE)'
    BY Sizes DEF UpTo, Slots
  <2> QED BY <1>1, <1>2, <2>1, ConfigNext
<1>5. ConfigInv(ADD_SIZE) => ConfigKept /\ ConfigUsed
  BY DEF ConfigInv
<1> QED BY <1>3, <1>4, <1>5, TableInvariant, PTL DEF Spec

(* The layout of this build, with the server, the serial number, the key   *)
(* and the communication code at 200..225 and 230..236 and the flag at     *)
(* 255: the configuration stands while no slot beyond 31 is in use.        *)
THEOREM ConfigOfThisBuild ==
  ASSUME Start_ADD = 10, ADD_SIZE = 80, FLAG_ADD = 255,
         Config = (200..225) \cup (230..236),
         \A k \in DOMAIN ConfigDat : ConfigDat[k][1] % 5 = 0 => ConfigDat[k][2] > 31
  PROVE  Spec /\ []UpTo(31) => [](ConfigKept /\ ConfigUsed)
<1>1. ClearUpTo(31)
  <2> SUFFICES ASSUME NEW i \in Slots, NEW a \in Cells(i), a \in Protected
               PROVE  /\ i > 31
                      /\ \/ SlotBase(i) = FLAG_ADD /\ 85 \notin 1..31
                         \/ \E k \in DOMAIN ConfigDat :
                              ConfigDat[k][1] = SlotBase(i) /\ ConfigDat[k][2] \notin 1..31
    BY DEF ClearUpTo
  <2>1. i \in 1..80 /\ SlotBase(i) = 10 + 5 * i /\ a \in (10 + 5 * i)..(14 + 5 * i)
    BY DEF Slots, SlotBase, Cells
  <2>2. a = 255 \/ a \in 200..225 \/ a \in 230..236
    BY DEF Protected
  <2>3. i > 31
    BY <2>1, <2>2
  <2>4. CASE a = 255
    BY <2>1, <2>3, <2>4
  <2>5. CASE a # 255
    <3>1. SlotBase(i) \in Config /\ SlotBase(i) % 5 = 0
      BY <2>1, <2>2, <2>5
    <3>2. PICK k \in DOMAIN ConfigDat : ConfigDat[k][1] = SlotBase(i)
      BY <3>1 DEF Config
    <3>3. ConfigDat[k][2] > 31
      BY <3>1, <3>2
    <3>4. ConfigDat[k][2] \notin 1..31
      BY <3>3
    <3> QED BY <2>3, <3>2, <3>4
  <2> QED BY <2>4, <2>5
<1>2. 31 \in Nat
  OBVIOUS
<1>3. Init => ConfigInv(31)
  BY <1>1, <1>2, ConfigInit
<1>4. IInv /\ ConfigInv(31) /\ UpTo(31) /\ UpTo(31)' /\ [Next]_vars => ConfigInv(31)'
  BY <1>1, <1>2, ConfigNext
<1>5. ConfigInv(31) => ConfigKept /\ ConfigUsed
  BY DEF ConfigInv
<1> QED BY <1>3, <1>4, <1>5, TableInvariant, PTL DEF Spec
=============================================================================

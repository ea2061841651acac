----------------------------- MODULE AddrTable ------------------------------
(***************************************************************************)
(* The registration table in the EEPROM: AT24CXX_Check, the start of       *)
(* led_task (PowerUPLogitADDCheck, then the registration window), and the  *)
(* table operations Distribute_LogicADD and Delete_LogicADD.               *)
(*                                                                         *)
(* The EEPROM is a function from addresses to bytes.  AT24CXX_WriteOneByte *)
(* is the only thing that changes it and takes 10 ms, so every byte is a   *)
(* step and the power may be lost before any of them: todo holds the       *)
(* writes that the call in progress has not made yet, and no other step of *)
(* the program is taken before they are made.                              *)
(*                                                                         *)
(* A reader keeps its logical address while the bus has power, answers     *)
(* when it is spoken to by its serial number, and announces itself while   *)
(* it has no address.  The readers are not part of the repository.         *)
(***************************************************************************)
EXTENDS Integers, Sequences

CONSTANTS
  EE_TYPE,     (* the last address of the EEPROM                           *)
  ADD_SIZE,    (* slots of the table (BUSNUM_SIZE)                         *)
  Start_ADD,   (* address before the table; slot i is at Start_ADD + 5 * i *)
  COUNT_ADD,   (* address of the number of registrations                   *)
  FLAG_ADD,    (* address of the byte that says "formatted"                *)
  ConfigDat,   (* the default configuration: <<address, byte>> in the      *)
               (* order of the writes                                      *)
  SN,          (* serial number of each reader, four bytes                 *)
  Attached,    (* the sets of readers that may be on the bus at a power-up *)
  WINDOW,      (* rounds of the registration window (ucCount)              *)
  MaxLosses    (* bound: power losses in a behaviour                       *)

Readers == DOMAIN SN
Slots == 1..ADD_SIZE
Byte == 0..255
Config == {ConfigDat[k][1] : k \in DOMAIN ConfigDat}

(* Where slot i begins: its logical address; the serial number follows.    *)
SlotBase(i) == Start_ADD + 5 * i

EEPROM == 0..EE_TYPE

(* The five bytes of slot i.                                               *)
Cells(i) == SlotBase(i)..(SlotBase(i) + 4)

ASSUME TableShape ==
  /\ EE_TYPE \in Nat /\ Start_ADD \in Nat
  /\ ADD_SIZE \in 1..255 /\ WINDOW \in Nat \ {0} /\ MaxLosses \in Nat
  /\ ConfigDat \in Seq(EEPROM \X Byte) /\ {COUNT_ADD, FLAG_ADD} \subseteq EEPROM
  /\ \A i \in Slots : Cells(i) \subseteq EEPROM
  /\ \A r \in Readers : SN[r] \in [1..4 -> Byte] /\ SN[r] # <<0, 0, 0, 0>>
  /\ Attached \subseteq SUBSET Readers
  /\ \A r, q \in Readers : SN[r] = SN[q] => r = q

(* The defaults are written each to an address of its own, none of them    *)
(* over the flag, and the count lies before the table.                     *)
ASSUME LayoutShape ==
  /\ \A j, k \in DOMAIN ConfigDat : ConfigDat[j][1] = ConfigDat[k][1] => j = k
  /\ FLAG_ADD \notin Config
  /\ COUNT_ADD \notin Config \cup {FLAG_ADD}
  /\ \A i \in Slots : COUNT_ADD \notin Cells(i)

VARIABLES
  pc,         (* where the program is                                      *)
  ee,         (* the EEPROM                                                *)
  todo,       (* writes still to be made: a sequence of <<address, byte>>  *)
  ram,        (* the configuration in use (g_lwipADD, g_ACUSN, ...)        *)
  formatted,  (* history: the EEPROM was formatted since the power came on *)
  row,        (* g_RUNDate[i]: the serial number polled at i, or Unused    *)
  slot,       (* the slot being checked or assigned                        *)
  from,       (* the loop of Delete_LogicADD: the slots below it are done  *)
  tries,      (* failed assignments of this slot                           *)
  ucCount,    (* rounds left of the window                                 *)
  sn,         (* PhysicalADD: the serial number last announced             *)
  logic,      (* the logical address each reader has; 0 for none           *)
  online,     (* the readers on the bus since the power came on            *)
  losses      (* power losses so far                                       *)

disk == <<ee, todo>>
boot == <<ram, formatted>>
bus == <<online, losses>>
vars == <<pc, ee, todo, ram, formatted, row, slot, from, tries, ucCount, sn, logic,
          online, losses>>

Unused == <<>>
Zeros == <<0, 0, 0, 0>>

(* A slot is in use when its first byte is its own number.                 *)
Used(i) == ee[SlotBase(i)] = i

PhysicalAt(i) == [k \in 1..4 |-> ee[SlotBase(i) + k]]

-----------------------------------------------------------------------------
(* What each operation writes, in order.                                   *)

(* Delete_allDat: every byte from address 0 up.                            *)
Delete_allDat == [k \in 1..(EE_TYPE + 1) |-> <<k - 1, 0>>]

(* Mutant: the flag is the first byte that is written after the erasure.   *)
FormatFlagFirst == Delete_allDat \o << <<FLAG_ADD, 85>> >> \o ConfigDat

(* Mutant: the flag is never written.                                      *)
FormatWithoutFlag == Delete_allDat \o ConfigDat

(* AT24CXX_Check on an EEPROM without the flag: all is erased, then the    *)
(* defaults are written, and the flag 0x55 last.                           *)
Format == Delete_allDat \o ConfigDat \o << <<FLAG_ADD, 85>> >>

(* Distribute_LogicADD, slot i being free: the slot's number comes first,  *)
(* the count last.                                                         *)
RegisterWrites(i, phys) ==
  << <<SlotBase(i), i>> >>
    \o [k \in 1..4 |-> <<SlotBase(i) + k, phys[k]>>]
    \o << <<COUNT_ADD, (ee[COUNT_ADD] + 1) % 256>> >>

(* The four zeros start at the slot's base OR-ed with 1: on an odd base    *)
(* that is the base itself, and the last byte of the number stays.         *)
ZerosFrom(i) == IF SlotBase(i) % 2 = 1 THEN SlotBase(i) ELSE SlotBase(i) + 1

(* Mutant: the first byte of the slot is not cleared.                      *)
ClearNumberOnly(i) == [k \in 1..4 |-> <<ZerosFrom(i) + (k - 1), 0>>]

(* Mutant: five zeros instead of four.                                     *)
ClearFive(i) ==
  [k \in 1..5 |-> <<ZerosFrom(i) + (k - 1), 0>>] \o << <<SlotBase(i), 0>> >>

ClearSlot(i) ==
  [k \in 1..4 |-> <<ZerosFrom(i) + (k - 1), 0>>] \o << <<SlotBase(i), 0>> >>

CountDown == (ee[COUNT_ADD] - 1) % 256

-----------------------------------------------------------------------------
Init ==
  /\ pc = "off" /\ todo = <<>>
  /\ ee = [a \in EEPROM |-> 255]
  /\ ram = [a \in Config |-> 0] /\ formatted = FALSE
  /\ row = [i \in Slots |-> Unused]
  /\ slot = 1 /\ from = 1 /\ tries = 0 /\ ucCount = 0 /\ sn = Zeros
  /\ logic = [r \in Readers |-> 0]
  /\ online = {} /\ losses = 0

PowerOn ==
  /\ pc = "off"
  /\ pc' = "check"
  /\ online' \in Attached
  /\ UNCHANGED <<disk, boot, row, slot, from, tries, ucCount, sn, logic, losses>>

(* Everything but the EEPROM is lost, on the controller and on the bus.    *)
PowerLoss ==
  /\ pc # "off" /\ losses < MaxLosses
  /\ pc' = "off" /\ todo' = <<>>
  /\ ram' = [a \in Config |-> 0] /\ formatted' = FALSE
  /\ row' = [i \in Slots |-> Unused]
  /\ slot' = 1 /\ from' = 1 /\ tries' = 0 /\ ucCount' = 0 /\ sn' = Zeros
  /\ logic' = [r \in Readers |-> 0]
  /\ online' = {} /\ losses' = losses + 1
  /\ UNCHANGED ee

(* AT24CXX_WriteOneByte.                                                   *)
WriteOneByte ==
  /\ todo # <<>>
  /\ ee' = [ee EXCEPT ![todo[1][1]] = todo[1][2]]
  /\ todo' = Tail(todo)
  /\ UNCHANGED <<pc, boot, row, slot, from, tries, ucCount, sn, logic, bus>>

(* The program is at label l and no EEPROM write is under way.             *)
At(l) == pc = l /\ todo = <<>>

-----------------------------------------------------------------------------
(* AT24CXX_Check, called until it returns 0.                               *)

(* The configuration is read before the flag is looked at, and not again   *)
(* after formatting.                                                       *)
Check ==
  /\ At("check")
  /\ ram' = [a \in Config |-> ee[a]]
  /\ \/ /\ ee[FLAG_ADD] = 85
        /\ pc' = "scan"
        /\ UNCHANGED <<todo, formatted>>
     \/ /\ ee[FLAG_ADD] # 85
        /\ pc' = "verify"
        /\ todo' = Format /\ formatted' = TRUE
  /\ UNCHANGED <<ee, row, slot, from, tries, ucCount, sn, logic, bus>>

Verify ==
  /\ At("verify")
  /\ pc' = IF ee[FLAG_ADD] = 85 THEN "scan" ELSE "check"
  /\ UNCHANGED <<disk, boot, row, slot, from, tries, ucCount, sn, logic, bus>>

-----------------------------------------------------------------------------
(* Can_WriteLogitADD: tell the reader with this number its address and     *)
(* wait 100 ms for the answer.  The frame may be lost, or only the answer. *)
Can_WriteLogitADD(i, phys, answered) ==
  \E heard \in SUBSET {r \in online : SN[r] = phys} :
    /\ answered => heard # {}
    /\ logic' = [r \in Readers |-> IF r \in heard THEN i ELSE logic[r]]

-----------------------------------------------------------------------------
(* PowerUPLogitADDCheck: the slots in order.                               *)

Least(S) == CHOOSE i \in S : \A j \in S : i <= j

(* The next slot, or the end of the check: the window is opened.           *)
NextSlot ==
  /\ tries' = 0
  /\ IF slot < ADD_SIZE
     THEN slot' = slot + 1 /\ pc' = "scan" /\ UNCHANGED ucCount
     ELSE slot' = 1 /\ pc' = "window" /\ ucCount' = WINDOW

(* Delete_LogicADD of the number slot, which does not begin with a write.  *)
CallDelete ==
  /\ pc' = "delete"
  /\ UNCHANGED <<disk, boot, row, slot, from, ucCount, sn, bus>>

(* Every slot from the loop index on that holds the number is cleared.     *)
Holding == {j \in from..ADD_SIZE : ee[SlotBase(j)] = slot}

DeleteSlot ==
  /\ At("delete") /\ Holding # {}
  /\ todo' = ClearSlot(Least(Holding))
  /\ from' = Least(Holding) + 1
  /\ UNCHANGED <<pc, ee, boot, row, slot, tries, ucCount, sn, logic, bus>>

(* At the end the count goes down, whether or not there was one.           *)
DeleteCount ==
  /\ At("delete") /\ Holding = {}
  /\ row' = [row EXCEPT ![slot] = Unused]
  /\ todo' = << <<COUNT_ADD, CountDown>> >>
  /\ from' = 1
  /\ NextSlot
  /\ UNCHANGED <<ee, boot, sn, logic, bus>>

ScanUnused ==
  /\ At("scan") /\ ~Used(slot)
  /\ NextSlot
  /\ UNCHANGED <<disk, boot, row, from, sn, logic, bus>>

ScanZero ==
  /\ At("scan") /\ Used(slot) /\ PhysicalAt(slot) = Zeros
  /\ CallDelete
  /\ UNCHANGED <<tries, logic>>

ScanAssigned ==
  /\ At("scan") /\ Used(slot) /\ PhysicalAt(slot) # Zeros
  /\ Can_WriteLogitADD(slot, PhysicalAt(slot), TRUE)
  /\ row' = [row EXCEPT ![slot] = PhysicalAt(slot)]
  /\ NextSlot
  /\ UNCHANGED <<disk, boot, from, sn, bus>>

(* The first failure is tried again, after the second the slot is freed.   *)
ScanFailed ==
  /\ At("scan") /\ Used(slot) /\ PhysicalAt(slot) # Zeros
  /\ Can_WriteLogitADD(slot, PhysicalAt(slot), FALSE)
  /\ \/ /\ tries = 0
        /\ tries' = 1
        /\ UNCHANGED <<pc, disk, boot, row, slot, from, ucCount, sn, bus>>
     \/ tries = 1 /\ CallDelete /\ UNCHANGED tries

-----------------------------------------------------------------------------
(* The registration window of led_task.                                    *)

Known(phys) == {i \in Slots : Used(i) /\ PhysicalAt(i) = phys}
Free == {i \in Slots : ~Used(i)}

(* One round without an announcement: nothing received, another frame, or  *)
(* a wrong CRC.                                                            *)
WindowNothing ==
  /\ At("window") /\ ucCount > 0
  /\ ucCount' = ucCount - 1
  /\ UNCHANGED <<pc, disk, boot, row, slot, from, tries, sn, logic, bus>>

(* Can_ReadUnregistered returns the number of a reader without an address; *)
(* Distribute_LogicADD gives it the slot it has, or the first free one, or *)
(* 0xF3 when there is none, which ends the round.                          *)
WindowAnnounced(r) ==
  /\ At("window") /\ ucCount > 0
  /\ r \in online /\ logic[r] = 0
  /\ sn' = SN[r]
  /\ \/ /\ Known(SN[r]) # {}
        /\ slot' = Least(Known(SN[r])) /\ pc' = "assign"
        /\ UNCHANGED <<todo, ucCount>>
     \/ /\ Known(SN[r]) = {} /\ Free # {}
        /\ slot' = Least(Free) /\ pc' = "assign"
        /\ todo' = RegisterWrites(Least(Free), SN[r])
        /\ UNCHANGED ucCount
     \/ /\ Known(SN[r]) = {} /\ Free = {}
        /\ ucCount' = ucCount - 1
        /\ UNCHANGED <<pc, slot, todo>>
  /\ UNCHANGED <<ee, boot, row, from, tries, logic, bus>>

(* Mutant: a reader registered in the window is polled at once.            *)
AssignAndPoll ==
  /\ At("assign")
  /\ \E answered \in BOOLEAN :
       /\ Can_WriteLogitADD(slot, sn, answered)
       /\ row' = IF answered THEN [row EXCEPT ![slot] = sn] ELSE row
  /\ pc' = "window" /\ ucCount' = ucCount - 1 /\ slot' = 1
  /\ UNCHANGED <<disk, boot, from, tries, sn, bus>>

(* The new address is sent once.  The row of g_RUNDate is not set: the     *)
(* reader is polled from the next power-up on.                             *)
Assign ==
  /\ At("assign")
  /\ \E answered \in BOOLEAN : Can_WriteLogitADD(slot, sn, answered)
  /\ pc' = "window" /\ ucCount' = ucCount - 1 /\ slot' = 1
  /\ UNCHANGED <<disk, boot, row, from, tries, sn, bus>>

(* g_PowerUpFlag = 0xAA: polling begins.                                   *)
WindowEnds ==
  /\ At("window") /\ ucCount = 0
  /\ pc' = "run"
  /\ UNCHANGED <<disk, boot, row, slot, from, tries, ucCount, sn, logic, bus>>

Boot ==
  \/ PowerOn \/ WriteOneByte \/ Check \/ Verify
  \/ ScanUnused \/ ScanZero \/ ScanAssigned \/ ScanFailed
  \/ DeleteSlot \/ DeleteCount
  \/ WindowNothing \/ Assign \/ WindowEnds
  \/ \E r \in Readers : WindowAnnounced(r)

Next == Boot \/ PowerLoss

(* main formats the EEPROM before OSInit, when nothing else runs, and      *)
(* waits for nothing but time, or for the power to come back.  The scan    *)
(* and the window are led_task's.                                          *)
MainSteps == pc \in {"off", "check", "verify"} /\ Boot
LedSteps  == pc \in {"scan", "delete", "window", "assign"} /\ Boot

(* key_task has the higher priority, and as long as it polls the serial    *)
(* line for a download led_task gets no time, so only main's steps are     *)
(* fair; what needs led_task to run takes that as a condition.             *)
Spec == Init /\ [][Next]_vars /\ WF_vars(MainSteps)

LedTaskRuns == WF_vars(LedSteps)

-----------------------------------------------------------------------------
TypeOK ==
  /\ pc \in {"off", "check", "verify", "scan", "delete", "window", "assign",
             "run"}
  /\ ee \in [EEPROM -> Byte]
  /\ todo \in Seq(EEPROM \X Byte)
  /\ ram \in [Config -> Byte] /\ formatted \in BOOLEAN
  /\ row \in [Slots -> {Unused} \cup [1..4 -> Byte]]
  /\ slot \in Slots /\ from \in 1..(ADD_SIZE + 1) /\ tries \in {0, 1} /\ ucCount \in 0..WINDOW
  /\ sn \in [1..4 -> Byte]
  /\ logic \in [Readers -> 0..ADD_SIZE]
  /\ online \subseteq Readers /\ losses \in 0..MaxLosses

(* However the power was lost before, PowerUPLogitADDCheck leaves the      *)
(* table and the rows in agreement: a slot is in use exactly when its row  *)
(* is polled, under the same serial number.                                *)
Recovered ==
  At("window") /\ ucCount = WINDOW =>
    \A i \in Slots :
      /\ Used(i) <=> row[i] # Unused
      /\ Used(i) => row[i] = PhysicalAt(i)

(* A polled address is never shared: whoever has the logical address of a  *)
(* polled row is the reader whose serial number the row holds.  An answer  *)
(* lost twice leaves a reader with an address the table calls free.        *)
PolledUnique ==
  \A i \in Slots, r \in Readers :
    row[i] # Unused /\ logic[r] = i => row[i] = SN[r]

(* Once the flag is set the configuration is whole, and registrations and  *)
(* deletions stay clear of it: the layout comment of bsp_24cxx.c.          *)
ConfigKept ==
  ee[FLAG_ADD] = 85 =>
    \A k \in DOMAIN ConfigDat : ee[ConfigDat[k][1]] = ConfigDat[k][2]

(* The configuration in use is the stored one, except in the power cycle   *)
(* that formatted the EEPROM: that one runs on what it read before.        *)
ConfigUsed ==
  pc \in {"scan", "delete", "window", "assign", "run"} =>
    \/ formatted
    \/ \A k \in DOMAIN ConfigDat : ram[ConfigDat[k][1]] = ConfigDat[k][2]

(* main reaches the scan or loses the power, and if led_task gets time     *)
(* then every power-up that is not cut short reaches normal operation:     *)
(* failing answers, a torn table or a full one do not hold it up.          *)
BootEnds ==
  /\ pc \in {"check", "verify"} ~> pc \in {"off", "scan"}
  /\ LedTaskRuns => (pc # "run") ~> (pc = "run")
=============================================================================

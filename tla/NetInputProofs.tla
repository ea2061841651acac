--------------------------- MODULE NetInputProofs ---------------------------
(***************************************************************************)
(* Proofs about the DM9000 between its interrupt handler and its tasks, for*)
(* any number of frames and sends: every access meets the register it      *)
(* selected (RegExact), and nobody waits for a less urgent task            *)
(* (NoInversion).                                                          *)
(*                                                                         *)
(* The invariant says who may be at the chip: a task between OSMutexPend   *)
(* and OSMutexPost is the owner of dm9000lock, so at most one task has     *)
(* selected a register; that register is in REG, or, while the interrupt   *)
(* handler uses the chip, in last_io.  For the second property it says     *)
(* besides that the owner of a mutex somebody waits for can run and is     *)
(* urgent enough.                                                          *)
(***************************************************************************)
EXTENDS NetInput, TLAPS

Chip == DOMAIN Register

(* Where the next access finds its register.                               *)
SelectedRegister == IF handler = "write" THEN last_io ELSE REG

Types ==
  /\ pc \in [Tasks -> Steps]
  /\ selected \in [Tasks -> BOOLEAN]
  /\ waiting \subseteq Tasks

OwnerOnly ==
  \A t \in Tasks : pc[t] \in Chip \cup {"unlock", "endless"} => owner = t

WaitersWait == \A t \in waiting : pc[t] = "wait"

SelectedIsKept ==
  \A t \in Tasks : selected[t] =>
    pc[t] \in Chip /\ SelectedRegister = Register[pc[t]]

IInv == Types /\ OwnerOnly /\ WaitersWait /\ SelectedIsKept

-----------------------------------------------------------------------------
(* The steps with a register, spelled out.                                 *)
LEMMA ChipSteps ==
  Chip = {"mask", "fill", "start", "spin", "clear", "unmask", "probe", "take",
          "finish", "enable", "stop", "stopped"}
PROOF BY DEF Chip, Register

(* OSMutexPost finds the most urgent of those that wait.                   *)
LEMMA UrgentIsOne ==
  ASSUME NEW S, S \subseteq Tasks, S # {}
  PROVE  Urgent(S) \in S /\ \A u \in S : Prio[Urgent(S)] <= Prio[u]
<1>1. \E t \in S : \A u \in S : Prio[t] <= Prio[u]
  <2>1. CASE "tcpip" \in S
    BY <2>1 DEF Tasks, Senders, Prio
  <2>2. CASE "tcpip" \notin S /\ "input" \in S
    BY <2>2 DEF Tasks, Senders, Prio
  <2>3. CASE "tcpip" \notin S /\ "input" \notin S
    <3>1. S = {"dhcp"}
      BY <2>3 DEF Tasks, Senders
    <3> QED BY <3>1 DEF Prio
  <2> QED BY <2>1, <2>2, <2>3
<1> QED BY <1>1 DEF Urgent

(* Whoever gets the mutex goes on with a register access.                  *)
LEMMA BeginIsStep == \A t \in Tasks : Begin(t) \in Chip
PROOF BY ChipSteps DEF Begin

-----------------------------------------------------------------------------
(* When the tasks start nobody holds the mutex and nothing is selected.    *)
LEMMA InitIInv == Init => IInv
PROOF BY ChipSteps DEF Init, IInv, Types, OwnerOnly, WaitersWait, SelectedIsKept, Steps, Tasks, Chip

(* A step of the chip, the interrupt controller or the wish to send.       *)
LEMMA Untouched ==
  ASSUME IInv, UNCHANGED <<pc, selected, owner, waiting, handler, last_io, REG>>
  PROVE  IInv'
PROOF BY DEF IInv, Types, OwnerOnly, WaitersWait, SelectedIsKept, SelectedRegister

(* The handler puts REG back: last_io keeps it in the meantime.            *)
LEMMA HandlerKeeps ==
  ASSUME IInv, Handler \/ Interrupt
  PROVE  IInv'
<1> USE DEF IInv, Types, OwnerOnly, WaitersWait, SelectedIsKept, SelectedRegister,
            taskVars, lockVars
<1>1. CASE Interrupt
  BY <1>1 DEF Interrupt, chipVars
<1>2. CASE HandlerRead
  BY <1>2 DEF HandlerRead
<1>3. CASE HandlerWrite
  BY <1>3 DEF HandlerWrite, RestoredRegister
<1>4. CASE HandlerLeave
  BY <1>4 DEF HandlerLeave, chipVars
<1> QED BY <1>1, <1>2, <1>3, <1>4 DEF Handler

-----------------------------------------------------------------------------
(* Only the owner selects, and it selects what it is about to use.         *)
LEMMA SelectKeeps ==
  ASSUME IInv, NEW t \in Tasks, Select(t)
  PROVE  IInv'
<1> USE DEF IInv, Types, OwnerOnly, WaitersWait, SelectedIsKept
<1>1. owner = t /\ pc[t] \in Chip /\ handler = "out"
  BY DEF Select, Running, Chip
<1>2. /\ UNCHANGED <<pc, owner, waiting, handler>>
      /\ REG' = Register[pc[t]]
      /\ selected' = [selected EXCEPT ![t] = TRUE]
  BY DEF Select, irqVars, lockVars
<1>3. \A u \in Tasks : selected'[u] => u = t
  BY <1>1, <1>2
<1>4. SelectedIsKept'
  BY <1>1, <1>2, <1>3 DEF SelectedRegister
<1> QED BY <1>2, <1>4

(* An access ends what its Select began, and stays under the mutex or      *)
(* leaves the mutex to the task that has it.                               *)
LEMMA AccessKeeps ==
  ASSUME IInv, NEW t \in Tasks, NEW at \in Chip,
         NEW next \in Chip \cup {"unlock", "endless", "sem"},
         Access(t, at, next)
  PROVE  IInv'
<1> USE DEF IInv, Types, OwnerOnly, WaitersWait, SelectedIsKept
<1>1. /\ pc[t] \in Chip
      /\ pc' = [pc EXCEPT ![t] = next]
      /\ selected' = [selected EXCEPT ![t] = FALSE]
      /\ UNCHANGED <<owner, waiting, handler, last_io, REG>>
  BY DEF Access, irqVars, lockVars
<1>2. next \in Steps /\ "wait" \notin Chip
  BY ChipSteps DEF Steps, Chip
<1>3. Types' /\ OwnerOnly'
  BY <1>1, <1>2
<1>4. WaitersWait'
  BY <1>1, <1>2
<1>5. SelectedIsKept'
  BY <1>1 DEF SelectedRegister
<1> QED BY <1>3, <1>4, <1>5

(* OSMutexPend makes the caller the owner, or lets it wait.                *)
LEMMA LockKeeps ==
  ASSUME IInv, NEW t \in Tasks, Lock(t)
  PROVE  IInv'
<1> USE DEF IInv, Types, OwnerOnly, WaitersWait, SelectedIsKept
<1>1. pc[t] = "lock" /\ UNCHANGED <<selected, handler, last_io, REG>>
  BY DEF Lock, irqVars, chipVars
<1>2. ~selected[t] /\ {"lock", "wait"} \cap Chip = {}
  BY <1>1, ChipSteps
<1>3. CASE owner = None
  <2>1. owner' = t /\ pc' = [pc EXCEPT ![t] = Begin(t)] /\ UNCHANGED waiting
    BY <1>3 DEF Lock
  <2>2. None \notin Tasks
    BY DEF None, Tasks, Senders
  <2>3. Begin(t) \in Chip /\ Begin(t) \in Steps /\ t \notin waiting
    BY <1>1, BeginIsStep DEF Steps, Chip
  <2>4. Types'
    BY <1>1, <2>1, <2>3
  <2>5. OwnerOnly'
    <3>1. \A u \in Tasks : pc[u] \notin Chip \cup {"unlock", "endless"}
      BY <1>3, <2>2
    <3> QED BY <2>1, <3>1
  <2>6. WaitersWait'
    BY <2>1, <2>3
  <2>7. SelectedIsKept'
    BY <1>1, <1>2, <2>1 DEF SelectedRegister
  <2> QED BY <2>4, <2>5, <2>6, <2>7
<1>4. CASE owner # None
  <2>1. /\ waiting' = waiting \cup {t} /\ pc' = [pc EXCEPT ![t] = "wait"]
        /\ UNCHANGED owner
    BY <1>4 DEF Lock
  <2>2. Types'
    BY <1>1, <2>1 DEF Steps
  <2>3. OwnerOnly'
    BY <1>2, <2>1
  <2>4. WaitersWait'
    BY <2>1
  <2>5. SelectedIsKept'
    BY <1>1, <1>2, <2>1 DEF SelectedRegister
  <2> QED BY <2>2, <2>3, <2>4, <2>5
<1> QED BY <1>3, <1>4

(* The mutex passes from the caller to one that waits for it.              *)
LEMMA UnlockKeeps ==
  ASSUME IInv, NEW t \in Tasks, NEW next \in {"idle", "lock", "sem"},
         Unlock(t, next)
  PROVE  IInv'
<1> USE DEF IInv, Types, OwnerOnly, WaitersWait, SelectedIsKept
<1>1. /\ pc[t] = "unlock" /\ owner = t
      /\ UNCHANGED <<selected, handler, last_io, REG>>
  BY DEF Unlock, irqVars, chipVars
<1>2. /\ {"unlock", "idle", "lock", "sem", "wait"} \cap Chip = {}
      /\ {"idle", "lock", "sem"} \cap {"unlock", "endless"} = {}
      /\ next \in Steps
  BY ChipSteps DEF Steps
<1>3. ~selected[t] /\ \A u \in Tasks \ {t} : pc[u] \notin Chip \cup {"unlock", "endless"}
  BY <1>1, <1>2
<1>4. CASE waiting = {}
  <2>1. pc' = [pc EXCEPT ![t] = next] /\ waiting' = {}
    BY <1>4 DEF Unlock
  <2> QED BY <1>1, <1>2, <1>3, <2>1
<1>5. CASE waiting # {}
  <2> DEFINE u == Urgent(waiting)
  <2>1. u \in waiting /\ u \in Tasks
    BY <1>5, UrgentIsOne
  <2>2. /\ owner' = u /\ waiting' = waiting \ {u}
        /\ pc' = [pc EXCEPT ![t] = next, ![u] = Begin(u)]
    BY <1>5 DEF Unlock
  <2>3. u # t /\ Begin(u) \in Chip /\ Begin(u) \in Steps
    BY <1>1, <2>1, BeginIsStep DEF Steps, Chip
  <2> HIDE DEF u
  <2>4. Types' /\ OwnerOnly'
    BY <1>1, <1>2, <1>3, <2>1, <2>2, <2>3
  <2>5. WaitersWait'
    BY <1>1, <2>1, <2>2, <2>3
  <2>6. SelectedIsKept'
    BY <1>1, <1>3, <2>1, <2>2
  <2> QED BY <2>4, <2>5, <2>6
<1> QED BY <1>4, <1>5

-----------------------------------------------------------------------------
(* DM9000_SendPacket keeps the invariant, access by access.                *)
LEMMA SendKeeps ==
  ASSUME IInv, NEW t \in Senders, SendPacket(t)
  PROVE  IInv'
<1>0. t \in Tasks
  BY DEF Tasks
<1>1. CASE Lock(t)
  BY <1>0, <1>1, LockKeeps
<1>2. CASE Select(t)
  BY <1>0, <1>2, SelectKeeps
<1>3. CASE Mask(t)
  BY <1>0, <1>3, ChipSteps, AccessKeeps DEF Mask
<1>4. CASE Fill(t)
  BY <1>0, <1>4, ChipSteps, AccessKeeps DEF Fill
<1>5. CASE Start(t)
  BY <1>0, <1>5, ChipSteps, AccessKeeps DEF Start
<1>6. CASE Spin(t)
  BY <1>0, <1>6, ChipSteps, AccessKeeps DEF Spin
<1>7. CASE Clear(t)
  BY <1>0, <1>7, ChipSteps, AccessKeeps DEF Clear
<1>8. CASE Unmask(t)
  BY <1>0, <1>8, ChipSteps, AccessKeeps DEF Unmask
<1>9. CASE SendEnd(t)
  BY <1>0, <1>9, UnlockKeeps DEF SendEnd
<1> QED
  BY <1>1, <1>2, <1>3, <1>4, <1>5, <1>6, <1>7, <1>8, <1>9 DEF SendPacket

(* The input task goes from the semaphore to the mutex.                    *)
LEMMA PendKeeps ==
  ASSUME IInv, Pend
  PROVE  IInv'
<1> USE DEF IInv, Types, OwnerOnly, WaitersWait, SelectedIsKept
<1>1. /\ pc["input"] = "sem" /\ pc' = [pc EXCEPT !["input"] = "lock"]
      /\ UNCHANGED <<selected, owner, waiting, handler, last_io, REG>>
  BY DEF Pend, chipVars, irqVars, lockVars
<1>2. {"sem", "lock"} \cap Chip = {} /\ "lock" \in Steps /\ "input" \in Tasks
  BY ChipSteps DEF Steps, Tasks
<1>3. ~selected["input"]
  BY <1>1, <1>2
<1>4. Types' /\ OwnerOnly'
  BY <1>1, <1>2
<1>5. WaitersWait'
  BY <1>1
<1>6. SelectedIsKept'
  BY <1>1, <1>3 DEF SelectedRegister
<1> QED BY <1>4, <1>5, <1>6

(* So does ethernetif_input with DM9000_Receive_Packet.                    *)
LEMMA InputKeeps ==
  ASSUME IInv, Input
  PROVE  IInv'
<1>0. "input" \in Tasks
  BY DEF Tasks
<1>1. CASE Pend
  BY <1>1, PendKeeps
<1>2. CASE Lock("input")
  BY <1>0, <1>2, LockKeeps
<1>3. CASE Select("input")
  BY <1>0, <1>3, SelectKeeps
<1>4. CASE Probe
  <2> DEFINE next == IF sram = <<>> THEN "finish"
                     ELSE IF Head(sram) = "broken" THEN "stop" ELSE "take"
  <2>1. Access("input", "probe", next)
    BY <1>4 DEF Probe
  <2>2. "probe" \in Chip /\ next \in Chip
    BY ChipSteps
  <2> HIDE DEF next
  <2> QED BY <1>0, <2>1, <2>2, AccessKeeps
<1>5. CASE Take \/ TakeNoRoom
  <2> DEFINE next == IF Head(sram) = "bad" THEN "probe" ELSE "unlock"
  <2>1. Access("input", "take", next)
    BY <1>5 DEF Take, TakeNoRoom
  <2>2. "take" \in Chip /\ next \in Chip \cup {"unlock"}
    BY ChipSteps
  <2> HIDE DEF next
  <2> QED BY <1>0, <2>1, <2>2, AccessKeeps
<1>6. CASE TakeForEver
  BY <1>0, <1>6, ChipSteps, AccessKeeps DEF TakeForEver
<1>7. CASE Finish
  BY <1>0, <1>7, ChipSteps, AccessKeeps DEF Finish
<1>8. CASE Enable
  BY <1>0, <1>8, ChipSteps, AccessKeeps DEF Enable
<1>9. CASE Stop
  BY <1>0, <1>9, ChipSteps, AccessKeeps DEF Stop
<1>10. CASE Stopped
  BY <1>0, <1>10, ChipSteps, AccessKeeps DEF Stopped
<1>11. CASE ReceiveEnd
  BY <1>0, <1>11, UnlockKeeps DEF ReceiveEnd, AfterReceive
<1> QED
  BY <1>1, <1>2, <1>3, <1>4, <1>5, <1>6, <1>7, <1>8, <1>9, <1>10, <1>11 DEF Input

(* lwIP wants to send: a task that was idle asks for the mutex.            *)
LEMMA WantsKeeps ==
  ASSUME IInv, NEW t \in Senders, WantsToSend(t)
  PROVE  IInv'
<1> USE DEF IInv, Types, OwnerOnly, WaitersWait, SelectedIsKept
<1>1. /\ pc[t] = "idle" /\ pc' = [pc EXCEPT ![t] = "lock"]
      /\ UNCHANGED <<selected, owner, waiting, handler, last_io, REG>>
  BY DEF WantsToSend, chipVars, irqVars, lockVars
<1>2. {"idle", "lock"} \cap Chip = {} /\ "lock" \in Steps /\ t \in Tasks
  BY ChipSteps DEF Steps, Tasks
<1>3. ~selected[t]
  BY <1>1, <1>2
<1>4. Types' /\ OwnerOnly'
  BY <1>1, <1>2
<1>5. WaitersWait'
  BY <1>1
<1>6. SelectedIsKept'
  BY <1>1, <1>3 DEF SelectedRegister
<1> QED BY <1>4, <1>5, <1>6

(* Every step keeps the invariant.                                         *)
LEMMA NextKeeps ==
  ASSUME IInv, [Next]_vars
  PROVE  IInv'
<1>1. CASE Interrupt \/ Handler
  BY <1>1, HandlerKeeps
<1>2. CASE FrameArrives
  BY <1>2, Untouched DEF FrameArrives, irqVars, lockVars, taskVars
<1>3. CASE TransmitDone
  BY <1>3, Untouched DEF TransmitDone, irqVars, lockVars, taskVars
<1>4. CASE TaskStep
  BY <1>4, InputKeeps, SendKeeps DEF TaskStep
<1>5. CASE \E t \in Senders : WantsToSend(t)
  BY <1>5, WantsKeeps
<1>6. CASE UNCHANGED vars
  BY <1>6, Untouched DEF vars, chipVars, irqVars, lockVars, taskVars
<1> QED BY <1>1, <1>2, <1>3, <1>4, <1>5, <1>6 DEF Next

-----------------------------------------------------------------------------
(* Whoever is between OSMutexPend and OSMutexPost owns dm9000lock, and the *)
(* register it selected is kept for it, for any number of frames and sends.*)
THEOREM ChipInvariant == Spec => []IInv
<1>1. Init => IInv
  BY InitIInv
<1>2. IInv /\ [Next]_vars => IInv'
  BY NextKeeps
<1> QED BY <1>1, <1>2, PTL DEF Spec

(* Every access of DM9000_SendPacket and DM9000_Receive_Packet meets the   *)
(* register it selected, whatever interrupt or task came between.          *)
THEOREM ChipRegExact == Spec => []RegExact
<1>1. IInv => RegExact
  BY DEF IInv, SelectedIsKept, SelectedRegister, RegExact, Running
<1> QED BY <1>1, ChipInvariant, PTL

(* dm9000lock: at most one task uses the chip.                             *)
THEOREM ChipExclusive ==
  Spec => [](\A t, u \in Tasks :
               pc[t] \in Chip /\ pc[u] \in Chip => t = u)
<1>1. IInv => \A t, u \in Tasks : pc[t] \in Chip /\ pc[u] \in Chip => t = u
  BY DEF IInv, OwnerOnly
<1> QED BY <1>1, ChipInvariant, PTL

-----------------------------------------------------------------------------
(* Priority inheritance.  A task that waits has an owner to wait for, which*)
(* can run unless the driver is dead, and which is at least as urgent: by  *)
(* its own priority or because it was raised.                              *)
OwnerRuns ==
  owner # None => owner \in Tasks /\ (pc[owner] \in Chip \cup {"unlock"} \/ Dead)

WaitersHaveOwner == owner = None => waiting = {}

OwnerUrgent == ~raised => \A w \in waiting : Prio[owner] <= Prio[w]

StoppedIsDead == pc["input"] = "stopped" => ~RXEN

Inheritance == OwnerRuns /\ WaitersHaveOwner /\ OwnerUrgent /\ StoppedIsDead

(* The priorities are numbers, and that of the mutex is above them all.    *)
LEMMA PrioIsNat == \A t \in Tasks : Prio[t] \in Nat /\ PIP < Prio[t]
PROOF BY DEF Tasks, Senders, Prio, PIP

(* When the tasks start nobody waits.                                      *)
LEMMA InitInherits == Init => Inheritance
PROOF BY DEF Init, Inheritance, OwnerRuns, WaitersHaveOwner, OwnerUrgent, StoppedIsDead, Tasks

(* Steps that change neither the tasks nor the mutex.                      *)
LEMMA UntouchedInherits ==
  ASSUME Inheritance, UNCHANGED <<pc, owner, waiting, raised, RXEN>>
  PROVE  Inheritance'
PROOF BY DEF Inheritance, OwnerRuns, WaitersHaveOwner, OwnerUrgent, StoppedIsDead, Dead

(* An access under the mutex.                                              *)
LEMMA AccessInherits ==
  ASSUME IInv, Inheritance, NEW t \in Tasks, NEW at \in Chip,
         NEW next \in (Chip \ {"stopped"}) \cup {"unlock"},
         Access(t, at, next), UNCHANGED RXEN
  PROVE  Inheritance'
<1> USE DEF Inheritance, OwnerRuns, WaitersHaveOwner, OwnerUrgent, StoppedIsDead
<1>1. /\ pc[t] \in Chip /\ pc \in [Tasks -> Steps] /\ owner = t
      /\ pc' = [pc EXCEPT ![t] = next]
      /\ UNCHANGED <<owner, waiting, raised>>
  BY DEF Access, lockVars, IInv, Types, OwnerOnly
<1>2. OwnerRuns'
  BY <1>1
<1>3. StoppedIsDead'
  BY <1>1, ChipSteps DEF Tasks
<1> QED BY <1>1, <1>2, <1>3

(* The two accesses after which the mutex is not given back.               *)
LEMMA DyingInherits ==
  ASSUME IInv, Inheritance, Stop \/ Stopped \/ TakeForEver
  PROVE  Inheritance'
<1> USE DEF Inheritance, OwnerRuns, WaitersHaveOwner, OwnerUrgent, StoppedIsDead
<1>1. /\ owner \in Tasks /\ UNCHANGED <<owner, waiting, raised>>
      /\ pc \in [Tasks -> Steps] /\ "input" \in Tasks
  <2>1. pc["input"] \in Chip
    BY ChipSteps DEF Stop, Stopped, TakeForEver, Access
  <2> QED BY <2>1 DEF Stop, Stopped, TakeForEver, Access, lockVars, IInv, Types, OwnerOnly, Tasks
<1>2. Dead' /\ StoppedIsDead'
  <2>1. CASE Stop
    BY <2>1 DEF Stop, Dead
  <2>2. CASE Stopped
    BY <2>2 DEF Stopped, Access, Dead
  <2>3. CASE TakeForEver
    BY <1>1, <2>3 DEF TakeForEver, Access, Dead
  <2> QED BY <2>1, <2>2, <2>3
<1> QED BY <1>1, <1>2

(* OSMutexPend raises an owner that is less urgent than the caller.        *)
LEMMA LockInherits ==
  ASSUME IInv, Inheritance, NEW t \in Tasks, Lock(t)
  PROVE  Inheritance'
<1> USE DEF Inheritance, OwnerRuns, WaitersHaveOwner, OwnerUrgent, StoppedIsDead
<1>1. /\ pc[t] = "lock" /\ pc \in [Tasks -> Steps] /\ UNCHANGED RXEN
      /\ waiting \subseteq Tasks /\ "input" \in Tasks
  BY DEF Lock, chipVars, IInv, Types, Tasks
<1>2. {"lock", "wait"} \cap (Chip \cup {"unlock"}) = {} /\ Begin(t) # "stopped"
  BY ChipSteps DEF Begin
<1>3. CASE owner = None
  <2>1. /\ owner' = t /\ pc' = [pc EXCEPT ![t] = Begin(t)]
        /\ UNCHANGED <<waiting, raised>> /\ waiting = {}
    BY <1>3 DEF Lock
  <2>2. OwnerRuns' /\ StoppedIsDead'
    BY <1>1, <1>2, <2>1, BeginIsStep
  <2>3. WaitersHaveOwner' /\ OwnerUrgent'
    BY <2>1
  <2> QED BY <2>2, <2>3
<1>4. CASE owner # None
  <2>1. /\ waiting' = waiting \cup {t} /\ pc' = [pc EXCEPT ![t] = "wait"]
        /\ raised' = Raises(t) /\ UNCHANGED owner
    BY <1>4 DEF Lock
  <2>2. Dead => Dead'
    BY <1>1, <2>1 DEF Dead
  <2>3. OwnerRuns'
    BY <1>1, <1>2, <1>4, <2>1, <2>2
  <2>4. OwnerUrgent'
    <3>1. owner \in Tasks
      BY <1>4
    <3>2. ASSUME ~raised'
          PROVE  ~raised /\ Prio[owner] <= Prio[t]
      <4>1. ~raised /\ ~(Prio[t] < Prio[owner])
        BY <3>2, <2>1, Zenon DEF Raises
      <4>2. Prio[t] \in Nat /\ Prio[owner] \in Nat
        BY <3>1, PrioIsNat
      <4> QED BY <4>1, <4>2
    <3> QED BY <2>1, <3>2
  <2>5. WaitersHaveOwner' /\ StoppedIsDead'
    BY <1>1, <1>4, <2>1
  <2> QED BY <2>3, <2>4, <2>5
<1> QED BY <1>3, <1>4

(* OSMutexPost hands the mutex to the most urgent one.                     *)
LEMMA UnlockInherits ==
  ASSUME IInv, Inheritance, NEW t \in Tasks, NEW next \in {"idle", "lock", "sem"},
         Unlock(t, next)
  PROVE  Inheritance'
<1> USE DEF Inheritance, OwnerRuns, WaitersHaveOwner, OwnerUrgent, StoppedIsDead
<1>1. /\ pc[t] = "unlock" /\ pc \in [Tasks -> Steps] /\ UNCHANGED RXEN
      /\ waiting \subseteq Tasks /\ raised' = FALSE
  BY DEF Unlock, chipVars, IInv, Types
<1>2. CASE waiting = {}
  <2>1. owner' = None /\ waiting' = {} /\ pc' = [pc EXCEPT ![t] = next]
    BY <1>2 DEF Unlock
  <2> QED BY <1>1, <2>1
<1>3. CASE waiting # {}
  <2> DEFINE u == Urgent(waiting)
  <2>1. u \in waiting /\ u \in Tasks /\ \A w \in waiting : Prio[u] <= Prio[w]
    BY <1>1, <1>3, UrgentIsOne
  <2>2. /\ owner' = u /\ waiting' = waiting \ {u}
        /\ pc' = [pc EXCEPT ![t] = next, ![u] = Begin(u)]
    BY <1>3 DEF Unlock
  <2>3. Begin(u) \in Chip /\ Begin(u) # "stopped" /\ u # None
    BY <2>1, BeginIsStep DEF Begin, None, Tasks, Senders
  <2> HIDE DEF u
  <2>4. OwnerRuns'
    BY <1>1, <2>1, <2>2, <2>3
  <2>5. WaitersHaveOwner' /\ OwnerUrgent'
    BY <2>1, <2>2, <2>3
  <2>6. StoppedIsDead'
    <3>1. next # "stopped" /\ "input" \in Tasks
      BY DEF Tasks
    <3>2. pc'["input"] = "stopped" => pc["input"] = "stopped"
      BY <1>1, <2>1, <2>2, <2>3, <3>1
    <3> QED BY <1>1, <3>2
  <2> QED BY <2>4, <2>5, <2>6
<1> QED BY <1>2, <1>3

(* A task asks for the mutex: it was not the owner of a live driver.       *)
LEMMA AskInherits ==
  ASSUME IInv, Inheritance, NEW t \in Tasks, pc[t] \in {"idle", "sem"},
         pc' = [pc EXCEPT ![t] = "lock"], UNCHANGED <<owner, waiting, raised, RXEN>>
  PROVE  Inheritance'
<1> USE DEF Inheritance, OwnerRuns, WaitersHaveOwner, OwnerUrgent, StoppedIsDead
<1>1. pc \in [Tasks -> Steps] /\ {"idle", "sem"} \cap (Chip \cup {"unlock"}) = {}
  BY ChipSteps DEF IInv, Types
<1>2. Dead => Dead'
  BY <1>1 DEF Dead
<1>3. OwnerRuns'
  BY <1>1, <1>2
<1>4. StoppedIsDead'
  BY <1>1
<1> QED BY <1>3, <1>4

(* DM9000_SendPacket keeps the inheritance.                                *)
LEMMA SendInherits ==
  ASSUME IInv, Inheritance, NEW t \in Senders, SendPacket(t)
  PROVE  Inheritance'
<1>0. t \in Tasks
  BY DEF Tasks
<1>1. CASE Lock(t)
  BY <1>0, <1>1, LockInherits
<1>2. CASE Select(t)
  BY <1>2, UntouchedInherits DEF Select, lockVars
<1>3. CASE Mask(t)
  BY <1>0, <1>3, ChipSteps, AccessInherits DEF Mask
<1>4. CASE Fill(t)
  BY <1>0, <1>4, ChipSteps, AccessInherits DEF Fill
<1>5. CASE Start(t)
  BY <1>0, <1>5, ChipSteps, AccessInherits DEF Start
<1>6. CASE Spin(t)
  BY <1>0, <1>6, ChipSteps, AccessInherits DEF Spin
<1>7. CASE Clear(t)
  BY <1>0, <1>7, ChipSteps, AccessInherits DEF Clear
<1>8. CASE Unmask(t)
  BY <1>0, <1>8, ChipSteps, AccessInherits DEF Unmask
<1>9. CASE SendEnd(t)
  BY <1>0, <1>9, UnlockInherits DEF SendEnd
<1> QED
  BY <1>1, <1>2, <1>3, <1>4, <1>5, <1>6, <1>7, <1>8, <1>9 DEF SendPacket

(* So does ethernetif_input with DM9000_Receive_Packet.                    *)
LEMMA InputInherits ==
  ASSUME IInv, Inheritance, Input
  PROVE  Inheritance'
<1>0. "input" \in Tasks
  BY DEF Tasks
<1>1. CASE Pend
  BY <1>0, <1>1, AskInherits DEF Pend, chipVars, lockVars
<1>2. CASE Lock("input")
  BY <1>0, <1>2, LockInherits
<1>3. CASE Select("input")
  BY <1>3, UntouchedInherits DEF Select, lockVars
<1>4. CASE Probe
  <2> DEFINE next == IF sram = <<>> THEN "finish"
                     ELSE IF Head(sram) = "broken" THEN "stop" ELSE "take"
  <2>1. Access("input", "probe", next) /\ UNCHANGED RXEN
    BY <1>4 DEF Probe
  <2>2. "probe" \in Chip /\ next \in Chip \ {"stopped"}
    BY ChipSteps
  <2> HIDE DEF next
  <2> QED BY <1>0, <2>1, <2>2, AccessInherits
<1>5. CASE Take \/ TakeNoRoom
  <2> DEFINE next == IF Head(sram) = "bad" THEN "probe" ELSE "unlock"
  <2>1. Access("input", "take", next) /\ UNCHANGED RXEN
    BY <1>5 DEF Take, TakeNoRoom
  <2>2. "take" \in Chip /\ next \in (Chip \ {"stopped"}) \cup {"unlock"}
    BY ChipSteps
  <2> HIDE DEF next
  <2> QED BY <1>0, <2>1, <2>2, AccessInherits
<1>6. CASE TakeForEver \/ Stop \/ Stopped
  BY <1>6, DyingInherits
<1>7. CASE Finish
  BY <1>0, <1>7, ChipSteps, AccessInherits DEF Finish
<1>8. CASE Enable
  BY <1>0, <1>8, ChipSteps, AccessInherits DEF Enable
<1>9. CASE ReceiveEnd
  BY <1>0, <1>9, UnlockInherits DEF ReceiveEnd, AfterReceive
<1> QED
  BY <1>1, <1>2, <1>3, <1>4, <1>5, <1>6, <1>7, <1>8, <1>9 DEF Input

(* Every step keeps the inheritance.                                       *)
LEMMA NextInherits ==
  ASSUME IInv, Inheritance, [Next]_vars
  PROVE  Inheritance'
<1>1. CASE Interrupt
  BY <1>1, UntouchedInherits DEF Interrupt, chipVars, lockVars, taskVars
<1>2. CASE Handler
  BY <1>2, UntouchedInherits
     DEF Handler, HandlerRead, HandlerWrite, HandlerLeave, chipVars, lockVars, taskVars
<1>3. CASE FrameArrives \/ TransmitDone
  BY <1>3, UntouchedInherits DEF FrameArrives, TransmitDone, lockVars, taskVars
<1>4. CASE TaskStep
  BY <1>4, InputInherits, SendInherits DEF TaskStep
<1>5. CASE \E t \in Senders : WantsToSend(t)
  BY <1>5, AskInherits DEF WantsToSend, chipVars, lockVars, Tasks
<1>6. CASE UNCHANGED vars
  BY <1>6, UntouchedInherits DEF vars, chipVars, lockVars, taskVars
<1> QED BY <1>1, <1>2, <1>3, <1>4, <1>5, <1>6 DEF Next

(* While w waits, a less urgent task that does not own the mutex does not  *)
(* have the processor: the owner would have it before.                     *)
LEMMA OwnerFirst ==
  ASSUME IInv, Inheritance, ~Dead, NEW w \in waiting, NEW t \in Tasks \ {owner},
         Prio[w] < Prio[t]
  PROVE  ~Running(t)
<1>1. /\ owner \in Tasks /\ pc[owner] \in Chip \cup {"unlock"}
      /\ w \in Tasks /\ t \in Tasks /\ t # owner
  BY DEF Inheritance, OwnerRuns, WaitersHaveOwner, IInv, Types
<1>2. Ready(owner)
  BY <1>1, ChipSteps DEF Ready
<1>3. Effective(t) = Prio[t]
  BY <1>1 DEF Effective
<1>4. CASE raised
  <2>1. Effective(owner) = PIP
    BY <1>4 DEF Effective
  <2>2. ~(Prio[t] <= PIP)
    BY <1>1, PrioIsNat DEF PIP
  <2> QED BY <1>1, <1>2, <1>3, <2>1, <2>2 DEF Running
<1>5. CASE ~raised
  <2>1. Effective(owner) = Prio[owner] /\ Prio[owner] <= Prio[w]
    BY <1>5 DEF Effective, Inheritance, OwnerUrgent
  <2>2. ~(Prio[t] <= Prio[owner])
    BY <1>1, <2>1, PrioIsNat
  <2> QED BY <1>1, <1>2, <1>3, <2>1, <2>2 DEF Running
<1> QED BY <1>4, <1>5

(* The step leaves task u where it is.                                     *)
Spares(u) ==
  pc'[u] = pc[u] /\ selected'[u] = selected[u]

(* A task that does not run stays where it is, unless it gets the mutex.   *)
LEMMA StepSpares ==
  ASSUME IInv, NEW u \in Tasks, ~Running(u), TaskStep,
         waiting # {} => u # Urgent(waiting)
  PROVE  Spares(u)
<1> USE DEF Spares
<1>0. pc \in [Tasks -> Steps] /\ selected \in [Tasks -> BOOLEAN]
  BY DEF IInv, Types
<1>1. ASSUME NEW t \in Tasks, NEW at, NEW next, Access(t, at, next)
      PROVE  Spares(u)
  <2>1. u # t
    BY <1>1 DEF Access
  <2> QED BY <1>0, <1>1, <2>1 DEF Access
<1>2. ASSUME NEW t \in Tasks, Lock(t)
      PROVE  Spares(u)
  <2>1. u # t
    BY <1>2 DEF Lock
  <2>2. /\ pc' = [pc EXCEPT ![t] = Begin(t)] \/ pc' = [pc EXCEPT ![t] = "wait"]
        /\ UNCHANGED selected
    BY <1>2 DEF Lock
  <2> QED BY <1>0, <2>1, <2>2
<1>3. ASSUME NEW t \in Tasks, NEW next, Unlock(t, next)
      PROVE  Spares(u)
  <2>1. u # t /\ UNCHANGED selected
    BY <1>3 DEF Unlock
  <2>2. CASE waiting = {}
    <3>1. pc' = [pc EXCEPT ![t] = next]
      BY <1>3, <2>2 DEF Unlock
    <3> QED BY <1>0, <2>1, <3>1
  <2>3. CASE waiting # {}
    <3> DEFINE v == Urgent(waiting)
    <3>1. pc' = [pc EXCEPT ![t] = next, ![v] = Begin(v)]
      BY <1>3, <2>3 DEF Unlock
    <3>2. u # v
      BY <2>3
    <3> HIDE DEF v
    <3> QED BY <1>0, <2>1, <3>1, <3>2
  <2> QED BY <2>2, <2>3
<1>4. ASSUME NEW t \in Tasks, Select(t)
      PROVE  Spares(u)
  <2>1. u # t
    BY <1>4 DEF Select
  <2> QED BY <1>0, <1>4, <2>1 DEF Select
<1>5. ASSUME NEW t \in Senders, SendPacket(t)
      PROVE  Spares(u)
  <2>1. t \in Tasks
    BY DEF Tasks
  <2>2. CASE Lock(t) \/ Select(t)
    BY <1>2, <1>4, <2>1, <2>2
  <2>3. CASE Mask(t) \/ Fill(t) \/ Start(t) \/ Spin(t) \/ Clear(t) \/ Unmask(t)
    BY <1>1, <2>1, <2>3 DEF Mask, Fill, Start, Spin, Clear, Unmask
  <2>4. CASE SendEnd(t)
    BY <1>3, <2>1, <2>4 DEF SendEnd
  <2> QED BY <1>5, <2>2, <2>3, <2>4 DEF SendPacket
<1>6. ASSUME Input
      PROVE  Spares(u)
  <2>1. "input" \in Tasks
    BY DEF Tasks
  <2>2. CASE Pend
    BY <1>0, <2>2 DEF Pend
  <2>3. CASE Lock("input") \/ Select("input")
    BY <1>2, <1>4, <2>1, <2>3
  <2>4. CASE Probe \/ Take \/ TakeNoRoom \/ TakeForEver
    BY <1>1, <2>1, <2>4 DEF Probe, Take, TakeNoRoom, TakeForEver
  <2>5. CASE Finish \/ Enable \/ Stop \/ Stopped
    BY <1>1, <2>1, <2>5 DEF Finish, Enable, Stop, Stopped
  <2>6. CASE ReceiveEnd
    BY <1>3, <2>1, <2>6 DEF ReceiveEnd
  <2> QED BY <1>6, <2>2, <2>3, <2>4, <2>5, <2>6 DEF Input
<1> QED BY <1>5, <1>6 DEF TaskStep

(* A less urgent task than the waiting one stays where it is.              *)
LEMMA NextSpares ==
  ASSUME IInv, Inheritance, [Next]_vars, ~Dead,
         NEW w \in waiting, NEW t \in Tasks \ {owner},
         Prio[t] > Prio[w], pc[t] # "idle"
  PROVE  Spares(t)
<1> USE DEF Spares
<1>0. w \in Tasks /\ waiting \subseteq Tasks /\ pc \in [Tasks -> Steps]
  BY DEF IInv, Types
<1>1. ~Running(t)
  BY <1>0, OwnerFirst, PrioIsNat
<1>2. CASE TaskStep
  <2>1. Prio[Urgent(waiting)] <= Prio[w] /\ Urgent(waiting) \in Tasks
    BY <1>0, UrgentIsOne
  <2>2. t # Urgent(waiting)
    BY <1>0, <2>1, PrioIsNat
  <2> QED BY <1>1, <1>2, <2>2, StepSpares
<1>3. CASE \E u \in Senders : WantsToSend(u)
  BY <1>0, <1>3 DEF WantsToSend
<1>4. CASE FrameArrives \/ TransmitDone \/ Interrupt
  BY <1>4 DEF FrameArrives, TransmitDone, Interrupt, taskVars
<1>5. CASE Handler
  BY <1>5 DEF Handler, HandlerRead, HandlerWrite, HandlerLeave, taskVars
<1>6. CASE UNCHANGED vars
  BY <1>6 DEF vars, taskVars
<1> QED BY <1>2, <1>3, <1>4, <1>5, <1>6 DEF Next

(* While a task waits for dm9000lock and the driver lives, no less urgent  *)
(* task but the owner takes a step: the owner is raised, or was at least as*)
(* urgent, and OSMutexPost gives the mutex to the most urgent one.         *)
THEOREM ChipNoInversion == Spec => NoInversion
<1>1. Init => IInv /\ Inheritance
  BY InitIInv, InitInherits
<1>2. IInv /\ Inheritance /\ [Next]_vars => IInv' /\ Inheritance'
  BY NextKeeps, NextInherits
<1>3. IInv /\ Inheritance /\ [Next]_vars =>
        [~Dead => \A w \in waiting, t \in Tasks \ {owner} :
                    Prio[t] > Prio[w] /\ pc[t] # "idle" =>
                      pc'[t] = pc[t] /\ selected'[t] = selected[t]]_vars
  BY NextSpares DEF Spares
<1> QED BY <1>1, <1>2, <1>3, PTL DEF Spec, NoInversion
=============================================================================

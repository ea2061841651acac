------------------------------ MODULE NetInput ------------------------------
(***************************************************************************)
(* The DM9000 Ethernet chip between its interrupt handler and the three    *)
(* tasks that use it: DM9000_SendPacket, called by tcpip_thread and by     *)
(* lwip_dhcp_task, and DM9000_Receive_Packet, called by the input task     *)
(* (dm9000.c, ethernetif.c), with the counting semaphore dm9000input and   *)
(* the mutex dm9000lock of uC/OS-II.                                       *)
(*                                                                         *)
(* The chip has two addresses: a write to one selects a register, which is *)
(* then read or written at the other.  Between the two an interrupt may    *)
(* come, and a task of higher priority may run.  The processor runs the    *)
(* ready task of the highest priority, interrupts before any task.         *)
(*                                                                         *)
(* What is in a frame, and what lwIP does with it, is left out, and with   *)
(* it the reset for a frame that is too long: DM9000_Init sets RCR_DIS_LONG*)
(* and the chip drops such frames itself.                                  *)
(***************************************************************************)
EXTENDS Naturals, Sequences, FiniteSets

CONSTANTS
  MaxFrames, (* bound: frames that arrive        *)
  MaxSends   (* bound: frames each sender sends  *)

ASSUME NetInputAssumption == MaxFrames \in Nat /\ MaxSends \in Nat

VARIABLES
  (* DM9000 *)
  REG,      (* the register selected last                                  *)
  PRI,      (* bit PRI of IMR: a received frame pulls INT low              *)
  ISR,      (* bits of the interrupt status                                *)
  RXEN,     (* bit RXEN of RCR                                             *)
  sram,     (* frames received and not yet read                            *)
  sending,  (* a frame is on its way out                                   *)
  (* EXTI9_5_IRQHandler and DMA9000_ISRHandler *)
  latched,  (* the falling edge of INT in EXTI->PR                         *)
  handler,  (* "out", "test" at the while, "write" before clearing         *)
  last_io,
  int_status,
  (* uC/OS-II *)
  dm9000input, (* count of the semaphore                                   *)
  owner,    (* who holds dm9000lock                                        *)
  waiting,  (* who waits for it                                            *)
  raised,   (* the owner runs at the priority of the mutex                 *)
  (* tasks *)
  pc,       (* where each task is                                          *)
  selected, (* it has selected the register it is about to use             *)
  got,      (* the input task has a frame for lwIP                         *)
  (* history and bounds *)
  left,     (* a frame found no pbuf, no interrupt was signalled since     *)
  arrived,
  sent

chipVars == <<REG, PRI, ISR, RXEN, sram, sending>>
irqVars  == <<handler, last_io, int_status>>
lockVars == <<owner, waiting, raised>>
taskVars == <<pc, selected, got>>
ends     == <<left, arrived, sent>>
vars == <<chipVars, latched, irqVars, dm9000input, lockVars, taskVars, ends>>

Senders == {"tcpip", "dhcp"}
Tasks   == Senders \cup {"input"}
None    == "none"

(* TCPIP_THREAD_PRIO, LWIP_DM9000_INPUT_TASK_PRIO, LWIP_DHCP_TASK_PRIO and *)
(* the priority given to the mutex: smaller is more urgent.                *)
Prio == [tcpip |-> 5, input |-> 6, dhcp |-> 7]
PIP  == 2

(* A received frame: a sound one, one with an error in its status, one     *)
(* whose first byte is neither 0 nor 1.                                    *)
Frames == {"good", "bad", "broken"}

(* The register each step uses.                                            *)
Register ==
  [mask |-> "IMR", fill |-> "MWCMD", start |-> "TCR", spin |-> "ISR",
   clear |-> "ISR", unmask |-> "IMR",
   probe |-> "MRCMDX", take |-> "MRCMD", finish |-> "ISR", enable |-> "IMR",
   stop |-> "RCR", stopped |-> "ISR"]

(* The first step of task t once it holds the mutex.                       *)
Begin(t) == IF t = "input" THEN "probe" ELSE "mask"

IntLow == PRI /\ "PRS" \in ISR

(* EXTI latches the falling edge of INT.                                   *)
Edge == latched' = (latched \/ (~IntLow /\ IntLow'))

-----------------------------------------------------------------------------
(* The start of the tasks: DM9000_Init has enabled the receive interrupt.  *)
Init ==
  /\ REG = "IMR" /\ PRI = TRUE /\ ISR = {} /\ RXEN = TRUE
  /\ sram = <<>> /\ sending = FALSE
  /\ latched = FALSE /\ handler = "out" /\ last_io = "IMR" /\ int_status = {}
  /\ dm9000input = 0 /\ owner = None /\ waiting = {} /\ raised = FALSE
  /\ pc = [t \in Tasks |-> IF t = "input" THEN "sem" ELSE "idle"]
  /\ selected = [t \in Tasks |-> FALSE]
  /\ got = FALSE
  /\ left = FALSE
  /\ arrived = 0
  /\ sent = [t \in Senders |-> 0]

-----------------------------------------------------------------------------
(* The chip.                                                               *)

FrameArrives ==
  /\ RXEN
  /\ arrived < MaxFrames
  /\ arrived' = arrived + 1
  /\ \E f \in Frames : sram' = Append(sram, f)
  /\ ISR' = ISR \cup {"PRS"}
  /\ UNCHANGED <<REG, PRI, RXEN, sending, irqVars, dm9000input, lockVars,
                 taskVars, left, sent>>

TransmitDone ==
  /\ sending
  /\ sending' = FALSE
  /\ ISR' = ISR \cup {"PTS"}
  /\ UNCHANGED <<REG, PRI, RXEN, sram, irqVars, dm9000input, lockVars,
                 taskVars, ends>>

-----------------------------------------------------------------------------
(* The interrupt.                                                          *)

(* EXTI9_5_IRQHandler: EXTI->PR = 1<<6.                                    *)
Interrupt ==
  /\ latched /\ handler = "out"
  /\ latched' = FALSE
  /\ handler' = "test"
  /\ UNCHANGED <<chipVars, last_io, int_status, dm9000input, lockVars, taskVars, ends>>

(* DMA9000_ISRHandler: the register a task has selected is kept.           *)
HandlerRead ==
  /\ handler = "test" /\ IntLow
  /\ handler' = "write"
  /\ last_io' = REG
  /\ REG' = "ISR"
  /\ int_status' = ISR
  /\ UNCHANGED <<PRI, ISR, RXEN, sram, sending, dm9000input, lockVars, taskVars, ends>>

(* Mutant: the register stays the one the handler used last.               *)
ForgottenRegister == REG
RestoredRegister == last_io

HandlerWrite ==
  /\ handler = "write"
  /\ handler' = "test"
  /\ ISR' = ISR \ int_status
  /\ dm9000input' = dm9000input + (IF "PRS" \in int_status THEN 1 ELSE 0)
  /\ left' = (left /\ "PRS" \notin int_status)
  /\ REG' = RestoredRegister
  /\ UNCHANGED <<PRI, RXEN, sram, sending, last_io, int_status, lockVars, taskVars,
                 arrived, sent>>

HandlerLeave ==
  /\ handler = "test" /\ ~IntLow
  /\ handler' = "out"
  /\ UNCHANGED <<chipVars, last_io, int_status, dm9000input, lockVars, taskVars, ends>>

Handler == HandlerRead \/ HandlerWrite \/ HandlerLeave

-----------------------------------------------------------------------------
(* uC/OS-II                                                                *)

Ready(t) ==
  /\ pc[t] \notin {"idle", "wait"}
  /\ pc[t] = "sem" => dm9000input > 0

Effective(t) == IF raised /\ t = owner THEN PIP ELSE Prio[t]

Running(t) ==
  /\ ~latched /\ handler = "out"
  /\ Ready(t)
  /\ \A u \in Tasks : Ready(u) => Effective(t) <= Effective(u)

(* Mutant: a mutex without priority inheritance.                           *)
NeverRaised(t) == FALSE

(* OSMutexPend raises an owner that is less urgent than the caller.        *)
Raises(t) == raised \/ Prio[t] < Prio[owner]

(* OSMutexPend with timeout 0.  The mutex does not nest: an owner that     *)
(* asks again waits for itself.                                            *)
Lock(t) ==
  /\ Running(t)
  /\ pc[t] = "lock"
  /\ IF owner = None
     THEN /\ owner' = t
          /\ pc' = [pc EXCEPT ![t] = Begin(t)]
          /\ UNCHANGED <<waiting, raised>>
     ELSE /\ waiting' = waiting \cup {t}
          /\ pc' = [pc EXCEPT ![t] = "wait"]
          /\ raised' = Raises(t)
          /\ UNCHANGED owner
  /\ UNCHANGED <<chipVars, irqVars, dm9000input, selected, got, ends>>

Urgent(S) == CHOOSE t \in S : \A u \in S : Prio[t] <= Prio[u]

(* OSMutexPost: the most urgent of those waiting is the next owner.  next  *)
(* is where the caller goes on.                                            *)
Unlock(t, next) ==
  /\ Running(t)
  /\ pc[t] = "unlock"
  /\ raised' = FALSE
  /\ IF waiting = {}
     THEN /\ owner' = None
          /\ pc' = [pc EXCEPT ![t] = next]
          /\ UNCHANGED waiting
     ELSE LET u == Urgent(waiting) IN
          /\ owner' = u
          /\ waiting' = waiting \ {u}
          /\ pc' = [pc EXCEPT ![t] = next, ![u] = Begin(u)]
  /\ UNCHANGED <<chipVars, irqVars, dm9000input, selected>>

-----------------------------------------------------------------------------
(* The tasks.  DM9000_ReadReg and DM9000_WriteReg are Select and an Access.*)

Select(t) ==
  /\ Running(t)
  /\ pc[t] \in DOMAIN Register
  /\ ~selected[t]
  /\ REG' = Register[pc[t]]
  /\ selected' = [selected EXCEPT ![t] = TRUE]
  /\ UNCHANGED <<PRI, ISR, RXEN, sram, sending, irqVars, dm9000input, lockVars,
                 pc, got, ends>>

(* The second half of the step at; the task goes on at next.               *)
Access(t, at, next) ==
  /\ Running(t)
  /\ pc[t] = at
  /\ selected[t]
  /\ selected' = [selected EXCEPT ![t] = FALSE]
  /\ pc' = [pc EXCEPT ![t] = next]
  /\ UNCHANGED <<REG, irqVars, dm9000input, lockVars, arrived, sent>>

(* lwIP has a frame to send: a timer, an answer, a message of the client.  *)
WantsToSend(t) ==
  /\ pc[t] = "idle"
  /\ sent[t] < MaxSends
  /\ sent' = [sent EXCEPT ![t] = @ + 1]
  /\ pc' = [pc EXCEPT ![t] = "lock"]
  /\ UNCHANGED <<chipVars, irqVars, dm9000input, lockVars, selected, got, left, arrived>>

(* Mutants: the interrupt is not masked; the end of a send, or of a        *)
(* reception, clears every bit.                                            *)
MaskedNothing == PRI
ClearedAll == {}

MaskedPRI == FALSE
WithoutPTS == ISR \ {"PTS"}

(* DM9000_SendPacket                                                       *)
Mask(t) ==
  /\ Access(t, "mask", "fill")
  /\ PRI' = MaskedPRI
  /\ UNCHANGED <<ISR, RXEN, sram, sending, got, left>>

Fill(t) ==
  /\ Access(t, "fill", "start")
  /\ UNCHANGED <<PRI, ISR, RXEN, sram, sending, got, left>>

Start(t) ==
  /\ Access(t, "start", "spin")
  /\ sending' = TRUE
  /\ UNCHANGED <<PRI, ISR, RXEN, sram, got, left>>

Spin(t) ==
  /\ Access(t, "spin", IF "PTS" \in ISR THEN "clear" ELSE "spin")
  /\ UNCHANGED <<PRI, ISR, RXEN, sram, sending, got, left>>

Clear(t) ==
  /\ Access(t, "clear", "unmask")
  /\ ISR' = WithoutPTS
  /\ UNCHANGED <<PRI, RXEN, sram, sending, got, left>>

Unmask(t) ==
  /\ Access(t, "unmask", "unlock")
  /\ PRI' = TRUE
  /\ UNCHANGED <<ISR, RXEN, sram, sending, got, left>>

SendEnd(t) ==
  /\ Unlock(t, "idle")
  /\ UNCHANGED <<got, ends>>

SendPacket(t) ==
  \/ Lock(t) \/ Select(t) \/ Mask(t) \/ Fill(t) \/ Start(t) \/ Spin(t)
  \/ Clear(t) \/ Unmask(t) \/ SendEnd(t)

(* ethernetif_input waits for a frame.                                     *)
Pend ==
  /\ Running("input")
  /\ pc["input"] = "sem"
  /\ dm9000input' = dm9000input - 1
  /\ pc' = [pc EXCEPT !["input"] = "lock"]
  /\ UNCHANGED <<chipVars, irqVars, lockVars, selected, got, ends>>

(* DM9000_Receive_Packet: the first byte of the next frame, read twice.    *)
Probe ==
  /\ Access("input", "probe",
            IF sram = <<>> THEN "finish"
            ELSE IF Head(sram) = "broken" THEN "stop" ELSE "take")
  /\ UNCHANGED <<PRI, ISR, RXEN, sram, sending, got, left>>

(* The frame is copied to a pbuf; a bad one is given up for the next.      *)
Take ==
  /\ Access("input", "take", IF Head(sram) = "bad" THEN "probe" ELSE "unlock")
  /\ sram' = Tail(sram)
  /\ got' = (Head(sram) = "good")
  /\ UNCHANGED <<PRI, ISR, RXEN, sending, left>>

(* No pbuf: the frame is read into dummy, two bytes at a time until len is *)
(* 0, and NULL is returned.                                                *)
TakeNoRoom ==
  /\ Access("input", "take", IF Head(sram) = "bad" THEN "probe" ELSE "unlock")
  /\ sram' = Tail(sram)
  /\ got' = FALSE
  /\ left' = (left \/ Head(sram) = "good")
  /\ UNCHANGED <<PRI, ISR, RXEN, sending>>

(* No pbuf and an odd length: len passes 0 and the loop does not end.      *)
TakeForEver ==
  /\ Access("input", "take", "endless")
  /\ sram' = <<>>
  /\ UNCHANGED <<PRI, ISR, RXEN, sending, got, left>>

(* No frame: ISR = ISR_PTS, then IMR = imr_all.                            *)
Finish ==
  /\ Access("input", "finish", "enable")
  /\ ISR' = WithoutPTS
  /\ got' = FALSE
  /\ UNCHANGED <<PRI, RXEN, sram, sending, left>>

Enable ==
  /\ Access("input", "enable", "unlock")
  /\ PRI' = TRUE
  /\ UNCHANGED <<ISR, RXEN, sram, sending, got, left>>

(* A broken frame: RCR = 0, ISR = 0x80, and a return without OSMutexPost.  *)
Stop ==
  /\ Access("input", "stop", "stopped")
  /\ RXEN' = FALSE
  /\ UNCHANGED <<PRI, ISR, sram, sending, got, left>>

Stopped ==
  /\ Access("input", "stopped", "sem")
  /\ got' = FALSE
  /\ UNCHANGED <<PRI, ISR, RXEN, sram, sending, left>>

(* Mutant: one frame for each count of the semaphore.                      *)
OnlyOne == "sem"

(* A frame is handed to lwIP and the next one asked for; without one the   *)
(* input task goes back to the semaphore.                                  *)
AfterReceive == IF got THEN "lock" ELSE "sem"

ReceiveEnd ==
  /\ Unlock("input", AfterReceive)
  /\ got' = FALSE
  /\ UNCHANGED ends

Input ==
  \/ Pend \/ Lock("input") \/ Select("input") \/ Probe \/ Take \/ TakeNoRoom
  \/ TakeForEver \/ Finish \/ Enable \/ Stop \/ Stopped \/ ReceiveEnd

TaskStep == Input \/ \E t \in Senders : SendPacket(t)

Next ==
  \/ Interrupt
  \/ /\ \/ FrameArrives \/ TransmitDone \/ Handler \/ TaskStep
        \/ \E t \in Senders : WantsToSend(t)
     /\ Edge

(* The processor never rests while something can run, and a frame on its   *)
(* way out has been sent after a while.  Frames and the wish to send come  *)
(* when they come.                                                         *)
Fairness ==
  /\ WF_vars(Interrupt)
  /\ WF_vars(Handler /\ Edge)
  /\ WF_vars(TaskStep /\ Edge)
  /\ WF_vars(TransmitDone /\ Edge)

Spec == Init /\ [][Next]_vars /\ Fairness

-----------------------------------------------------------------------------
Steps == DOMAIN Register \cup {"idle", "sem", "lock", "wait", "unlock", "endless"}

(* Type invariant.                                                         *)
TypeOK ==
  /\ REG \in {Register[s] : s \in DOMAIN Register}
  /\ PRI \in BOOLEAN /\ RXEN \in BOOLEAN /\ sending \in BOOLEAN
  /\ ISR \subseteq {"PRS", "PTS"}
  /\ sram \in Seq(Frames)
  /\ latched \in BOOLEAN
  /\ handler \in {"out", "test", "write"}
  /\ last_io \in {Register[s] : s \in DOMAIN Register}
  /\ int_status \subseteq {"PRS", "PTS"}
  /\ dm9000input \in Nat
  /\ owner \in Tasks \cup {None}
  /\ waiting \subseteq Tasks
  /\ raised \in BOOLEAN
  /\ pc \in [Tasks -> Steps]
  /\ selected \in [Tasks -> BOOLEAN]
  /\ got \in BOOLEAN /\ left \in BOOLEAN
  /\ arrived \in 0 .. MaxFrames
  /\ sent \in [Senders -> 0 .. MaxSends]

(* A task reads and writes the register it selected, whatever interrupt or *)
(* task came between: the handler puts REG back and the mutex keeps the    *)
(* other tasks away.                                                       *)
RegExact ==
  \A t \in Tasks : Running(t) /\ selected[t] => REG = Register[pc[t]]

(* The driver has stopped: a broken frame, or a frame of odd length that   *)
(* found no pbuf.  The input task then keeps the mutex for ever.           *)
Dead == ~RXEN \/ pc["input"] = "endless"

(* Every send ends: the handler does not take away the bit DM9000_Send-    *)
(* Packet polls for, and nobody keeps the mutex, unless the driver died.   *)
SendEnds ==
  \A t \in Senders : pc[t] = "lock" ~> pc[t] = "idle" \/ Dead

(* A frame that found no pbuf sent the input task back to the semaphore    *)
(* with others unread; the next interrupt will make up for it.             *)
LeftBehind == left /\ pc["input"] = "sem" /\ dm9000input = 0

(* Every frame is read from the chip, although many share one count of the *)
(* semaphore and come while the interrupt is masked or being served.       *)
EveryFrameTaken == sram # <<>> ~> sram = <<>> \/ LeftBehind \/ Dead

(* While a task waits for the mutex, no less urgent task runs but the      *)
(* owner ("raised to priority 2", lwip_comm.c).                            *)
NoInversion ==
  [][~Dead =>
       \A w \in waiting, t \in Tasks \ {owner} :
         Prio[t] > Prio[w] /\ pc[t] # "idle" =>
           pc'[t] = pc[t] /\ selected'[t] = selected[t]]_vars
=============================================================================

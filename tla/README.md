# A verification of the YCKJ area controller

The repository is the firmware of an area controller: an STM32F10x under
µC/OS-II that polls up to 80 card readers of hot-water meters over CAN, keeps
their registrations in an EEPROM, and reports every card that is inserted or
pulled to a server over TCP (lwIP on a DM9000). The answers of the server go
back to the reader. Firmware files arrive over the serial line by Ymodem and are
stored in a serial flash.

This directory holds TLA+ models of the parts that carry the program's own logic,
TLC runs that check them on small instances, and proofs, checked by TLAPS, of what
holds for every value of the constants. `PROJECT.json` lists components, runs,
mutants (a change of one definition that makes a property fail), the source lines of
each definition, findings, hazards and theorems.

To repeat a run: `tlc -config X.cfg M`; to check the proofs: `tlapm MProofs.tla`.

## 1. Inventory

The repository has no tests. Its only documents are comments and the protocol sheet
`热水器项目 CAN方案.xlsx`. Paths below are relative to `src/`.

### Tasks

| task (priority) | code | what it does |
|---|---|---|
| tcpip_thread (5), DM9000 input (6), DHCP (7) | lwIP, `LWIP/lwip_app/lwip_comm` | network |
| tcp_client_thread (8) | `tcp_client_demo.c` | connection to the server |
| key_task (9) | `USER/main.c:137-205` | serial download, pace of heartbeats |
| led_task (10) | `USER/main.c:208-362` | registration, polling, answers to readers |

A tick is 5 ms. The lower number runs first, and a task gives way only where it
sleeps or waits in the kernel.

### Components

| component | state | operations | with whom |
|---|---|---|---|
| block allocator (`MALLOC/malloc.c`) | table of u16, one per block | mymalloc, myfree, myrealloc | buffers of both tasks, lwIP mailboxes and stacks |
| card reader polling (`bsp_powerbus.c`, `bsp_canapp.c`, `bsp_can.c`) | `g_RUNDate` (a row for each reader: flags, serial number, card, money), the CAN receive FIFO, a stack buffer | ReadRunningData, Can_SendPBus_Com, Can_ReadPBus_Succeed, WriteRFIDData | readers, event queue |
| event and answer queues (`main.c`, `tcp_client_demo.c`, `sys_arch.c`) | `q_msg`, `q_msg_ser`, one buffer behind each, the connection's mailbox | post and pend in two tasks | polling, allocator, lwIP |
| registration table (`bsp_useadd.c`, `bsp_24cxx.c`) | EEPROM bytes, the configuration in RAM, rows | AT24CXX_Check, PowerUPLogitADDCheck, Distribute_LogicADD, Delete_LogicADD | readers, rows used by polling, network settings |
| serial port (`bsp_uart_fifo.c`) | two rings with index and count, CR1 | UartSend, UartGetChar, UartIRQ | download, terminal |
| serial flash (`bsp_spi_flash.c`) | the chip, a sector image in RAM | sf_WriteBuffer, bsp_InitSFlash | download |
| file download (`ymodem.c`, `common.c`) | counters of sender and receiver | Ymodem_Receive, SerialDownload, Ymodem_Transmit | serial port, flash, key_task |
| connection, heartbeats, reconnection (`tcp_client_demo.c`, `main.c:150-190`, `api_lib.c`, `api_msg.c`) | i_SendCount, SendRecvCount, tcp_client_flag, the connection's mailbox and last_err | connect, heartbeat, receive, count, close | rows, server, tcpip_thread |
| network driver and port (`dm9000.c`, `ethernetif.c`, `sys_arch.c`) | semaphore, mutex dm9000lock, chip registers, mailboxes | interrupt, receive, send, fetch with timeout | lwIP |
| network start-up, DHCP (`lwip_comm.c`) | lwipdev | start sequence | lwIP, configuration |
| serial parameter setting (`bsp_serialport.c`) | configuration | no caller in this build | EEPROM |
| CRC-8, IIC and SPI bit drivers, watchdog, LED, key, LCD, SRAM, timer, clock | registers | | |
| µC/OS-II, lwIP 1.4.1, ST library | | third party | |

### What is hard here, and what makes each part correct

* **Allocator**: live runs are disjoint, freeing clears exactly one run, nothing
  leaks, a request is refused only when there is no room.
* **Polling**: an answer takes two frames through a FIFO of three that also holds
  frames of earlier polls; polls are repeated, acknowledgements get lost. Right is:
  a reader lets go of an event only when the controller has it; each event is
  queued for the server, once and with its own card and money; stored data never goes
  back; the receive loops end.
* **Queues**: every entry of a queue is the address of the same buffer, which its
  owner overwrites and the consumer frees. Right is: each event goes out once, in
  order, the newest answer is acted on, and no memory of another is written.
* **Registration**: an EEPROM write takes 10 ms a byte and power may go before any.
  Right is: after start-up the table and the polled rows agree, no polled address
  has two readers, the configuration is whole, start-up ends.
* **Serial port**: task and interrupt share rings and the control register.
  Right is: bytes neither lost, doubled nor reordered, and the interrupt turned off.
* **Flash**: sectors are rewritten through RAM; power may go, bytes may fail. Right
  is: the range is written exactly, the rest of the chip stays, a used chip is
  never erased as new.
* **Download**: packets and replies are lost, replies come late, sequence numbers
  wrap. Right is: reported success means that all packets were received, each once,
  and a session ends.
* **Connection**: a server may close, reset, or fall silent, and a mailbox may be full.
  Right is: a connection is given up for missing answers only when answers are missing;
  one that is dead is given up at last; every row gets its heartbeats.
* **Network driver**: interrupt and three tasks share a chip that has one register
  selected at a time. Right is: no access hits another register, every send ends, no
  frame stays in the chip, and the mutex keeps nobody waiting for a less urgent task.

The entries under "hazards" in `PROJECT.json` give the lines.

## 2. Plan

Done in this order, each module with its runs and proofs (`...Proofs`):

1. `AbstractPool`, `MemPool`: the allocator and the pool it implements
2. `ReaderPoll`: the core of the program
3. `EventPath`, which composes the queues with the allocator of `MemPool`
4. `AddrTable`
5. `UartFifo`
6. `SpiFlash`
7. `Ymodem`
8. `NetInput`
9. `NetConn` (model-checked only)

To come:

10. the allocator with its calls cut and interleaved between tasks
11. the pace of the heartbeats (HeartSendCount, Key_Task_Count), and lwIP's timers, which
    `sys_arch_mbox_fetch` misinforms about the time waited (sys_arch.c:139)

Abstract specifications: `AbstractPool` is the one stated and shown to be implemented;
a register of bytes for `SpiFlash` and a FIFO channel for `UartFifo` are the next.

## 3. Modules

Every definition carries the source's name where it has one; `map` in
`PROJECT.json` gives its lines.

### MemPool, AbstractPool
`memmap` is the management table, pointers are block numbers. `Found` is the downward
search, `Marked` and `Freed` the two loops. `live` and `ret` are history: the runs that
callers hold and the last answer. `AbstractPool` knows only `live` and `ret` and leaves
open which gap is used. A call is one step, and callers free only what they hold;
`EventPath` models the ones that do not. `my_mem_init` wipes the table and runs once,
or lazily in the first call. `nmemb` is a u16; `RequestsFit` says that no caller asks for
a multiple of 2 MB.

### ReaderPoll
One turn of led_task: `StartPoll`, `SendPoll`, the receive loops `Wait1` and `Wait2`
of Can_SendPBus_Com, `SendAck`, then `Forward` for the row *before* the polled one
(main.c:299-325), then an answer (`Answer`, `Drain`) or `NoAnswer`. A try of a receive
loop that finds no frame of the polled reader takes 5 ms (`Try`). Two features of the
code are kept as they are: in the branch of a pulled card the second loop is skipped
because `res` is not cleared, and in the second loop an empty FIFO repeats the loop
without delay or count while `Recebuf` still holds the first frame (`stale`).
`TempBuff` is not initialised, so a poll begins with the last poll's bytes or with
junk. The readers are external: they hold one event until it is acknowledged and
repeat it on each poll. The variable `bus` is chosen in the initial state: `late` says
whether an answer may take longer than a try, `lossy` whether frames may be lost
(CAN_NART is set: no repetition), and it holds the registered readers, the answers that
may come and the bounds of the instance. Not modelled: the broadcasts of price and key,
and ReadRunningData's clearing of a row whose serial number has zeros for its first and
last byte.

Two facts about the ends of the table: row 0 holds the number of readers, whose low
bits the first turn takes for event flags; and the last row is polled and
acknowledged but never forwarded. `EventReported` is therefore claimed of readers
below the last row only.

`Forward` posts the event and clears the flags of the row. When the queue is full the
post is refused and the flags are cleared all the same (main.c:322-324): the event is
lost. Whether the queue may be full is a choice of the bus (`full`). `reported` is the
history of the queue; `Right` compares an entry with the event it is about, and
`Repeats` finds an event that is in it already, by reader and number, so that a second
entry counts also when its card is another. One case is let through and said in
`NoneTwice`: an event first queued with a card or kind that is not its own is not
acknowledged, and is queued again as it is.

### EventPath
The TCP client (`tcp`), led_task (`led`), both queues, both buffers, the mailbox, and
the allocator table through `Pool == INSTANCE MemPool`. The client has the higher
priority, so `LedRuns` requires it to be blocked. `cell[b]` is what was last written
in block b, which is how an overwritten message is told from an intact one.
`Stable` is chosen in the initial state: TRUE, the connection is made before the
first event and stays; FALSE, it fails, breaks, closes and is made again at any time.

Timing. The client waits 500 ms for an event (100 ticks). The long steps of led_task
are a poll (at most 2×10×5 ms), the sleep between two packets (100 ms) and the
drain loop after them (50 ms), so that it gets through at least three steps in that
time: `PendTimeout` requires `waited = Patience` once led_task is past its start-up. netconn_recv's timeout (10 ms) and led_task's sleep (10 ms) are both two
ticks, and the client goes first when they end together (`early`, `Wake`).

Answers come in segments (`AnswersArrive` with any number of them). The client looks at
the first answer of what netconn_recv gives it and at nothing behind it (`Looked`), and
answers may be overwritten in `ser_Date` before led_task looks. So `NewestWritten` does not
say that each is acted on: it speaks of an answer that leads its segment (`Leads`), which is
acted on or replaced by a newer one. An answer to a card event behind or before one to a
heartbeat is lost in these ways. netconn_write is taken to return at once here; NetConn
models its waiting.

### AddrTable
`ee` is the EEPROM, `todo` the bytes that the call in progress has yet to write.
`Check`/`Verify` are AT24CXX_Check, `Scan*` PowerUPLogitADDCheck, `Window*` and `Assign`
the registration window of led_task, which is open for `WINDOW` rounds. `DeleteSlot` and
`DeleteCount` are the loop of Delete_LogicADD, which looks for every slot that begins with
the number, from where it cleared the last one, and then counts down. `PowerLoss`
may come before any byte. `MainSteps` are the steps main() takes before it starts the tasks,
`LedSteps` those of led_task. Arithmetic is modelled as it is: the count is a byte that
goes down modulo 256, and Delete_LogicADD starts its zeros at `base | 1`.

### UartFifo
`Room`, `Put`, `Advance`, `ReadCR1`, `WriteCR1` are UartSend, cut where the interrupt
can come; `StartGet`, `Take`, `Drop` are UartGetChar; `UartIRQ` is the handler. The USART
is a data register and a shift register. Bytes are numbered.

### SpiFlash
A byte is the set of its 1 bits: erasing makes it `Bits`, programming intersects.
`Pieces` is the case split of sf_WriteBuffer, `PieceDone/Refused/Changed`, `sf_EraseSector`,
`sf_PageWrite`, `Compared`, `CompareFailed` are sf_AutoWritePage with its three tries.
`FoundUsed`, `FoundNew`, `sf_EraseChip`, `MarkWritten` are bsp_InitSFlash. The chip can lose
power with any part of a command done (`Torn`), and a byte can fail to be programmed.

### Ymodem
Ymodem_Receive with SerialDownload's loop at one end, Ymodem_Transmit at the other,
a line in each direction that may lose. Sizes count pieces of 8 bytes: a short packet has
`PACKET_SIZE` of them (16), a long one `PACKET_1K_SIZE` (128). A data packet carries its
offset in the file in place of data. Of each packet received, line 225 stores
`WRITE_SIZE` pieces, one, and the destination then goes on by the length of the packet:
an entry of `image` is what was stored, where, of which packet. So a completed download
leaves in the flash the first 8 bytes of each packet with gaps between them. `AllReceived`,
which the properties use, is about the packets received, and `ImageExact` says what of them
is in the flash. The
receiver's wait (0x100000 polls) is longer than the sender's tries of one packet
(10 × 100000), so `ReceiveTimeout` requires an idle sender. A packet with a damaged
CRC is not modelled (the code does not check the CRC).

### NetInput
The chip (`REG`, `PRI`, `ISR`, `RXEN`, the frames in its memory), the interrupt
(`Interrupt`, `HandlerRead`, `HandlerWrite`, `HandlerLeave`), the mutex and the semaphore
of µC/OS-II (`Lock`, `Unlock`, `Pend`), and three tasks: the input task (`Input`) and two
senders (`SendPacket`), tcpip_thread and lwip_dhcp_task. A register access is two steps,
`Select` and one of the accesses, because the interrupt or a more urgent task may come
between; DM9000_SendPacket and DM9000_Receive_Packet are sequences of such accesses.
`Running` is the scheduler: nothing runs while the interrupt is pending, and then the
ready task with the smallest priority number, an owner of the mutex that holds
up a more urgent task at `PIP`. `Edge` makes INT latch on its falling edge only. The
driver can die in two ways that the properties except (`Dead`): after a frame whose first
byte is broken the mutex is not given back (dm9000.c:415), and a frame of odd length that
finds no pbuf is read for ever (dm9000.c:440). Left out: what lwIP does with a frame
(the input task only posts it), reset and PHY set-up, and the reset for a
frame longer than DM9000_PKT_MAX, which RCR_DIS_LONG keeps from being received.

### NetConn
The loop of tcp_client_thread as a cycle `beat`, `event`, `recv`, `fetch`: `Heartbeat`, `Event`,
`Receive` (netconn_recv up to the mailbox), and what the mailbox gives (`FetchTimeout`,
`FetchAnswer`, `FetchClosed`). `NothingReceived` is the branch that compares the count with
10. The server and tcpip_thread on its behalf are `Answers` (recv_tcp with a segment of one
or more answers), `Closes`, `FallsSilent` and `Fails` (err_tcp). The mailbox holds for each
message the number of answers in it, 0 for the NULL of a close. `mbox_valid` is
sys_mbox_valid, which takes a full mailbox for a deleted one; so `Posted` drops what comes,
`Receive` returns at once, and `Delete` leaves the queue allocated (`leaked`). Of the
OS_MAX_QS = 5 queues three are in use; once the other two are leaked netconn_new fails and
the client goes round without sleeping, so that neither key_task nor led_task runs
again: `New` and `KeyTask` then have no step. An error other than ERR_CLSD, also the fatal one of
a reset, is not a close for the client: only the count ends such a connection. `owed` and
`unseen` are history: messages without an answer, and answers that were dropped or
stood behind another one in their segment. Card events are written but not counted;
their answers count down all the same.

netconn_write has no timeout. `Write` may return at once or leave the client in the kernel
(`Writing`) until `WriteReturns`: sent_tcp or poll_tcp has found room, or err_tcp has ended
the wait. A silent server acknowledges nothing, so that only `Fails` ends a wait for it, and
a server that keeps its window closed may hold the client for ever. How full the
send buffer is (TCP_SND_BUF, TCP_SND_QUEUELEN) is left open.

EventPath and NetConn model the same loop for different questions: EventPath what
becomes of the contents of two shared buffers when a connection may end at any time,
NetConn when it ends.

## 4. Runs

| run | configuration | shows |
|---|---|---|
| mempool | `MemPool.cfg` | disjoint runs, exact table, refinement of AbstractPool |
| readerpoll | `ReaderPoll.cfg` | one behaviour per bus: on a lossless, prompt one with two readers each event is queued with its own data at last, and a second time only after it was queued wrongly; with lost and late frames a reader that is alone is acknowledged only what is stored, stored data never goes back, flags are cleared only where the event is posted (the queue may be full), turns end unless a second frame was lost |
| readerpoll_mixed | `ReaderPollMixed.cfg` | **violation** of ReportsAreReal |
| eventpath | `EventPath.cfg` | each event once and in order, the newest answer that leads a segment acted on; over breaks: no stale and no invented event |
| eventpath_mailbox | `EventPathMailbox.cfg` | **violation** of MailboxIntact |
| addrtable | `AddrTable.cfg` | power losses between bytes, lost frames and answers |
| addrtable_config | `AddrTableConfig.cfg` | **violation** of ConfigKept with the code's constants |
| uartfifo | `UartFifo.cfg` | interrupt between any two steps |
| spiflash | `SpiFlash.cfg` | exact writes, intact neighbours, power loss, failing bytes |
| ymodem | `Ymodem.cfg` | every packet received once and its head stored in place, with losses, late replies, broken sessions |
| netinput | `NetInput.cfg` | interrupt and three tasks on one chip: accesses exact, sends end, no frame stays, no priority inversion |
| netconn | `NetConn.cfg` | the count means missing answers, dead connections are left and closes noticed if netconn_write comes back, all rows get heartbeats |

### Bounds

* mempool: 6 blocks of 2 bytes, requests of nothing, one to three blocks, and more than there is: gaps at both ends and in the middle,
  full pools, moves. The state space is complete; nothing is bounded.
* readerpoll: three buses, chosen in the initial state. `Prompt`: 2 readers on 3 rows, 2
  events each with one card that moves between them, answers AA and BB, those to
  card events. `Faulty`: one reader, frames late and lost. `Served`: one reader,
  frames lost, a queue that may be full, answers 55 and CC, those to heartbeats, which
  register a reader and take it out. FIFO of 3 as in the hardware, 3 tries instead of 10. A poll has at most two frames, so
  a FIFO of 3 fills with two polls. On a bad bus one reader suffices, since the
  properties speak of one reader's events and frames of another are thrown away.
* eventpath: 3 events, 2 answers, queues of 2, 6 blocks, so that the queues fill
  and a mailbox (3 blocks) competes with both buffers; the answers come in one segment
  or in two.
* addrtable: 2 slots, 3 readers (one too many), 2 bytes of configuration behind the
  table, 3 power losses, all sets of readers on the bus at each power-up.
* addrtable_config: the real layout (80 slots, configuration at 200-251, flag at 255), 40
  readers that register in order.
* uartfifo: rings of 3 and 2, 6 bytes sent, 4 received: both wrap twice.
* spiflash: 3 sectors of 4 bytes with 2 bits, 2 bytes per program command; ranges
  within, across, and beyond sectors; 2 calls, 1 power loss, 3 failed bytes (as many as
  there are tries).
* ymodem: sequence numbers modulo 3; packets of 3 and 6 pieces, of which one is stored, and
  files of 20 and 26 pieces: 4 packets, which wrap, the last one short, and 5, one more than
  the sender's `LastBlk` lets it send; 1 loss, 1 key; 3 errors at the sender, 2 at the receiver.
* netinput: 3 frames (sound, with a bad status, broken) and one send of each sender: a
  frame before, while and after another is read, and both senders and the input task at
  the mutex together.
* netconn: 2 rows, all registered, one lost, or none; one unanswered heartbeat is borne
  instead of 10, a mailbox of 3 instead of 20 and up to 4 unanswered messages instead
  of any number: in the same order, so that the mailbox can only fill with answers to
  uncounted messages among them. Two queues to lose, as in the code.

`CHECK_DEADLOCK FALSE` is set where the bounds let the system come to rest (all bytes
sent, all calls made, power lost for the last time), and in the runs that look for a
violation on a bus that can stop.

### Fairness

The tasks below the TCP client are *not* assumed to go on. key_task (9) calls SerialDownload
in every round (main.c:149); before a session begins Ymodem_Receive does not return, and
Receive_Byte polls the line without yielding (ymodem.c:45). With that loop as it is, led_task
(10) gets no time and key_task does not come round to the heartbeats until a download
begins and ends. So no specification has fairness of led_task or key_task, and the properties
that need either say so as a condition: `LedTaskRuns` in `PollEnds`, `EventReported`,
`NewestWritten` and `BootEnds`, `KeyTaskRuns` in `DeadLeft`. `WritesEnd`, that netconn_write
comes back, is a condition of the same kind in `DeadLeft` and `CloseNoticed`. The fairness
of the specifications is this:

* `ReaderPoll`: frames that are not lost arrive.
* `EventPath`: the client goes on, since only the tasks of lwIP are more urgent, and those wait
  for frames; and strong fairness of `Connected`: an attempt
  to connect may fail any number of times, but not for ever. It is used only by what
  is claimed of a connection that comes up.
* `AddrTable`: what main() does before the tasks run goes on.
* `UartFifo`: interrupt, shift register and a begun UartSend go on; the task need not
  start a call.
* `NetInput`: the processor does not rest while something can run (one condition for the
  handler, one for all tasks: which one runs is the scheduler's choice, not fairness'), and a frame on
  its way out has been sent after a while. Frames and sends come or do not come.
* `NetConn`: the client goes on where it does not wait in netconn_write. The server need do nothing,
  except that it does not leave the client at the bound of `owed` for ever, where the model
  has no room for the next message.
* `Ymodem`: both programs go on, the line need not lose anything. `SessionEnds` is not
  claimed when the reply to the *header* is lost (`Lossy` leaves it out).

### Findings

1. **Money of one event, card of another** (`bsp_canapp.c:178`). `res` is not cleared in the
   branch for a pulled card, so the second frame stays in the FIFO for a later poll,
   which reports it with whatever card is in `TempBuff`.
2. **The connection's mailbox is overwritten** (`main.c:333`). `ser_Date` is allocated once and
   freed after every message; a reconnection allocates the mailbox there.
3. **The 38th registration overwrites the server's address** (`bsp_useadd.c:56`). The layout
   comment of `bsp_24cxx.c` has 25 readers, `BUSNUM_SIZE` is 80.

Conditions under which a property is stated, because the code does not keep it
without them, are noted with the hazards: `PollEnds` except when a second frame was lost
(the loop of `bsp_canapp.c:149` neither delays nor counts then), `SendEnds` and `EveryFrameTaken`
while the driver lives, `CloseNoticed` of closes that found room in the mailbox, `ClearedWhenSent` without
answers to heartbeats
(CC writes the whole flag byte) and with room in the queue, `NoneTwice` with two readers at
least (a reader that is
alone reports a pulled card twice: the frames left by finding 1 are its own) and but for events
first queued with a wrong card or kind (finding 1 again), `EachOnce` on a connection that stays up, `ImageExact` and
`DownloadComplete` in transfers the receiver has not broken off, `ConfigUsed` not in
the power cycle that formatted, `ReceiveExact` until the ring overflows, `NeighboursKept`
on a chip whose bytes do not fail, and the conditions of the last section.

Three more places where the code does something other than it says. No run is about them,
because the models have them as they are:

* Of each packet of a download 8 bytes are stored (`ymodem.c:225`), while the success message
  (`common.c:412`) and the sender are told that the file is there.
* A card event that finds the queue full is dropped, and line 324, which says that it was
  sent, clears its flags; the reader was acknowledged (`main.c:322-324`).
* At power-up the registration of readers in led_task waits behind key_task's download loop
  (`main.c:149`), and so does every heartbeat.

## 5. Proofs

### MemPoolProofs
Assumptions: `PoolShape` (positive sizes) and `RequestsFit` (no block count wraps to 0).
`TypeOK /\ NoOverlap /\ TableMatchesLive /\ ReadyWhenLive` is inductive (`PoolInvariant`).
`NoOverlap` alone is not: that a found gap is free of live runs follows only from
`TableMatchesLive` (a block in a live run is marked), which in turn needs `NoOverlap` to
survive a free, and `ReadyWhenLive` to survive the lazy initialisation. From it:

* `PoolTypes`, `PoolNoOverlap`, `PoolTable`: types and the two invariants
* `PoolRefinement`: initial states map to initial states; a served request finds a `Gap` of
  the abstract pool, because unmarked blocks are in no live run; a refused one means that
  there is none, because blocks of no live run are unmarked.

### ReaderPollProofs
Assumptions: `ReaderAssumption`, `CardAssumption`. The property is `NeverBackwards`: what is
stored for a reader never goes back to an earlier event. It is about the future of the
frames, so the invariant speaks of every frame under way: frames of one reader, on the wire
and in the FIFO together, carry money that does not decrease, none is older than what the
row holds, and none newer than the reader's last event. `Received` keeps this also when it
overwrites the newest entry of a full FIFO, which is the delicate case (it would not if the
oldest were replaced, as the mutant shows). `PollInvariant` is that invariant with the
types; `PollTypes` and `PollNeverBackwards` follow, for every set of readers, FIFO depth,
number of tries and choice of buses. That `bus` never changes (`BusKept`) is a step of its
own, since every action leaves it alone.

`PollClearedWhenSent` rests on where led_task is: the row below the last that has a flag set
is the one polled in this turn or the one before (`BitsWhen`), so that no poll finds flags to
clear or to add to, and the entry main.c:322 posts before it clears the flags is of that row.
It holds on any bus, with the two exceptions the property names: a queue that may be full
refuses the entry, and the answer CC writes the whole flag byte.

`PollAckedIsStored` is about a reader that is registered alone (`Alone`). An acknowledgement
says "inserted" or "pulled", and the reader takes it for its last event. What has to be
excluded is that led_task, with the second frame lost, acknowledges with the flag of one
frame and the card or money of another. For one reader (`OneReader`) everything there is, on
the wire, in the FIFO and in TempBuff, is of its last event or of the one before it, because
it has no new event until the last is acknowledged, and these two differ in kind because a
card has to be pulled before one is inserted. So equal kinds mean the same event. With two
readers TempBuff may be of the other one, and the statement fails (bsp_powerbus.c:274).

`PollNoneTwice` is about several readers on a bus that loses nothing and is never late. It
needs two facts of the hardware beyond `ReaderAssumption`: `OVERFLOW > 2` (the code makes ten
tries) and `FIFO_DEPTH > 2` (the CAN peripheral has three places). TLC refutes `NoneTwice`
with two tries, which leftovers can use up, and with a FIFO of one place, where
a second frame can replace the first. Whether an event is stored again after it was queued
depends on the frames in the FIFO, so the invariant (`TwiceInv`) says for every point of a
poll what `Rest`, the FIFO with the wire behind it, holds:

* `Channel`: between polls at most two frames, left by the reader polled last (`Leftovers`),
  whose next poll can bring an inserted card or nothing and so leaves none (`Meek`). When the
  next reader answers, its frames stand behind those two, complete (`Whole`) or without the
  first one (`Cut`), which was replaced by the second in the full FIFO.
* `RobbedOnce`: after a `Cut` the row has the number of the pending event with whatever was in
  TempBuff (`Wrong`). The reader still holds the event, and its next poll is read
  properly: the reader polled before it is `Meek` until then, or has left nothing.
* `Fresh`: no entry waiting in a row was queued before, and what a reader still holds was not
  queued with its own data (`Unsaid`). This is `NoneTwice` made inductive. A `Wrong` entry
  may be queued, once, and the right one after it; nothing after that.
* `Settled`: which rows are used, no reader is lost, and the last event of a reader says
  "inserted" exactly if a card is in it now.

None of them is inductive alone. `Fresh` needs `Channel` to know that a stored event is the
pending one, `Channel` needs `RobbedOnce` when a reader is polled behind leftovers, and
`RobbedOnce` needs the order of the polls (`Sooner`, `NextTo`), which is cyclic; that is where
a second reader is needed. `GoodBus` and `Company` speak of `bus` alone, which never changes,
so `CompanyInv` can have them as hypotheses.

### NetInputProofs
Assumption: none but the names of the model. Two properties, each with its invariant, for
any number of frames and sends.

* `ChipRegExact` (and `ChipExclusive`): REG is shared by three tasks and the handler, so the
  invariant says who may be at the chip: whoever is between OSMutexPend and OSMutexPost is
  the owner, those in `waiting` are at "wait" (so that the next owner, which OSMutexPost
  sends straight to the chip, was nowhere else), and what was selected is in REG or, while
  the handler uses it, in `last_io`.
* `ChipNoInversion`: besides that, the owner of a mutex that somebody waits for is ready to
  run unless the driver is dead, and it is raised or at least as urgent as all who wait. The
  second holds again after OSMutexPost has taken the raise back because it hands the mutex
  to the most urgent of them. A less urgent task would have to run before the owner.

### UartFifoProofs
Assumption: `RingShape` (rings not empty, a call not longer than the ring: UartSend waits
inside for room it would never get). The invariant gives the number of the byte in every
place a byte may be: the line has 1, 2, ..., then come the shift register, the data register
and the ring from `usTxRead` on, each one more than the one before (`TxOrder`), and the same
on the way in (`RxOrder`). `TransmitExact` alone, which is about the line, says nothing of
the ring and is not inductive. Between its critical sections the task relies on what it saw,
and `SenderSees` and `ReaderSees` say what of it still holds: the handler only makes room,
and only it takes from the transmit ring. `TransmitCorrect` and `ReceiveCorrect` are for all
ring sizes, message lengths and numbers of bytes.

### AddrTableProofs
Assumptions: `TableShape` and `LayoutShape` (the defaults have an address each, none at the
flag; the count lies before the table and outside the defaults), which hold of bsp_24cxx.c.
For tables of any size and any number of power losses:

* `TableRecovered` and `TablePolledUnique` follow from an invariant about the rows of
  g_RUNDate and the slots: what a row says is in the table and no pending write goes there
  (`RowsStand`), a slot that was scanned without a row is free or its zero is about to be
  written (`Vacated`), and nobody has a logical address of a slot not yet scanned
  (`InOrder`).
* `ConfigStays` and `ConfigInUse`: if the first n slots do not reach into the configuration
  and those that do begin with a byte of it that is no slot number up to n (`ClearUpTo(n)`),
  it stands while no slot beyond n is used (`UpTo(n)`). The second half of ClearUpTo is not
  obvious and came out of the proof: Delete_LogicADD clears every slot whose first byte *is*
  the number, also slots that were never assigned, and in a slot that overlaps the
  configuration that byte is a byte of the configuration. `ConfigOfClearTable` is the case
  of a table that lies clear of it altogether.
* `ConfigOfThisBuild` instantiates this with the addresses of the code: 31 slots, not the 37
  that fit in front of address 200. The default at 205 is 32, and 205 is where slot 39
  begins, so that deleting number 32 clears 205 to 209. The hypothesis that the bytes at
  multiples of 5 are above 31 holds of the defaults (123, 32, 0x31, 0x30, 0x36, 0x30, 0xFF,
  0xF1).

### SpiFlashProofs
Assumptions: `FlashAssumption` (sizes, the marker within sector 0) and `MarkerApart`: nobody
else writes to the tested bytes of the marker. In this build the record counters are at 100
to 103 and Ymodem_Receive writes 8 bytes at multiples of 128 or 1024.

* `PiecesPart`: the pieces of sf_WriteBuffer's case split are the parts of the range that
  lie in one sector each, for every range. That one piece does not undo another follows.
* `FlashWriteExact`, `FlashFailsForCause`, `FlashNeighboursKept`, `FlashDamageIsLocal`: the
  invariant `WriteInv` follows a sector through erasing, programming and comparing. `Merged`
  says what s_spiBuf holds, `Programming` that every bit of the image is still set in the
  chip, so that programming can make it exact, and that what has been programmed is exact
  unless a byte failed in this try: hence a call fails only after three failures, or beyond
  the chip.
* `FlashUsedChipKept`: the marker stands in the chip or in the image being programmed
  (`MarkStands`), so that bsp_InitSFlash does not take a used chip for a new one.

### EventPathProofs
Assumption: `PathAssumption` (sizes not zero). The buffers are freed after every message and
used on, so that the allocator itself keeps nothing away from g_SendDate: a freed buffer's
block can be handed out again. What does is the history of the first calls, and the
invariant `Layout` spells it out: the client's buffer is the highest block, the mailbox of
the first connection the three below it, g_SendDate the one below that, because led_task
first runs when the client waits for the connection and has a mailbox. A later mailbox lies
at one of two places (`High`, `Middle`), neither of which holds g_SendDate.

* `PathSentReal`: what is sent from q_msg is a card event, and never an older one after a
  newer one.
* `PathEachOnce`: on a connection that stays, `Turns` says that at most one event is queued,
  and where both tasks then are; it uses that the client has the higher priority.
* `PathFirstMailbox`: `MailboxIntact`, which is violated after a reconnection (finding 2),
  holds of a mailbox that lies below the client's buffer. So there is no other cause.

### YmodemProofs
Assumption: `DownloadAssumption` (sizes, limits, at least one block; files fit). For files,
packets and sequence numbers of any size, any number of losses, repetitions and keys
pressed. `ImageExact` speaks of the image only; to see that no packet is written twice the
invariant has to say what is under way. `Phase` names the stages of a transfer, each with
the packets that may be on the line and the answers that may come back:

* before the receiver has the packet of the stage, no answer under way is ACK, and the line
  holds repetitions of this packet and, in front of them, of the one before (`HeaderOut`,
  `BlockOut`, `EotOut`);
* after that, at most one answer is ACK, and nothing else is on the line (`HeaderIn`,
  `BlockIn`);
* `Closing`: nothing on the line is data.

The sender goes on only with the one ACK, so it finds the receiver ready, and neighbours
differ in their sequence number however often it wraps (`SeqnoTells`: a modulus of 2 would
do). The stages hold also for a sender that has stopped, until the receiver has read the
rest of the line or has given up; that nothing follows a sender's CA is `Cancelled`. From it
`DownloadTypes`, `ImageIsExact`, `DownloadIsComplete` and `SenderIsRight`. The phases are
claimed of transfers that the receiver has not broken off (`interrupted`), as the properties
are.

### Only model-checked
All liveness (PollEnds, EventReported, EventSent, NewestWritten, BootEnds, Settles,
SessionEnds, SendEnds, EveryFrameTaken, DeadLeft, CloseNoticed, RowsAnnounced), which is
beyond the prover. Of the invariants only
CountAccounted of NetConn: it adds up a mailbox with a fold, which needs an induction the
provers cannot do. The `TypeOK` of the modules other than ReaderPoll is for readers and
proofs; the runs check other properties.

## 6. Not modelled

Third-party code but for what the program leans on: priorities, semaphore and mutex in
NetInput, queues and the four functions around a connection's mailbox in NetConn and
EventPath. Most of the repository's lines are lwIP, µC/OS-II, the ST library and the display
driver, of which only these few are used by the logic modelled here. The DHCP exchange, and that
lwip_dhcp_task calls lwIP outside tcpip_thread (lwip_comm.c:228). The display, LEDs, keys, timers, watchdog and clock; the bits on IIC and SPI; CRC-8 (a
frame with a wrong CRC is one that is lost); serial parameter setting and the old
UART power-bus protocol, which have no callers; Main_Menu and the internal-flash
programming of `common.c`, likewise. The pace of the heartbeats and the interleaving of
allocator calls are in the plan.

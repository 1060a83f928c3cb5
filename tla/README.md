# socblox: specifications and proofs

TLA+ models of the parts of socblox whose correctness depends on the order of
events, checked with TLC on small instances and, for the central invariants,
proved with TLAPS for every value of the parameters.

Contents: [the system](#1-the-system), [the modules](#2-the-modules),
[the runs](#3-the-runs), [the proofs](#4-the-proofs),
[what disagrees](#5-where-the-code-disagrees-with-its-own-text),
[what is not modelled](#6-what-is-not-modelled), [the plan](#7-the-plan).

## 1. The system

socblox is a set of building blocks for small systems on a chip: hardware units
in SystemVerilog (`units/`), the embedded software that runs on them (`esw/`),
a verification framework in C++ (`svf/`) with bus models (`common/bfm/`), and
the tools of an FPGA board (`fpgamgr/`).

| component | state it keeps | operations | who it interacts with | what is hard | what makes it correct |
|---|---|---|---|---|---|
| L1 cache, `axi4_l1_cache_2.sv` | request and snoop state machines, tag and data RAMs | read hit, fill, write hit, write miss, uncached access, snoop | its CPU, the interconnect, the other cache (snoop wires) | everything moves on one clock; RAM ports take three edges | a valid line is current or about to go; a read fits one order of the writes |
| L1 interconnect, `axi4_l1_interconnect_2.sv` | last owner of AR and AW, owner of W | address arbitration, data routing | two caches, memory | owner changes while data is under way | every access is answered |
| SRAM bridge, `axi4_generic_byte_en_sram_bridge.sv` | read and write machines, ownership, exclusive monitor | single and burst read, write | interconnect, RAM | read and write ask at once | one transaction at a time; a burst stays in its line |
| A23 fetch unit, `axi4_a23_fetch_mp.sv` | read and write machines | read, write, exclusive access | core, cache | - | one access at a time |
| message queue, `units/bidi_message_queue`, `common/bfm/bidi_message_queue_direct_bfm` | two rings, four pointers, size of the message being read | send, peek size, read | driver software, stream side | full and empty rings, messages longer than the ring, locks and wake-ups | messages arrive once, whole, in order |
| uth threads, `esw/uth*` | lists of threads, owner of a mutex, waiters of a condition | create, yield, block, unblock, lock, wait, signal | the message queue driver, programs | stale owner, stale links | mutual exclusion, no lost wake-up |
| svf synchronisation, `svf/svf_semaphore.cpp`, `svf_objection.cpp` | counts | get, put, try_get, raise, drop, wait | tests and bus models | counts tested outside the lock | never negative; wait ends when all have dropped |
| svf bridge, `svf/svf_bridge*.cpp` | local and remote sockets, free list, receive queues | register, send, receive | two programs over two message queues | registrations cross | both ends connect; each message reaches its socket |
| ulink, `fpgamgr/ulink`, `fpgamgr/hps/src` | paged buffers, interrupt enable, connection | read, write, interrupt | UART, host | interrupt handler against main loop without a lock | bytes arrive once, in order; none are left behind |
| network driver, `fpgamgr/hps/src/drivers/net` | descriptor ring, frame list | receive | DMA engine | ownership bit | a frame belongs to one side |
| interrupt controller, timer | enable and status registers | register read and write | CPU | read in flight while a write starts | enabled interrupts reach the CPU |

The components that are wiring, generated, vendored or unfinished are in
[section 6](#6-what-is-not-modelled).

## 2. The modules

### The L1 memory system

Two CPUs, each behind a write-through L1 cache, share one memory. A write goes
to memory and, when it is answered, a one-edge pulse makes the other cache look
the address up and invalidate the line.

| module | stands for | state |
|---|---|---|
| `L1Params` | the dimensions, addresses and requests | - |
| `A23Fetch` | the bus side of a CPU | `cpu`: state and access |
| `SramBridge` | bridge and RAM | `bridge`, `mem` |
| `L1Cache` | one cache per port | `rw` and `line` (the request machine), `snoop`, `gen` (the snoop machines), `tagMem`, `dataMem`, and the registers of the RAM ports (`tagRd`, `tagWr`, `snoopRd`, `snoopWr`) |
| `L1Interconnect` | the composition, its wires and arbiters | `arLast`, `awLast`, `wrOwner`; history: `log`, `horizon` |
| `L1IssueOrder` | the order in which a test thread issues accesses | `floor` (history) |
| `MCL1`, `MCL1Issue` | instances for TLC | - |
| `L1Safety_proofs`, `L1Consistency_proofs` | theorems | - |

**One step is one rising edge of the clock.** Every register of the design
moves at once from the values before the edge, so `Next` is one action,
`Clock`, the conjunction of one sub-action per group of clocked processes
(`CpuClock`, `CacheClock`, `SnoopClock`, `ArbiterClock`, `MemoryClock`). The
wires are operators on the unprimed state; a channel is the set of ports whose
valid and ready are both up. Each operator ending in `Next` (`RwNext`,
`SnoopNext`, `BridgeNext`, ...) is the body of an `always` block: the value the
register takes. What is left open is what an idle CPU asks for, the free-running
way counter (read once per fill, so any value), the contents of the tag RAMs
after reset, and which value a RAM port reads when the other port writes that
entry on the same edge.

An address is `[set, tag, word]`, as the cache splits it. A value is the number
of the write that stored it; so `mem[l]`, a cached word and the data on the bus
say which write they come from, and `log[i]` says where the i-th write went.
`horizon[c]` is the latest write CPU c knows of, by having made it or read it.

The two state machines of the fetch unit are one (`cpu[c].state`), because the
core makes one access at a time; the two of the bridge are one, because
`sram_owner_r/w` let one transaction in at a time. A register nobody looks at
holds a fixed value, which keeps the states few and changes no wire.

### Two kinds of history

`log` and `horizon` are written by `History` and read by no other action: they
observe. `floor` in `L1IssueOrder` is the same for the run of that module.

### The message queue

Two rings of words in one memory carry messages between the processor's
software and the stream side (a bus model in C++ that reaches into the device by
DPI). A message is its size and its words; it may be longer than the ring.

| module | stands for | state |
|---|---|---|
| `MsgFifo` | what one direction promises | `sent`, `got` |
| `QueueDevice` | the direct device: pointers, memory, wait monitor | `inRd`, `inWr`, `outRd`, `outWr`, `mem`, `inReq`, `outReq` |
| `QueueDriver` | `bidi_message_queue_drv_base` | `drx`, `dtx` (the reading and the writing thread), `driverSz` |
| `QueueStream` | `bidi_message_queue_direct_bfm` | `srx`, `stx`, `streamSz` |
| `MessageQueue` | the composition, with a bridge sending and receiving on each side | history: `inSent`, `inGot`, `outSent`, `outGot` |
| `QueueCallers` | a caller that asks twice for a size | `outMutex` |
| `UthSenders` | two cooperative threads that send through one driver, with its uth mutex | `curr`, `owner`, `locked`, `dtxB` |
| `MCQueue`, `MCQueueCallers`, `MCUthSenders` | instances for TLC | - |
| `MessageQueue_proofs` | theorems | - |

`EXTENDS` builds them in that order. **One step of the driver is one bus
access** with the local code up to the next: between two accesses everyone else
may run. The stream side's calls take no simulated time and its threads give up
control only in `cond.wait`; it is modelled finer than that, one step per turn
of a loop, except that raising the wait request and falling asleep are one
step, since the monitor cannot run between them. The monitor's acknowledgement
and its clearing of the request are one step for the same reason. A
thread is a record of where it is (`pc`) and its locals: `rp`, `wp`, `i`, and
the caller's buffer. `wait_inbound` and `wait_outbound` of the driver return at
once or give the processor away, so the driver polls.

Pointers and words have the model's values for the code's: a pointer is in
`0 .. Q-1`, where `Q` is `QUEUE_SZ`; the memory of the device holds the inbound
ring first, then the outbound one, as the driver's `m_inbound` and `m_outbound`
and the stream side's `rp+m_queue_sz` have it.

### Threads and tasks

| module | stands for | state |
|---|---|---|
| `RoundRobin` | what a cooperative scheduler promises | `running`, `ready`, `asleep`, `ended` |
| `Semaphore` | what a semaphore promises | `count`, `wants` |
| `UthScheduler` | `uth_coop_thread_mgr`: operators on a record | - |
| `SvfTasks` | svf tasks, a semaphore, the objection and `svf_root::run` on uth threads | `sched`, `mainAt`, `looks`, `todo`, `inWait`, `count`, `semCond`, `objections`, `objCond` |
| `MCSvfTasks` | an instance for TLC | - |
| `SvfTasks_proofs` | theorems | - |

A scheduler is one record with the fields of the thread manager and the two
links of each thread, so that a call that touches several lists is a
composition of operators. **One step is a call of the running thread, or the
part of it up to where the processor is given away**: nothing else can happen in
between, since threads are cooperative. That is also why no step of `SvfTasks`
finds a mutex locked, and why its locks have no state. Where the processor is
given away under a lock, in the queue driver's `wait_outbound`, the mutex
matters, and `UthSenders` has it: one thread is the writer of `MessageQueue`,
the other an instance of `QueueDriver` with a writer of its own over the same
ring.

A task is `Program(body)`: `svf_task_base::run` raises an objection, runs the
body, a sequence of calls, and drops it. What bodies there are is a parameter,
and what the code expects of them is stated once, as `Provided`: each task drops
what it has raised, never puts after it has got, and all together put at least
what they get. That is more than such programs need, and it keeps a thread ready
whenever another blocks. A program that leaves nobody ready waits for ever by its
own fault, and the uth manager, which cannot be idle, has no thread to switch to:
blocking the only runnable thread (`uth_coop_thread_mgr.cpp:112`) is a hazard
that no run and no theorem here meets.

### The bridge

| module | stands for | state |
|---|---|---|
| `SocketFifos` | what each pair of sockets is promised | `sent`, `got` |
| `SvfBridge` | `svf_bridge` and `svf_bridge_socket` on both sides of a link | `local`, `remote`, `id`, `peer`, `queue`, `at`, `link` |
| `MCSvfBridge` | an instance for TLC | - |
| `SvfBridge_proofs` | theorems | - |

The link is two FIFOs of messages. `MessageQueue` is shown to implement one for
one sender at a time on each side; a bridge has a thread for each socket, so the
link is an assumption about the driver's locks. It holds where they exclude. On
uth they do not (`UthSenders`), and in the svf driver they are commented out.
Handing a message to it may give the processor away, so
`register_socket` is three steps: list the socket, announce it, search the
remote ones. A socket object is a name on a side.

### The ulink UART

| module | stands for | state |
|---|---|---|
| `UlinkBuffer` | `ulink_buffer`: operators on a record of pages, links and pointers | - |
| `UlinkUart` | `ulink_hps_uart`: `write`, `read`, `debug`, the interrupt handler, and the UART's FIFOs | `pc`, `logging`, `left`, `want`, `out`, `hand` (the main loop and its locals), `txEnabled`, `txInt`, `txBuf`, `rxBuf`, `tmp`, `txFifo`, `rxFifo`; history: `txTorn`, `rxTorn`, `written`, `due`, `wire`, `arrived`, `got` |
| `UlinkBuffer_proofs`, `UlinkUart_proofs` | theorems, and lemmas about the buffer | - |
| `Induction` | lemmas used in them and in `SvfTasks_proofs` | - |

Pages are numbered in the order they were allocated from the heap; 0 is the
null pointer. **One step of the main loop is one access to what it shares with
the handler**: in `ulink_buffer::write` the count of a byte and the byte
(`PutByte`, `ByteLands`; the statement on line 69 allows both orders), the look
at the free list, the taking of the page, the link, and the move of
`m_write_ptr`; in `read` each byte, each of the tests of lines 40, 41, 45 and 46,
the move of `m_read_ptr`, and the two stores of `free_page`. The handler comes
between any two of them. It is one step itself: nothing interrupts it. What the
handler cannot see is one step: clearing a page that is on no list (92 to 94), and
the kick's read of `m_tx_buffer`, during which the transmit interrupt is off
(`KickAlone` in the proofs).

Nothing in the code keeps the handler out of a buffer that the main loop is in
the middle of, and there are places where it does harm. `TearsTx` and `TearsRx`
name them:

| where | what the handler does | what comes of it |
|---|---|---|
| `write`, a byte counted and not yet stored (69) | reads it | the page's old content is sent |
| `write`, from a full page to the move (69 to 75) | reads it to the end | the page is given back under the writer, `m_read_ptr` is null or `m_write_ptr` is astray, and what is written next is not sent |
| `alloc_page` for `write`, between the look at the free list and the taking (83 to 86) | gives a page back | that page is lost, the one taken is still free |
| `read`, between the test for empty and the test for full (45, 46) | fills the page | the page is given back with its bytes unread |
| `free_page` for `read`, between its stores (100, 101) | takes a free page | the page taken is in use and free |

`txTorn` and `rxTorn` record that this has happened. From then on that
direction's handler takes no more steps: what a torn buffer does is not followed
further, since it is not a queue any more. Everything up to there is, and the
properties, as `~txTorn => ...` and `~rxTorn => ...`, say that the table is
complete: wherever else the handler comes, nothing goes wrong.

## 3. The runs

Where the system never stops the runs check deadlock: the clock always has a
next edge, and the driver's reader never stops polling. `Tasks` ends with
`svf_root::run`, and `Bridge`, `Uart` and `UlinkTx` end when all that the bounds
allow has been sent; those runs do not ask about deadlock.

| run | instance | checks |
|---|---|---|
| `L1Plain` | 2 sets, 2 ways, 2 words, cached X and Y in different sets, 3 writes | `SequentiallyConsistent` |
| `L1Flag` | 1 set, a cached word and an uncached flag, both CPUs read and write both, 2 writes | `SequentiallyConsistent`, `AccessServed` |
| `L1Alias` | 1 set, 2 ways, 3 tags: three lines for two ways, 2 writes | `TypeOK`, `SnoopReady`, `NoDuplicateLines`, `TagPortsDisjoint`, `LinesCurrent` |
| `L1WrongWay` | 1 set, two lines read by CPU 0 and written by CPU 1 | `ReadsOwnLocation`, violated |
| `L1WriteInvalidate` | one line, one reader, one writer | `WriteInvalidate`, violated |
| `Queue` | rings of 4; the exchanges of `UpTo` and `ShortExchanges` in `MCQueue`: up to three messages one way, or some both ways; empty, short, longer than the ring | `QueueTypeOK`, `PointersInOrder`, `InboundFifo`, `InboundArrives`, `OutboundFifo`, `OutboundArrives`, `SendersReturn` |
| `QueuePeekTwice` | one message of one word, a second peek | `PeekedIsRead`, violated |
| `UthSenders` | rings of 4, up to three messages by two threads | `MessagesWhole`, violated |
| `Tasks` | three tasks, each one of seven scripts | `TaskTypeOK`, `ListsSound`, `WorkDone`, `RunsInTurn`, `SemaphoreServes`, `RunReturns` |
| `Bridge` | two names on each side, one used both ways, one in one direction | `BridgeTypeOK`, `RightPeer`, `NothingDropped`, `SocketsAreFifos`, `SocketsDeliver`, `PeersConnect` |
| `Uart` | pages of 2, FIFOs of 2, calls for 1 or 3 bytes, 6 bytes in all, out or in | `TxInOrder`, `RxInOrder`, `PagesInOrder`, `FlagTellsTruth`, `TxDrains` |
| `UlinkTx` | the same, bytes out only | `PageFinished`, violated |

- `SequentiallyConsistent`: there is one order of all writes, the order in which
  they reach memory, and each read returns the write to its location that is
  current at some point of that order not before what this CPU already knows.
  The cache has no store buffer and its invalidations are late, so this is
  weaker than "a read gets the newest write" and it is what programs that
  synchronise through memory need: message passing (Y read new, then X) and
  store buffering both run in `L1Plain`, and `L1Flag` is the same question
  with an uncached flag, which no invalidation has to reach.
- `LinesCurrent`: every word of a valid line equals memory, unless the
  invalidation of that line is somewhere between the write's address handshake
  and the tag RAM, or the line's own new contents are just landing.
- `NoDuplicateLines`, `SnoopReady`, `TagPortsDisjoint`: the three facts without
  which `LinesCurrent` fails: a line is in one way, a pulse is never missed, an
  entry has one writer.
- `AccessServed`: every access ends. A read may be held by the arbiter, a write
  by the arbiter, the snoop stall and the bridge.

- `InboundFifo`, `OutboundFifo`: each direction implements `MsgFifo`: a message
  is `sent` when `write_message` is called and `got` when `read_next_message`
  returns, and it comes out once, whole and in order. The sizes travel among the
  data, so one word lost or repeated turns data into a size.
- `InboundArrives`, `OutboundArrives`: the same with the fairness of `MsgFifo`:
  what is sent is read.
- `PointersInOrder`: on each ring the published read pointer, the reader's
  private one, the published write pointer and the writer's private one follow
  one another within one turn.
- `SendersReturn`: nobody stays in `write_message`.
- `RunsInTurn`: the linked lists of the thread manager implement `RoundRobin`:
  threads run in the order in which they became ready, and only those. The
  manager leaves old links behind (the new head of the active list still points
  back to the thread that has left it); `ListsSound` says that the links it does
  rely on are right, and that the blocked list and the condition variables agree.
- `SemaphoreServes`: `svf_semaphore` implements `Semaphore`, whose fairness says
  that a waiting get that the count can serve is served. `put` wakes everybody,
  last come first, and each tests again.
- `WorkDone`, `RunReturns`: `svf_root::run` does not return under a working task,
  and returns. `wait_all_dropped` looks for the first objection before it waits;
  the mutant that does not look returns at once.
- `RightPeer`, `NothingDropped`, `PeersConnect`: of two registrations that cross,
  each side either finds the other's in its list or is found by it; whatever
  socket is connected has its namesake at the other end, and it is listed there
  before data for it can arrive.
- `SocketsAreFifos`: each pair of sockets has a FIFO each way, whatever the
  others send. `SocketsDeliver`: what is in it is received.
- `TxInOrder`, `RxInOrder`: until the handler tears the buffer, the bytes on the
  wire, in the UART's FIFO, in the writer's hands and in the chain of pages are,
  in this order, what was written; and on the way in. In the middle of a call the
  chain is the one that the rest of the call will leave (`TxSettled`,
  `RxSettled`): a byte that is counted and not stored, a page that is allocated
  and not linked, a page that is taken off and not yet free.
  `PagesInOrder`: no page is lost, in use twice, or free while it is written; and
  the page written has room, except in a page turn.
- `FlagTellsTruth`, `TxDrains`: `m_tx_int_enabled` agrees with the UART except
  between its assignment and the enabling, and what was written when a write
  returned is sent, also if the handler has turned itself off in its middle.
  (`debug` leaves its bytes to the next write, so `due` does not count them
  before.) `TxDrains` too asks this of a buffer that is not torn; one that is may
  never send again.

**Bounds.** Two ports are what the design has. Two ways exercise a full set,
the choice of a free way and the random replacement; three tags make two ways
too few. Two words make a fill a burst that wraps. `MaxWrites` bounds the
writes of a behaviour (`CpuClock` holds a further one back): with one write a
line becomes stale, with two a second snoop meets the first, with three
(`L1Plain`) a CPU reacts to what it has read. `L1Flag` has two, data and flag,
because liveness is checked with it. Reads are not bounded. The code's 256 sets, 4 ways and 4 words add no state machine
transitions.

`L1Plain` has no two lines in one set: where a line that both CPUs use competes
with another, the wrong-way reading of
[section 5](#5-where-the-code-disagrees-with-its-own-text) breaks it (section 4
proves that nothing else does).
`L1Alias` has the competing lines and checks the caches' contents, which that
bug does not touch.

In the message queue, `Q = 4` holds three words: a message of four words and its
size fills the ring, is given space word by word and goes round it more than
once. Three messages are enough for each to follow any other. `Traffic`, the set of
exchanges allowed, bounds the calls of `write_message`, in `StreamSends` and
`DriverSends`. The directions share no variable but the memory, each in its own
half, so where both send fewer messages do.

Three tasks are enough for a thread in the middle of a list, for two waiters of
which one is served, and for a waiter, a server and a bystander. `Bodies` is the
set of assignments of scripts in which the puts cover the gets and precede the
gets of the same task: anything else may wait for ever by its own fault. `Looks`
is 2 for the code's 100: main runs after all others have had a turn each time,
so the second look already finds what there is. `MaxPut` bounds what one call
puts or gets. TLC evaluates `Provided` for all these assignments
(`ProgramAssumption`), so the run is an instance of the theorems.

In `Bridge` two names make the ids of the two sides differ and let announcements
overtake the order of the ids; `Most` bounds the messages of each socket.
In `Uart` (`PageSize`, `FifoSize`, `Chunk` stand for 4096, 128 and 16) six bytes
fill three pages, so that pages are freed and used again while others are full.
`Sizes` are the lengths asked for, as for `debug`'s texts: a call for three bytes
turns a page in its middle, and a page is filled exactly at a call's end.
`MostTx` and `MostRx` bound the bytes of each direction and `Most` both together;
the directions share only the main loop, which is in one call at a time. The
receive FIFO does not overflow: a UART that overruns loses bytes whatever the
software does.

**Fairness.** In the L1 modules `FairSpec` says only that the clock does not stop
(`WF_vars(Next)`). CPUs may stay idle for ever; arbiters and machines get no
fairness of their own, so that nobody starves is the code's doing. In
`MessageQueue` each thread that is inside a call goes on, the receivers call
again (`recv_loop` has no other exit), and the monitor runs with the clock;
nobody has to send. Threads of one processor take turns because every wait
yields. In `SvfTasks` the processor runs (`WF_vars(Next)`) and every choice of
who runs is the scheduler's. In `SvfBridge` the two receive loops go on, a
thread that has begun to register goes on, and receivers receive; nobody has to
register or send. In `UlinkUart` a write that has begun goes on, a pending
transmit interrupt is taken and the UART sends; nobody has to write or read.

Each property of a passing run comes with a mutant: a variant of one definition
as a likely slip in the source would make it (`HitWaysButLast`, `NeverStall`,
`OwnSnoopAddr`, `ArbitrateAlternating`, `DrvReadDrainedKeeps`, `RoomForAll`,
`AppendKeepsLink`, `DropOldCount`, `SkipSearch`, `AfterAllocDirty`, ...). Under each
the run finds its property violated.

## 4. The proofs

| module | about | theorems |
|---|---|---|
| `L1Safety_proofs` | `L1Interconnect` | `TypeCorrect`, `LinesDistinct`, `SnoopAlwaysReady`, `TagPortsNeverMeet`, `CachesCoherent` |
| `L1Consistency_proofs` | `L1Interconnect` | `MemoryConsistent`, `ConsistentWithRightWay` |
| `MessageQueue_proofs` | `MessageQueue` | `QueueTypeCorrect`, `PointersOrdered`, `InboundIsFifo`, `OutboundIsFifo` |
| `SvfBridge_proofs` | `SvfBridge` | `BridgeTypeCorrect`, `ConnectedToNamesake`, `DataFindsItsSocket`, `SocketsImplementFifos` |
| `SvfTasks_proofs` | `SvfTasks`, `UthScheduler` | `TaskTypeCorrect`, `ListsAreSound`, `ThreadsRunInTurn`, `AllWorkIsDone`, `SemaphoreCounts` |
| `UlinkUart_proofs` | `UlinkUart` | `FlagTruthful`, `BytesOutInOrder`, `BytesInInOrder`, `PagesAccounted` |
| `UlinkBuffer_proofs` | `UlinkBuffer` | lemmas: what `Write` and `Read` do to a buffer |
| `Induction` | - | lemmas: induction over the naturals |

### The L1 memory system

Assumptions: `DimensionAssumption` (at least one set and way, at least two
words per line) and `RequestAssumption` (programs ask for locations that
exist). Nothing bounds sets, ways, words, tags, writes or programs.

- `TypeCorrect == Spec => []TypeOK`. The type invariant is
  not inductive: nothing in it stops a fill from counting past its line, since
  the beats stop because the bridge's burst does. `TypeInv` adds `FillsBounded`,
  which ties the two counters together: a cache that is filling is the one the
  bridge serves and the beats left on one side are the beats missing on the
  other. The choices (`CHOOSE` the first or last way) are discharged by
  `LeastNat` and `GreatestBounded`.
- `LinesDistinct == Spec => []NoDuplicateLines`. `DistinctInv`
  adds how the tag registers relate to the RAM: the sets below the one being
  cleared are clear (`SetsCleared`), a registered fill write carries a tag that
  no other way of its set holds (`TagWriteFresh`), and so does a fill under way
  (`FillFresh`), because the miss that started it read the set after the last
  write to it had landed and only invalidations come in between.
- `SnoopAlwaysReady == Spec => []SnoopReady`. Inductive as it
  stands, given the types: the snoop stall holds the address handshake back
  while the other snoop machine works, and while a write is under way the only
  pulse to that machine is the one this write sends when it ends.
- `TagPortsNeverMeet == Spec => []TagPortsDisjoint`. An argument of timing. A
  snoop starts on the edge that ends a write and takes three edges to the tags;
  a fill writes its tags with its last beat and cannot ask for its first before
  the bridge is free. `PortsInv` says how far the bridge can have come at each
  state of a snoop machine (`SnoopWindow`) and that a fill is in step with it
  (`Lockstep`, `FillOwnsBridge`).
- `CachesCoherent == WritesThroughCache => (Spec => []LinesCurrent)`.
  `CoherenceInv` follows one write: where the writer, the bridge and the address
  latched in the snoop generator are (`WriterInv`), that the writer's own copy is
  in the way it writes to or nowhere (`OwnCopy`), that a fill has collected
  memory as it is (`FillData`), that the other snoop machine reads the tags as
  they are (`SnoopSees`) and that what it registers names the way that holds the
  line (`SnoopHitsAll`).

  The hypothesis `WritesThroughCache` is about programs: what a CPU reads through
  its cache it does not write past it. It is needed: an uncached write does not
  touch the writer's own cache, and no snoop comes back to the writer (the hazard
  at `axi4_l1_cache_2.sv:111`). The decoding of addresses in the fetch unit
  grants it, since a location is always cached or never; and so do all the
  instances of `MCL1`.
- `ConsistentWithRightWay == WritesThroughCache => (Spec /\ []RightWay =>
  []SequentiallyConsistent)` and `MemoryConsistent == WritesThroughCache /\
  SharedLinesAlone => (Spec => []SequentiallyConsistent)`. The log of the writes
  is one order for both CPUs, and cache `c` reflects a moment of it: `Upto(c)` is
  the last write that all of its lines reflect. That is the latest write, but
  from the moment the other port's write is in memory until its invalidation is
  in the tags (`Missed`). `WordsAsOf` is the coherence argument with the history:
  each word held is what memory held as of `Upto(c)`, not merely what is current
  or about to go. The other half is that a CPU never knows more than its cache
  reflects and still reads (`KnowsMissed`): an uncached read or a fill is
  served by the bridge, which the missed write still holds when it could matter
  (`Window`), and a CPU that has itself written past a missed write waits for
  its response until the tags are clear (`OwnWindow`). `RequestHeld` says that
  the read being served is the one the CPU waits for, and `HitReadable` that
  the word of a way that still hits may be returned.

  What is left is the wrong-way readback of section 5: the way is compared
  again in the edge of the readback, and a snoop may have cleared it. `RightWay`
  excludes exactly those behaviours, so the theorem shows that for programs
  that write through their caches there is no other cause. `SharedLinesAlone`
  excludes them by the program: with one way there is no wrong way to take, and
  otherwise a cached line that the other CPU writes has its set of that cache to
  itself, so that way 0 holds the same line's word, cleared a moment ago but
  still allowed. `FirstInv` shows this: a set with a shared line never uses
  another way, and a line the other port never writes stays where the lookup
  found it (`SnoopsWrites`, `Lookup`, `FirstWay`). Private lines may compete as
  they like. The programs of `L1Plain` and `L1Flag` meet it; that of
  `L1WrongWay` does not, and there the property fails.

### The message queue

For rings of any size (`QueueAssumption`: at least two words), messages of any
length (`MessageAssumption`: sequences of words) and any traffic:

- `QueueTypeCorrect == Spec => []QueueTypeOK`, inductive as it stands.
- `PointersOrdered == Spec => []PointersInOrder`. Not
  inductive, because each thread acts on an old copy of the other's pointer.
  `RingInv` puts these copies in their place: on each ring the writer's copy of
  the read pointer, the read pointer, the reader, the reader's copy of the write
  pointer, the write pointer and the writer stand in this order, counted from
  the first (`Chain`). Every step of a thread then is one of the few `Moves`
  along the chain, and `ChainMoves` says they keep it; the modulus of the ring
  is met only in `IncByCase` and `AheadByCase`.
- `InboundIsFifo == Spec => InboundFifo` and `OutboundIsFifo`: refinement of
  `MsgFifo`. The words of the messages sent, each after its size, are one
  stream. `FifoInv` says which word of the stream is in each slot between the
  reader and the writer (`Holds`); where message k starts in the stream is a
  bound variable, a function that is extended when a message is sent, so that
  nothing has to be summed up. `Begun` says how far the reader has come in its
  message, `Ending` how far the writer in its last, and `Prefix` that what the
  reader has in hand is the beginning of the next message. The step that
  matters is the last word of a message: the reader's buffer then is the message,
  and it is the oldest that has not been got.

### Threads and tasks

For any finite set of tasks (`ThreadAssumption`: main and null are not among
them), any programs made of the calls (`TaskAssumption`) that are as `Provided`
asks (the order of puts and gets included), and any number of looks:

- `TaskTypeCorrect`, `ListsAreSound`: `TaskSpec => []TaskTypeOK` and
  `TaskSpec => []ListsSound`, from one invariant,
  `TaskInv == Backed(0) /\ \E L : Listed(L)`. The three lists are a bound
  variable `L`, which names three sequences of threads; `Sound` says that heads,
  tails and links describe them, `Apart` that no thread is on them twice, and
  `Clear` that a thread on no list has no link that the next append would follow. What
  `LinkThread`, `UnlinkThread` and the calls made of them do is stated on
  sequences and proved once (`AppendSound` and its like); `uth_cond_broadcast` is
  a fold, proved by induction over the waiters. `Moves(q, r, L, K)` says which
  few things a call may do to the lists, and every action is one of them.

  The invariant needs the semaphore and the objections, because a manager with
  nobody ready switches to null. `Supplied` says that what is left of the programs
  never takes more from the semaphore than the count has, `Objected` that the
  objections the tasks hold sum up to the count. From these follows `NotAlone`:
  when everyone else sleeps or has ended, the running thread need not wait. The
  argument: were all asleep, every task left would be at a get larger than the
  count, and none of these has a put ahead of it, so together they would take
  more than there is.
- `ThreadsRunInTurn == TaskSpec => RunsInTurn`: refinement of `RoundRobin`, with
  the mapped lists computed by `OnList`, a walk along the links; `WalkIs` says
  that the walk finds the sequence.
- `AllWorkIsDone == TaskSpec => []WorkDone`. `DoneInv` adds `Begun`: a task
  that has not raised its objection is ahead of main in the active list, so it
  has by the time main looks. Here the programs must also object from first call
  to last (`Objects`): a task that drops in between may be seen as done just then.
  The one script of `MCSvfTasks` that does so raises again before the second look,
  which is why TLC finds `WorkDone` true of it too.
- `SemaphoreCounts == TaskSpec => Sem!Init /\ [][Sem!Next]_(Sem!vars)`: every
  step is one of the abstract `Semaphore` or a stutter. The fairness in
  `SemaphoreServes` stays with TLC.

### The bridge

For any set of names and any number of messages (`BridgeAssumption`):

- `ConnectedToNamesake == Spec => []RightPeer` and
  `DataFindsItsSocket == Spec => []NothingDropped`, with `BridgeTypeCorrect` for
  the types. Neither is inductive: whom a socket is connected to is decided by
  what the other side has announced, which may still be under way. `BridgeInv`
  says of everything that names a socket by its id that the socket is there: of
  the sockets that have been given an id (`Listed`), of the remote lists
  (`Learned`) and of the messages on both links (`UnderWay`). It stays so because
  the lists of local sockets only grow (`Grows`).
- `SocketsImplementFifos == Spec => SocketsAreFifos`: refinement of
  `SocketFifos`. The data of a socket are numbered as they are sent. `StreamsInv`
  says that the numbers a socket has received, those in its queue and those under
  way are the numbers sent, each once (`Numbered`) and in order (`InOrder`), with
  the messages of other sockets anywhere in between.

### The ulink UART

For pages, FIFOs and writes of any size (`PageAssumption`, `UartAssumption`: none
of them is empty):

- `FlagTruthful == UartSpec => []FlagTellsTruth`. `KickAlone`
  makes it inductive: from the test of the flag until the enabling the handler
  is off, so nobody changes the flag under the writer.
- `BytesOutInOrder == UartSpec => []TxInOrder`,
  `BytesInInOrder == UartSpec => []RxInOrder` and
  `PagesAccounted == UartSpec => []PagesInOrder`, with the handler between any two
  statements. The invariant is `FlagInv /\ TxInv /\ RxInv`. `TxInv`, unless the
  buffer is torn, says where the bytes are: the first x on the wire, y in the
  FIFO, z in the writer's hands, the rest in the buffer, and that there is room
  for what the writer has taken; `RxInv` the like. `TxHeld` and `RxHeld` say in
  what shape the buffer is at each statement of the call under way. Most of the
  time that is `Held(b, from, to)`, "b holds the bytes after the first `from`, up
  to `to`": there is a list of the pages in use and one of the spare pages, which
  together are all the pages and share none (`Apart`), each linked along `next`
  (`Shared`), and a function that says with which byte each page begins
  (`Stored`), all but the last being full. `HeldFull` is the same with the last
  one full, as it is in a page turn.

  The statements of `write` and `read` are small changes of these lists. The
  handler's part is not: it does a whole `read` on a buffer in the middle of a
  page turn, and a whole `write` on one in the middle of a give-back. A `read` is
  compared with the same `read` on the buffer as `write` will leave it: `Twin`
  says how the two differ, `ReadTwin` that both yield the same bytes and are twins
  afterwards, unless the page that is written has been read to the end (`Lost`),
  which is what `TearsTx` asks about. A `write` is compared with the same `write`
  on the buffer as it was before the page left it: `Detached`, `WriteApart`.

  One byte written is `StoreHeld` and, on a page that is full then, `GrowHeld`; one
  turn of `read` is `TakeHeld` and, on a page that is finished, `GiveBackHeld`.
  `WriteHeld` and `ReadHeld` are the whole calls, `HandlerReads` and
  `HandlerWrites` the handler between any two statements, `HeldContent` what the
  properties ask of a buffer.

`Write` is a fold and `Read`, `Chain` and `Flatten` are recursive functions: what
they yield for every length is proved by induction. The induction theorems of
the library take a predicate as a parameter, which the provers cannot
instantiate; `Induction` states induction for a set instead, from the
well-foundedness of `<`. A recursive definition is met through a witness: a
function on the naturals that satisfies the equations is exhibited and the
`CHOOSE` behind the recursion is then one of those.

The inductive invariants that TLC can evaluate (all but `FifoInv`, `TxInv`,
`RxInv`, `TaskInv` and `DoneInv`, which bind functions) it has checked on the instances of the runs.

Every safety property that a passing run checks is stated by a theorem. What is
only model-checked is liveness (`AccessServed`, `SendersReturn`, `PeersConnect`,
`TxDrains`, `RunReturns`, and the fairness in `InboundArrives`,
`OutboundArrives`, `SocketsDeliver` and `SemaphoreServes`), which is out of the
prover's reach.

## 5. Where the code disagrees with its own text

- `L1WrongWay`: `ST_HIT_READBACK` sends the word of the way that hits *now*. If
  the snoop's invalidation lands after the hit was seen, no way hits, the way
  index is 0, and the CPU gets a word of the line in way 0. The comment says
  the data of the hit way is captured, and line 275 does so, in `data_wdata`; the
  answer to the CPU (line 623) does not use it.
- `L1WriteInvalidate`: the traffic test expects a read issued after the other
  port's write has returned to see it. The invalidation takes several more
  edges; a read on the next edge hits the stale line.
- `QueuePeekTwice`: the stream side's `get_next_message_sz` provides for being
  called again ("Just in case we read this already") but returns with its mutex
  locked. The DPI mutex has no owner, so the read that follows hangs; the
  SystemC one lets its owner in again and hides it. The driver's locks are empty
  in the base class.
- `UthSenders`: `uth_mutex_unlock` leaves the owner in place and
  `uth_mutex_lock` lets the owner in without taking the flag. A thread that
  sends twice is in its second `write_message` with the flag clear; when the ring
  is full it yields, another thread takes the mutex, and the words of two
  messages mix in the ring.
- `UlinkTx`: `ulink_buffer::write` fills a page and links the next one some
  statements later. If the transmit handler is enabled and drains the page in
  between, it gives the page back as "finished" although `m_write_ptr` is still
  on it. `alloc_page` then hands out the same page, it is linked to itself,
  `m_read_ptr` stays null, and nothing is sent any more. The table in
  [section 2](#the-ulink-uart) has the other places where handler and main loop
  do each other harm; the one on the way in, lines 45 and 46 of `read`, violates
  the same sentence of the code.

Met while reading, and without a run: `get_next_message_sz` ignores `block`
(its return of -1 cannot be reached); `svf_semaphore::try_get` compares the
wrong way round; `uth_cond_signal` dereferences an empty list of waiters;
`uth_cond_wait` returns with the mutex unlocked, which cooperative threads do
not notice; `svf_bridge_log_renderer.cpp:32` declares a second `ret` that hides
the one it returns.

## 6. What is not modelled

In the L1 modules: `ST_FILL_STALL` (the masters hold RREADY, so it is not
entered), states that nothing enters (`ST_WR_MISS`, `ST_UNCACHED_AW/AR/BR`),
byte enables (a write stores a word), bursts asked for by a CPU (the fetch unit
makes none), exclusive responses and the bridge's exclusive monitor. A location
is always cached or always uncached, as the fetch unit's address decode makes
it. `L1Params` fixes the word offset at one word; RAM contents after reset are
arbitrary but equal in all sets, to keep the initial states few.

In the message queue modules: more than one sender on a side (with the locks of
the derived drivers that means several threads taking turns), words wider than
the naturals in use, pointers that start undefined in a four-state simulator,
`read_next_message` without a size asked first, and the streaming device
`units/bidi_message_queue/bidi_message_queue.sv`, whose stream ports replace the
direct calls.

In the uth and svf modules: `scheduler_main`, which nothing starts; blocking of
a thread by another; the A23 assembly primitives; the host, DPI and SystemC back
ends, where threads are preemptive or the simulator's; `try_get`, which nothing
calls; two sockets of one name on a side; the free list and layout of bridge
messages (cooperative threads change the list without giving the processor
away); the log connector and renderer. In the ulink modules: framing, checksums
and requests (`ulink.cpp`), the FPGA configuration, overruns of the UART, and
what a buffer does once it is torn.

Not modelled at all: the network driver of the HPS (its send is empty and its
stack unfinished), interrupt controller and timer (register files whose state is
one flag each). Other components, and why: the A23 core and the OpenCores units are
third-party; interconnects are generated; memory-unit wrappers and systems are
wiring; the preloader and the uex kernels are unfinished; the AHB cache is a
near copy of the AXI one; benches, templates and scripts are not the program.

## 7. The plan

1. Done: the L1 memory system, its invariants and first proofs.
2. Done: the message queue, its FIFO refinement and liveness; the order of its
   pointers and the refinement are proved.
3. Done: the uth scheduler and mutex, svf tasks above them, two senders on one
   queue driver.
4. Done: the svf bridge over the queue's promise; the ulink buffer and UART
   against the interrupt handler.
5. Proofs done: coherence (`LinesCurrent`), the FIFOs of the queue and of the
   bridge, the order of bytes in ulink, the lists of threads, the end of
   `svf_root::run`, the steps of the semaphore, and sequential consistency.
6. Models to come: the exclusive monitor of the SRAM bridge, ulink's framing,
   the interrupt controller.

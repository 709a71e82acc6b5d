# OpenMRNLite: TLA+ models and proofs

OpenMRNLite is an OpenLCB (LCC) protocol stack for small computers: an executor
with cooperative state flows, buffers and queues, a CAN interface with alias
management, and the OpenLCB services on top of them (datagrams, memory
configuration, events, streams, traction, DCC). This directory models the parts
of it in which several actors meet, checks them with TLC on small instances and
proves some of their invariants with TLAPS for every instance.

Paths below are relative to `src/src/`. The build that is modelled is the
ThreadX one (`OPENMRN_FEATURE_RTOS_THREADX`), in which the executor sleeps on a
semaphore.

## 1. The system

### Components, their state and their operations

| Component | Source | State | Operations |
|---|---|---|---|
| Executor loop | `executor/Executor.{cpp,hxx}`, `os/OSSelectWakeup.*` | priority queue, `started_`, `done_`, `sequence_`, `current_`; `pendingWakeup_`, `inSelect_`, the wakeup semaphore | `entry()`, `add()`, `wait_with_select()`, `shutdown()` |
| Timers | `executor/Timer.{cpp,hxx}` | sorted `activeTimers_`, `lock_`, `isPending_`; per timer `when_`, `period_`, `isActive_`, `isExpired_`, `isCancelled_` | `start()`, `restart()`, `trigger()`, `run()`, `get_next_timeout()`, `update_timer()` |
| State flows, notifiables | `executor/StateFlow.*`, `executor/Notifiable.*`, `executor/Dispatcher.hxx` | flow state, queue, barrier counts, handler list | `send()`, `notify()`, `sleep_and_call()`, `register_handler()` |
| Buffers and queues | `utils/Buffer.*`, `utils/Queue.hxx`, `utils/LimitedPool.hxx` | reference counts, free lists, waiting flows | `alloc()`, `alloc_async()`, `unref()` |
| CAN interface | `openlcb/IfCan.*`, `openlcb/IfCanImpl.hxx` | local and remote alias caches, the handler and write flows | conflict handling, enquiries, cache updates, sending |
| Alias cache | `openlcb/AliasCache.*` | pool, LRU list, free list, two sorted indexes | `add()`, `remove()`, `lookup()`, `clear()`, `retrieve()` |
| Alias allocator | `openlcb/AliasAllocator.*`, `openlcb/BulkAliasAllocator.*` | pending alias, CID sequence, conflict flag, timer, waiting clients, `seed_` | CID frames, 200 ms wait, RID frame, `get_allocated_alias()`, `return_alias()` |
| Datagrams | `openlcb/Datagram*` | per client `result_`, `sendPending_`, `isSleeping_`, `waitingClients_`, timer; parser's `pendingBuffers_` | `write_datagram()`, answers, timeout; framing and reassembly |
| Addressed and global parsers | `openlcb/IfCan.cpp` | buffers of unfinished messages by source | first, middle, last frame |
| Streams | `openlcb/Stream*`, `openlcb/MemoryConfigStream.hxx` | sender: window, bytes sent, ids, `sleeping_`, `requestInit_`, `requestClose_`; receiver: window, raw buffers, `streamClosed_`, `pendingCancel_` | initiate, data, proceed, close, cancel; a flow that reads a memory space into a stream |
| Memory configuration | `openlcb/MemoryConfig*` | client: request, offset, response code, timer; handler: offset, response, registered client; a pool of datagram clients | read, write, commands; replies |
| Events, node start, configuration update | `openlcb/Event*`, `openlcb/NodeInitializeFlow.hxx`, `openlcb/ConfigUpdateFlow.hxx` | handler registry, iterators, initialised nodes, listeners | identify, produce, register, refresh |
| Traction, broadcast time | `openlcb/Traction*`, `openlcb/BroadcastTime*` | controller, consist, speed; clock | controller assignment, speed, set and query |
| Hubs | `utils/Hub*.hxx`, `utils/DirectHub.*`, `openlcb/RoutingLogic.hxx` | ports, routing table | forward, register, unregister |
| Bootloader | `openlcb/Bootloader.hxx` | one loop over frames and flash | request, stream, finish |
| DCC | `dcc/` | packets, update loop, logon | send, refresh, assign |
| OS layer, drivers, BLE, formats | `os/`, `ble/`, `utils/GridConnect*`, SNIP/PIP/CDI | | |

### How they interact

One thread runs the executor. It takes an `Executable` (a state flow, a timer, a
callback) from a priority queue, runs one step of it and takes the next. Other
threads give it work with `add()` and `Timer::start()`. Inside the executor nothing
is preempted: a flow gives way only where it returns an action that waits, for a
buffer, a timer, another flow. Everything a flow read before such a point may be
stale after it; that is where most of the hazards below are.

A frame from the bus is dispatched to handler flows, which queue it and handle it
later in any order relative to each other; some handlers (`ConflictHandler`,
`AliasDefListener`, the `ReplyListener` of a datagram) do all they do in the dispatch
itself, between two steps of the flow they belong to. The alias caches are shared by
these flows. The datagram client waits for the answers dispatched to it; its own
mutual exclusion goes through the list of clients of the interface.

On top of the datagrams, a memory configuration client and the handler of the same node
share a pool of datagram clients and one incoming queue: requests of other nodes are
served by the handler, replies are passed on to the client. Streams use addressed
messages for initiate, proceed and close, and raw frames for the data, which take another
path through the interface and may be overtaken.

### What is hard

* *Executor and threads:* emptiness test and sleep are not one step; `restart()`
  touches a sorted list without the lock; shutdown races the start.
* *Timers and flows:* an answer may come before the timer runs, between the timer and
  its flow, or after the flow has given up.
* *Waiting for a buffer:* an alias, a cache entry, an index read before the wait.
* *Frames:* messages of several senders mix, senders restart in the middle, an owner
  answers later than the other side waits.
* *Requests and replies:* a reply names its address and nothing else; it may come after
  its request was given up, and two nodes that ask each other need each other's clients.
* *Streams:* the close overtakes data, a cancel meets messages of the old stream, window,
  buffer and frame sizes are unrelated.
* *Shared intrusive structures:* one `next` pointer per executable; two lists and two
  indexes over one pool.

`PROJECT.json` lists each of these as a hazard, at its line, with the properties
that would catch it.

## 2. Modules

| Module | Models | Extends / uses |
|---|---|---|
| `ExecutorLoop` | executor, timer list, wakeup, shutdown, threads | |
| `ExecutorLoopProofs` | theorems about it | `ExecutorLoop` |
| `DatagramClient` | `DatagramClientImpl`: turn, send, answer, timeout, hand-over | |
| `DatagramClientProofs` | mutual exclusion, answers, finished clients | `DatagramClient` |
| `DatagramCan` | `CanDatagramWriteFlow` and `CanDatagramParser` | |
| `DatagramCanProofs` | reassembly is exact, every datagram is settled, reasons to send again | `DatagramCan` |
| `AliasMap` | abstract: a bounded one-to-one LRU map | |
| `AliasCache` | pool, LRU list, free list and indexes | implements `AliasMap` |
| `AliasCacheProofs` | the lists and indexes stay consistent, the refinement of `AliasMap`, completeness of the answers of `AmeResponder` | `AliasCache`, `AmeResponder` |
| `AliasAllocation` | allocator, conflict handlers, cache updater and write flows of several interfaces on one bus | |
| `AliasAllocationProofs` | no alias twice, no stable duplicate, no stale mapping, no forgotten flow | `AliasAllocation` |
| `AliasSeed` | the alias sequence of an allocator, with the real 12-bit arithmetic | |
| `AddressedWrite` | destination lookup of `AddressedCanMessageWriteFlow` | |
| `AddressedWriteProofs` | the listener, the mark, and when a message is dropped | `AddressedWrite` |
| `MemoryConfig` | `MemoryConfigClient`, its `ResponseFlow` and `MemoryConfigHandler` of several nodes, over what `DatagramClient` shows | |
| `MemoryConfigProofs` | bytes are in order; between two nodes reads are whole and writes are there | `MemoryConfig` |
| `Stream` | `StreamSenderCan`, `StreamReceiverCan` and `MemorySpaceStreamReadFlow`, one of each | |
| `StreamProofs` | what the sink gets, the window, the last buffer | `Stream` |
| `AmeResponder` | `AMEGlobalQueryHandler` walking over the local cache | |
| `MC*` | symmetry sets and the function-valued constants of the configurations | the module of that name |

### ExecutorLoop

Variables have the names of the members, without the trailing underscore; flags of
timers are the sets of timers that have them. `pc` is the executor thread's place in
`entry()` and `wait_with_select()`, `tpc` the place of every other thread in
`add()`, `start()` or `shutdown()`, `lock` the holder of `ActiveTimers::lock_`. Each
access to shared state is a step of its own: `TimersLock`, `ExpireTimer`,
`TimersUnlock` are `get_next_timeout()`; `ClearWakeup`, `CheckEmpty`, `SelectEnter`,
`SemaphoreGet`, `SemaphoreWake`, `SelectLeave`, `NextAfterSelect` are `wait_with_select()`;
`ThreadListInsert`, `ThreadExchange`, `ThreadNotifyInsert` are `schedule_timer()` and
`notify()`; `ThreadWakeup` and `ThreadPost` are the two halves of
`OSSelectWakeup::wakeup()`. What a job or timer does when it is run is chosen freely:
return, add work, start, restart or trigger a timer. `RunExit` and `EntryReturn` are the end of
`entry()`: `done_` is set before the thread leaves it. `ThreadShutdown` looks at `started_` and
nothing else; where the code would insert what is queued already, the `HASSERT` of the insertion stops
the program (`failed`).

Time is counted in units of which `Ms` make a millisecond. `select()` turns the wait into whole
milliseconds, at least one, and these into ticks of `MsPerTick` (10 in the code), rounded up:
`SleepTicks`. The sleep is counted in ticks, and so is the clock: `Tick` ends one tick of
`TickLength` and takes a sleep one tick further. `TickAssumption` says that the RTOS runs at the rate
`OSSelectWakeup.cpp:79` names ("Default ThreadX timer tick = 10ms = 100 Hz") or faster. What
`OSTime::get_monotonic()` adds to tell two readings of one tick apart (1 ns) is left out. The
bound `MaxTime` limits the deadlines; the clock stops there, and only a sleep in progress runs down.
`overtaken` is an observation: the listed timers that an insertion by another thread has
passed by, in the middle of a `restart()`, though they expire before the new one.

### DatagramClient

All clients share one source node and one executor queue (`runq`), which holds flows
and expired timers in FIFO order. Between two of them an answer, a rejection or a
reboot of the destination may be dispatched (`HandleResponse`, `HandleReboot`), a
datagram may be lost, a timer may expire. `net` holds the unanswered datagrams, also the
ones their sender has given up: the answer to such a datagram still arrives, and a client that
is sending to the same node takes it for its own, as in the code. A failed `HASSERT` stops the model
and is named in `crashed`. `number`, `answered` (the datagrams whose answers made a client's
outcome) and `writes` are observation and bound.

### DatagramCan

A byte is a pair of datagram and position, so that a payload shows where its bytes
come from. `SendToHardware` and `FillFrame` are the write flow, `ParserEntry`,
`SendRejection` and `DatagramComplete` the parser with its waits for buffers;
`Restart` is a sender that loses its state and continues with the same alias. The
rejection code and whether a datagram is delivered are decided as in the code; the
message's header bytes are not kept.

### AliasMap and AliasCache

`AliasCache` keeps the object as one record, `c`: the pool's fields by slot, the two
index sets, the list heads. Each public operation is one action (the cache is used
from the executor only). The comparators of the sorted sets are modelled by what
`find()` returns. `told` is what an operation hands back: the mapping found, or the
mappings given to `removeCallback`. `Map` instantiates `AliasMap` with the LRU list
read off the pool; `ImplementsMap` is the refinement. `AliasMap` says what a list becomes by its
members and their order (`Reordered`), not by how it is put together: some mappings
leave, one may enter in front, and the others keep their order.

### AliasAllocation

`out` holds the frames an interface has handed to its frame write flow, `seen` the
frames that were dispatched to its handlers and not handled. `Transmit` puts one
frame on the bus: every other interface has it, and its `ConflictHandler` looks at it
there. `HandleFrame` is `AliasConflictHandler` and `RemoteAliasCacheUpdater`, which
use disjoint state and both take the frame in order; merging them loses only
orders of independent steps. The wait of `AliasConflictHandler` for a frame buffer between a
frame and the answer to it (`openlcb/IfCan.cpp:145`, `160`) is part of that step, so the answer
leaves in the state in which the frame was looked at; the frame itself may be handled as late as
`timely` allows. The order of flows on an executor is left open. The
write flows take, ask for and announce aliases, and `ReturnAlias` gives one back with
an AMR frame. The local cache is the abstract one of `AliasMap`, with room for all.

`timely`, chosen once in the initial state, says whether frames that concern an alias
are handled within the 200 ms its allocator waits. The code does not enforce this; the CAN
protocol assumes it. `UniqueAlias` is stated for such a bus, the other properties for
both. `strayed` is an observation: the interfaces of which a write flow announced an alias
that was lost meanwhile (section 4, `openlcb/IfCanImpl.hxx:127`).

### AliasSeed

`reinit_seed()`, the offset of `next_seed()` and `get_new_seed()` with a 48-bit ID as
four digits of 12 bits and the 12-bit field `seed_`. A turn of the loop in
`get_new_seed()` is a step. `AliasAllocation` abstracts this to any free alias.

### AddressedWrite

One message after the other: lookup, listener, AME frame, wait, Verify Node ID, wait,
mark as not responding, source alias, frames. `NewAlias`, `SendAmd`, `SendVerified`,
`LoseAlias` are destinations that come, announce themselves, change and go;
`UpdateCache` is `RemoteAliasCacheUpdater`, which handles the same frames later;
`GlobalEnquiry` is `AMEGlobalQueryHandler`'s clearing of the remote cache. The cache does not
evict here (`AliasCache` does), whether a source alias is there is left open, and the
frames of the message itself are one step.

### AmeResponder

The pool is seen through `retrieve()`; which free slot an addition uses is left open.
`owed` records the mappings that were there at the last enquiry, still are, and have
not been announced since.

### Stream

A receiver at one node asks again and again for a stream, and the read flow of a memory
space at the other node sends it. `snd`, `rcv` and `read` are the three flows as records
of their members; `toRcv` and `toSnd` are addressed messages under way, `data` the frames.
The paths are separate, as in the interface: a close may arrive before the last frames, a
proceed at any time; only the INITIATE of a stream may not be handled before older data,
since the data's parser is set up by it. Data are intervals of positions of a numbered
stream, so that the sink shows which stream its bytes come from. `SenderEntry` to
`SendCloseStream` are `StreamSenderCan`, `ReceiverWakeup` to `CancelRequest` are
`StreamReceiverCan`, `StartRead` to `WaitForClose` the read flow, with the choice of
stream ID. `SinkReleases` is the consumer of the bytes, which may be slow: raw buffers
are limited. An error of the memory space ends the stream early and shows as a shorter
length. `wait_for_stream_proceed()` tests for a window that came before it waits; no
handler can have run by then, so the model has no such branch.

### MemoryConfig

Every node has a client (`cli`) and a handler (`hnd`), and a pool of datagram clients that
both take from. The datagram layer is what `DatagramClient` shows: one open datagram per
pair of nodes (`Busy`), an outcome for each, and an answer that is matched by source
alone. `hq` is the handler's queue together with the datagrams still under way to it, since nothing
happens between the two; `dgs` are replies and `acks` answers under way, `rq` the queue of
`ResponseFlow`. Bytes are pairs of address and writing request. A memory space may give
fewer bytes than asked and go on later (`ERROR_AGAIN`), fail, or be at its end. `Reboot`
loses the state of a node, not its memory space; datagram clients that wait for it
end with `DST_REBOOT`.

A timer may run out at any time; as long as the system could go on by itself that counts
as a fault, together with lost messages and reboots, and is limited by `MaxFaults`. `clean`
says that no message of an earlier, abandoned request is under way; the properties about
complete results assume it, `BytesFromAddress` does not.

## 3. Runs

State counts are distinct states found by TLC.

| Run | Module, configuration | Outcome | States | What it shows |
|---|---|---|---|---|
| `executor_wakeup` | `MCExecutorLoop`, `ExecutorLoop_wakeup.cfg` | holds: `NoLostWakeup`, `SleepCoversTimers`, `InOnePlace`, `FlagsTellPlace` | 5,053,978 | Two threads add work, start timers and shut the executor down in every interleaving with its loop, while flows start, restart and trigger timers: no wakeup is lost, no sleep passes the first deadline by a tick or more, the intrusive lists and the flags stay consistent. |
| `executor_live` | `MCExecutorLoop`, `ExecutorLoop_live.cfg` | holds: `NoEarlyTimeout`, `ShutdownReturns`, `FirstBandRuns`, `TimerExpires` | 216,345 | Under fair scheduling what is queued in the first band runs, every timer expires and never early, also while work keeps arriving; shutdown() returns, before or after entry() has begun, unless work of a higher band never ends. |
| `datagram_turns` | `MCDatagramClient`, `DatagramClient_turns.cfg` | holds: `OnePerTarget`, `NoStolenAnswer`, `NothingLeftBehind`, `EveryDatagramFinishes` | 513,501 | Three clients, two destinations: answers, late answers, reboots, losses and timeouts in every order never break the mutual exclusion per destination, never lose a waiting client and leave a finished client clean; with a fair executor and timers every datagram finishes. |
| `alias_pool` | `MCAliasCache`, `AliasCache_pool.cfg` | holds: `Consistent`, `ImplementsMap` | 7,057 | Every sequence of add, remove, lookup and clear on a pool of three entries keeps the two lists and the two indexes consistent and behaves as the bounded LRU map. |
| `allocation_bus` | `MCAliasAllocation`, `AliasAllocation_bus.cfg` | holds: `UniqueAlias`, `DuplicateIsNoticed`, `StaleMappingIsCorrected`, `WaitingHasRequest` | 866,224 | Two interfaces with two write flows each reserve, use, defend and return aliases on one bus. When frames are handled within the 200 ms an allocator waits no alias is held twice; when they are not, no duplicate is stable. A node that lost its alias is on the way out of the remote caches. Every waiting write flow has a request that will wake it. |
| `datagram_frames` | `MCDatagramCan`, `DatagramCan_frames.cfg` | holds: `DeliveredIntact`, `DeliveredOrRejected`, `ResendOnlyAfterRestart` | 1,289,251 | Frames of two senders mix, senders restart in the middle of a datagram, datagrams are empty, exactly full or too long: what is delivered is whole, and every complete datagram is delivered or rejected. |
| `seed_cycle` | `MCAliasSeed`, `AliasSeed_cycle.cfg` | holds: `NoEarlyRepeat`, `DifferentAfterConflict` | 147,492 | The whole cycle of 4096 aliases for twelve pairs of near node IDs: nothing repeats early, and two allocators whose IDs lie in one block of 2048 part after every conflict. |
| `addressed_lookup` | `MCAddressedWrite`, `AddressedWrite_lookup.cfg` | holds: `ListensWhileLooking`, `MarkIsLifted`, `DroppedOnlyInSilence`, `EveryMessageLeaves` | 445,830 | Messages to two nodes that come, go, change and announce their aliases: the listener is registered exactly while it is needed, nothing is dropped after an answer, and a mark of a silent node is lifted by its next AMD frame; every message leaves in the end. |
| `ame_walk` | `MCAmeResponder`, `AmeResponder_walk.cfg` | holds: `EveryAliasAnnounced`, `EnquiryEnds` | 163,092 | The local cache changes and enquiries come in while the flow walks over the pool: nothing that stays mapped is left out, and the walk ends. |
| `stream_transfer` | `MCStream`, `Stream_transfer.cfg` | holds: `SinkInOrder`, `OkMeansWhole`, `WindowsAgree`, `LastBufferThere`, `NotifiedOnce`, `EveryReadEnds`, `EveryCloseReturns` | 118,714 | Three streams one after the other, with lost and late messages, a close that overtakes the data, cancels at any moment, a slow sink and stream IDs that run out: the sink gets a prefix of one stream and, without an error, all of it; the ends agree about the window; sender and receiver finish. |
| `stream_reuse` | `MCStream`, `Stream_reuse.cfg` | violated: `AvailableForReuse` | counterexample | A stream whose first message is not answered ends with an error; the next one that uses the same sender fails an assertion of start_stream(). |
| `memory_exchange` | `MCMemoryConfig`, `MemoryConfig_exchange.cfg` | holds: `BytesFromAddress`, `OkReadIsWhole`, `OkWriteIsThere`, `EveryoneComesToRest` | 805,078 | Two nodes read and write each other's memory over several datagrams, with one datagram client each for its own requests and for its replies, or with two; messages are lost or late, nodes reboot. What a request without an error promises is true unless old messages are still under way, bytes are never put at a wrong place, and everyone gets free again. |

### Properties worth a second look

* `NoLostWakeup`: the executor is in the semaphore wait, with time left, and its queue
  is not empty: then a token is there or some thread is between its insertion and its
  post. `SleepCoversTimers` is the same for deadlines: unless someone is about to notify, a
  sleep passes no deadline of the list by as much as one tick. The timers in `overtaken`
  are excepted: the executor does oversleep them (section 4).
* `ShutdownReturns`: the request to stop is queued in the last band. It is reached behind any
  work of that band; only work of higher bands that never ends keeps it waiting.
* `InOnePlace`, `FlagsTellPlace`: an executable is at most once in the queue's bands and the
  timer list together, and the flags of a timer tell where it is.
* `NoStolenAnswer`: an answer names its source only. A client may take the late answer to a
  datagram that was given up, its own or another client's (section 4), but never the answer
  another client still waits for; and exactly one answer makes its outcome, or none when it reports
  a timeout or a reboot.
* `DuplicateIsNoticed`: an alias held twice always has a frame under way that makes
  one side give it up, however late the frames are handled.
* `StaleMappingIsCorrected`: a node without an alias does not stay in a remote cache: the
  AMR frame that takes it out is in its queue or on the way. Not so once it is in
  `strayed`.
* `DeliveredOrRejected`: every datagram that reached the parser completely was
  delivered whole or rejected, also when frames of others came between.
* `FlagsTellPlace`, `NoStolenAnswer`, `NothingLeftBehind` and `Consistent` include smaller
  ones by name: `PendingMeansQueued`, `OneOutcome`, `OtherAsserts`, the types of the alias
  cache.
* `WindowsAgree`: what is under way and what the sender may still send never exceeds what
  the receiver has room for, and after a close is exactly what the receiver waits for.
* `OkMeansWhole`, `OkReadIsWhole`, `OkWriteIsThere`: success is never reported for half a
  transfer, whichever message was lost, late or overtaken.
* `EveryoneComesToRest`: two nodes that ask each other with their last datagram clients
  wait for each other, but not for good: timeouts give the clients back.
* `DroppedOnlyInSilence`: an addressed message is dropped only when no announcement
  of its destination was dispatched since the enquiry.

### Bounds and why they are enough

* `ExecutorLoop`: in `executor_wakeup` two threads, both of which may add, start a timer and shut
  down, one job, one thread timer, one flow timer, two bands: every race in the loop is between the
  executor and one or two threads, and a second band shows that the order of bands does not
  matter for wakeups. A millisecond is two units of time and a tick two milliseconds, so a wait
  falls within a millisecond and within a tick; `MaxSleep` 6 and one period of 6 up to `MaxTime` 10 let a
  sleep end by time, by a deadline and by a token. `MaxSem` 1: further tokens are not
  counted, one makes the wait return. `executor_live` has one thread and the smallest times, with
  starts, restarts, triggers and shutdown. `SelectPrescaler` is 1 in place of the default 5, so that the
  timers are looked at after every second executable. A timer is overtaken only among three; an
  instance with two flow timers, one thread timer and one thread (9.3 million states) was
  checked beside the runs: there `SleepCoversTimers` holds as well, and not without the exception.
* `DatagramClient`: three clients, two destinations, three datagrams: a client waits
  behind another, is overtaken by one that uses its object again, and late answers meet
  the next datagram.
* `AliasCache`: four IDs, two aliases and the mark, three entries: additions that
  displace by ID, by alias and by age at once.
* `AliasAllocation`: two interfaces with two write flows each, two aliases (so that both
  try the same), two messages, at most one dispatched frame not handled. No spare alias
  is kept (`Reserve` 0).
* `DatagramCan`: frames of 2 bytes and datagrams of up to 6 in place of 8 and 72; sizes
  0, 2, 3, 6, 7, 9 are empty, one frame, two, exactly full, one over and more than a
  frame over.
* `AliasSeed`: real numbers, the whole cycle of 4096 values; ten pairs of node IDs in one block
  of 2048, with carries through one, several and all of its 11 bits, and two pairs across blocks. It is a
  sample of the pairs, since the offset is not proved about.
* `AddressedWrite`: two destinations, two aliases, three messages, five frames: a
  node is marked, comes back under another's alias, is looked up again.
* `AmeResponder`: three entries, five changes, two enquiries: an entry is freed and
  used again before and behind the index.
* `Stream`: frames of 2 bytes, raw buffers of 2, proposed windows of 4 that the receiver cuts to 3, so
  that frames cross buffers and windows; lengths 0, 3 and 7 are nothing, less than a window
  and three windows. Three streams and `MAX_SEND_STREAM_ID` 1: the IDs run out.
  Two lost messages.
* `MemoryConfig`: spaces of 4 bytes, datagrams of 2 in place of 64; two requests, so that
  both nodes ask at once or one asks twice; one fault, which is a reply that meets the next
  request, or a reboot between answer and reply.

Where the models send a bounded number of messages they then rest;
`CHECK_DEADLOCK FALSE` is set there, and in the runs in which the executor thread
ends.

### Fairness

* Executor: the OS runs the executor thread and every thread inside a library call
  (weak fairness), and gives `ActiveTimers::lock_` to each thread that waits for it
  (strong fairness on the three acquisitions): the RTOS mutex queues its waiters.
  Threads are never forced to make a call. Time passes.
* `DatagramClient`, `AddressedWrite`, `AmeResponder`: the executor runs what is queued,
  active timers run down, buffers become free. Nothing is assumed of the network: no
  answer has to come.
* `Stream`, `MemoryConfig`: as long as a flow can run, a message is under way, a timer runs
  or the consumer holds a buffer, something happens (weak fairness of all of these
  together). Nothing is assumed of their order; nobody has to ask, and lost messages stay lost.

`FirstBandRuns` speaks of the first priority band only. Lower bands may starve while
work keeps arriving above them, the request to stop among them; `ShutdownReturns` says that
this is the only way in which it can.

## 4. Disagreements between code and its own words

`stream_reuse` is a run whose property is what a comment says of the code.

* `stream_reuse`, `openlcb/StreamSender.hxx:165`: after a timeout `sleeping_` stays set (only
  `stream_initiate_replied()`, `stream_proceed_received()` and `shutdown()` clear it), and after a
  timeout in a stream that was to be closed so does `requestClose_`. `clear()` resets
  neither, `done_stream()` gives the sender back to its allocator, and the next
  `start_stream()` fails `HASSERT(sleeping_ == false)`. The comment on `clear()`:
  "Sets the stream sender to be available for reuse after a stream has been closed or
  reached error."

The code disagrees with its words at other places, too. These have no run of their
own; the definition in parentheses states what does not hold, for a reader who wants
to add it to a configuration.

* `executor/Timer.hxx:219` (`SleepCoversTimers` without `overtaken`, with two flow timers, one thread
  timer, `Periods = {3, 6}` and `MaxTime = 7`): `restart()` writes
  `when_` of a timer that is in the sorted list before `update_timer()` takes `lock_`; a `start()` on another
  thread (documented for `SyncTimeout`, `openlcb/TractionClient.hxx:50`) that walks the
  list in between stops at the restarted timer and leaves behind itself timers that expire
  before it. `get_next_timeout()` ("Tell[s] when the first timer will expire") looks at the head
  only, so the executor sleeps past their deadlines, and hands them over late.
* `openlcb/DatagramImpl.hxx:219` (`HandOverAssert` with four clients of one destination and
  five datagrams): a notified client runs `acquire_srcdst_lock()` again and, when another
  client of the same destination has started meanwhile, waits behind that one while it keeps
  the clients it inherited; when it is handed the turn again, "HASSERT(c->waitingClients_.empty());" fails.
* `openlcb/AliasAllocator.cpp:359` (`TriggerAssert` of `AliasAllocation`): `ConflictHandler::send()`
  triggers the timer whenever the flow is to continue at `wait_done()`; a frame dispatched
  after `Timer::run()` and before `wait_done()` finds the timer neither active nor expired.
* `openlcb/MemoryConfigClient.hxx:754` (`NoMoreThanAsked`, one node reading 1 and then 2 bytes
  of one address): `ResponseFlow::entry()` takes any reply of the destination for the reply to the
  current request, and only address and space are compared. The late reply of a longer read that was given
  up completes a shorter one with more bytes than asked for.
* `openlcb/MemoryConfigClient.hxx:756` (`TriggerAssert` of `MemoryConfig`): `isWaitingForTimer_`
  is first set in the first request and stays set after a reply, and the client is registered with
  the handler before the next datagram clears it: a late reply in between triggers an idle timer.
* `openlcb/MemoryConfigClient.hxx:609`: a write past the end of the space returns success:
  `handle_write_error()` finishes the write at `ERROR_OUT_OF_BOUNDS` as a read does. A write whose
  datagram is answered without the reply-pending flag finishes after the first datagram even when more is left.
* `openlcb/MemoryConfig.hxx:647`: two clients of one handler at the same time fail the
  assertion of `set_client()`; the model has one.
* `openlcb/MemoryConfigStream.hxx:176`: `try_read()` hands the memory space an uninitialised error code,
  although `openlcb/MemoryConfig.hxx` says "The caller preset *error to zero". What is left on
  the stack may end the stream early or, as `ERROR_AGAIN`, let it wait for good
  (`ErrorLeftOver`; `EveryReadEnds` excepts it).
* `openlcb/StreamTransport.hxx:80`: stream IDs are never given back; after 27 streams
  `get_send_stream_id()` returns 0xFF, and the receiver rejects the stream.
* `openlcb/StreamSender.hxx:464` (`TriggerAssert` of `Stream`): a PROCEED that is dispatched after the 20 s timer
  has run and before the flow triggers an idle timer.
* `openlcb/StreamReceiver.cpp:315`: `cancel_request()` right after another notification that
  the flow has not run yet queues the flow twice (`NotifiedOnce` allows it when the request is
  cancelled).
* `openlcb/DatagramImpl.hxx:292`: an answer is matched by its source alone, so a client that sends to
  a node right after another datagram to it was given up may report the late answer to that one: success
  for a datagram the node has not accepted, or the error of another. `NoStolenAnswer` is what is left
  of the match.
* `openlcb/DatagramImpl.hxx:370` (`TriggerAssert` of `DatagramClient`): an answer dispatched between
  `Timer::run()` and the flow meets a timer that is neither active nor expired.
* `openlcb/IfCanImpl.hxx:465` (`TriggerAssert` of `AddressedWrite`): `AliasDefListener::send()` triggers
  the timer without looking at it; the listener is registered before the flow waits
  for the buffer of the AME frame, and still while it waits for that of Verify Node ID.
* `executor/Executor.cpp:347`: `shutdown()` "Waits until it is safe to delete the executor"
  (`executor/Executor.hxx:140`), but returns at once when the thread was created and has not reached
  `entry()`, which it then enters. `done_` is "Set to 1 when the executor thread has exited"
  (`executor/Executor.hxx:227`), but the thread sets it before it returns: `shutdown()` may return
  while the thread is still in `entry()` (`ThreadJoin` while `pc` is "ending").
* `executor/Executor.cpp:348` (`failed`): a `shutdown()` while another thread's is waiting, or the third
  one after another, inserts what is queued and fails the assertions of `utils/Queue.hxx:148`. After the
  first has ended the executor nobody takes the second request out of the queue.
* `openlcb/AliasCache.cpp:457` (`RetrieveOnlyAllocated`): `retrieve()` looks at the alias, which `remove()`
  and `clear()` leave in place, and reports free entries; its comment says "otherwise
  false if the entry is not allocated". So `AMEGlobalQueryHandler::fill_response()`
  (`openlcb/IfCan.cpp:455`; `AnnouncesMapping`) announces node ID 0 when the mapping was removed
  while it waited for the frame buffer.
* `openlcb/IfCanImpl.hxx:127` (`AnnouncesOwnAlias`): an alias lost while the write flow waits for the
  frame buffer is announced all the same. With two write flows the announcements of one node can also
  overtake each other, and a remote cache keeps the older alias. With three messages (`MaxMsgs`
  3) the announcement of a lost alias can follow the AMR frame that took it back, and when the
  node loses the alias it has by then, no frame corrects the remote caches:
  `StaleMappingIsCorrected` leaves out the nodes in `strayed` for this reason.
* `openlcb/AliasAllocator.cpp:258` (the second pair of `AcrossBlocks`): the offset is "guaranteed
  different for any two node IDs that are within 2048 of each other", but a carry into
  the next 12 bits can cancel the difference: 05.01.01.01.18.3F and 05.01.01.01.20.3C
  have the same offset. `DifferentAfterConflict` is what does hold: it speaks of IDs that differ in
  their lowest 11 bits only (`SameBlock`).

`trigger()` is the common factor of five of them: its precondition ("The timer must be
active or expired at the time of call.", `executor/Timer.hxx:232`) does not hold between
`Timer::run()` and the step of the flow, nor while a flow with a registered listener
waits for a buffer. A failed `HASSERT` stops the program, and stops the models too.

## 5. Proofs

All theorems hold for every value of the constants allowed by the `ASSUME`s of the
component's module, which fix only types, disjointness and, where flows are counted, that there
are finitely many. `ReadsAreWhole` and `WritesAreThere` are theorems about two nodes.

**Executor, `TypeCorrect` and `NoWakeupIsLost`** (`ExecutorLoopProofs`). `TypeOK` alone is
not inductive: a thread in the middle of `start()` must have an argument of the
right kind, so `TypeInv` adds `CallsInProgress`. Lemmas give the types of the
queue and list operators (`InsertType`, `TakeNextType`, `ListInsertType`,
`ListRemoveType`) and that `next_locked()` finds the first band (`FirstBandExists`,
by well-foundedness of the natural numbers). `NoLostWakeup` is proved from `WakeInv`,
which adds `SelectFlag` (`inSelect` is set between `SelectEnter` and `SelectLeave`) and `MarkLeft` (after `ClearWakeup`, a queue that is filled before the
flag is set leaves `pendingWakeup` behind, or a thread on its way to set it). That is
the argument of the code: whoever adds before the flag is seen by `SelectEnter` through the
mark, whoever adds after it sees the flag and posts.

**Executor, `EverythingIsInOnePlace` and `FlagsAreRight`** (`ExecutorLoopProofs`). The two
are one invariant, `PlaceInv`: a thing can only be shown to be added once if the flag
that was tested before tells where it is. It joins, for every reachable state, that no
band has anything twice (`QueueOnce`), nor the list, who holds the lock of the timer
list (`LockHeld`), what a thread on its way through `notify()` is going to insert
(`NotifyInv`), and where each timer is while it runs, is put back or is being armed
(`TimerFlags`). Nothing is assumed of who calls `shutdown()`: a call that would insert the
executor twice stops at the assertion.

**Executor, `NoTimeoutIsEarly`** (`ExecutorLoopProofs`). A timer is handed over against the
clock that `get_next_timeout()` read before it took the lock: `SnapshotIsPast` says that this
value is never ahead of the clock, and `when` is only written while the timer is not
expired.

**Executor, `SleepIsNeverTooLong`** (`ExecutorLoopProofs`). `SleepCoversTimers` for every executor,
with restarts and threads that start timers. `get_next_timeout()` reads the head of the list only, so
the list must be in the order of expiry: `ListOrdered` says it is, but for the timer that
`update_timer()` is about to move (`Moving`) and the overtaken ones, which are all that a walk over the
list can put out of order. `OthersAreLater`, `InsertKeepsOrder`, `RemoveKeepsOrder`,
`TailKeepsOrder` and `HeadIsFirst` are what the list operations do to the order. `WaitCovered` then
follows the wait from the end of `get_next_timeout()` to the semaphore: it is short enough for
every listed timer that is not overtaken unless the queue is filled or a thread holds the lock on its
way to `notify()`. A thread that finds `isPending_` set leaves without a wakeup: the queue is not empty
then (`NotifyInv`), and `NoLostWakeup` covers the rest. `SleepBounded` and `SleepIsShort` are the
conversion to ticks: what is left of the sleep, less one tick, is shorter than the wait.

**Datagrams, `MutualExclusion`** (`DatagramClientProofs`). At most one client per
destination is registered. `OnePerTarget` must be joined by `PendingWaits`: a
registered client is in its wait, so `write_datagram()`, which changes `dst_`, cannot be
called on it. Every action is one of four kinds of step (`TurnStep`), and
the invariant is proved for these.

**Datagrams, `AnswersAreNotStolen` and `FinishedIsFree`** (`DatagramClientProofs`). An answer names its
source only. `AnswerInv` says that a datagram its sender waits for went to the destination of
that client (`OpenGoThere`); with the mutual exclusion, a client that takes its answer is the
sender. `TakenIsFree` says that nobody waits for what was taken, and it stays so because the
datagrams of a client are told apart by their number (`Numbers`): the one it sends next is a new one.
`ResultOfState` gives the flags of `result_` and the answers taken in each state of the flow, from
which `OneOutcome` follows. Every action is one of five kinds of step (`AnswerKind`), for which the
parts are proved.
`NothingLeftBehind` needs to know where every client is: `PlaceInv` says that the queue has no
entry twice (`Distinct`), that a client waits in at most one list (`WaitsOnce`), and, for each
state of the flow, whether the client is in the queue, with its timer or in the list of
another client (`Place`). `HandOverPlaces` is the step that moves several clients at once. The
invariant holds until an assertion fails, and shows which ones can: the two of section 4.

**Alias cache, `ListsStayConsistent` and `CacheImplementsMap`** (`AliasCacheProofs`). For any IDs,
aliases and pool size. What `check_consistency()` tests follows the pointers from a list's
head, which no operation does; so the invariant, `CacheInv`, says that there are two
sequences of slots, the LRU list and the free list, that account for the fields. `Lists` has the pointers
(`Chain` forwards, `Back` backwards) and that the two share out the pool, `Keys` that both
sorted sets hold the used slots and that no two of them have the same node ID or the same stored
alias. The key of a node that does not respond is `NOT_RESPONDING` plus its slot, which is why
keys stay apart. `FollowIsChain` then shows that following the pointers yields the sequence, and
`FullMeansFull`, by counting, that the free list is empty exactly when the LRU list fills the pool.
Each operation has a lemma for what it does to the two sequences: `UnlinkKeeps` (remove from
anywhere in the list), `PopKeeps` and `EvictKeeps` (the entry that `add()` takes), `LinkKeeps`,
`TouchKeeps`, `ClearedIsSound`; between them `add()` has a slot in neither list, the last argument of
`Sound`. For the refinement, `Thinned` and `Rearranged` say the same of sequences of slots as
`Reordered` does of mappings; removals compose (`ThinnedTwice`), and keys being different, the
order of the slots is the order of the mappings (`ListOrder`).

**Enquiries, `NoAliasForgotten`** (`AliasCacheProofs`, last section). When the walk ends, every
mapping that was there at the last enquiry and still is has been announced since. The invariant `WalkInv`
says that what is owed is in the pool (`OwedIsThere`), ahead of the index unless a
rerun is due (`OwedIsAhead`), that `needRerun` agrees with the flow's state (`FlagTells`),
that an entry of a node has an alias, and that the flow waits at an entry of the pool.
`NothingSkipped` is the heart: `find_next()` passes only entries that owe nothing.

**Datagram frames, `ReassemblyIsExact`** (`DatagramCanProofs`). What the parser delivers is
`DeliveredIntact`. The buffer of a sender is only correct with respect to that
sender's next frame, so `FramesInv` relates three places: a frame carries the bytes of
one datagram from its start (`Made`), each frame in the queue of a sender begins where the
one before ends or begins a datagram (`ChainedAt`), and the next frame of the
sender, if it is not a first one, finds exactly the bytes before it in the parser's
buffer or no buffer at all (`MeetsAt`, with the flow's own offset as the last link).
A restart breaks the chain only before a first frame, which drops the old buffer.
`PartConcat` and `CutIsPart` are the facts about sequences, `ParserStep` and
`FillStep` the two ends of the chain. Frames of other senders do not matter
(`OtherSender`): buffers are kept by source.

**Datagram frames, `EveryDatagramIsSettled` and `ResendHasReason`** (`DatagramCanProofs`). `FramesInv`
says what a frame is; `OutcomeInv` adds what becomes of each datagram: its frames are still
to come, or it was given up by a restart, or it is delivered, or rejected, and which
of these excludes which (`OutcomeAt`). A datagram rejected before its end must leave no buffer
that its later frames would complete, and `FlowInv` says that these come next: a sender's queue
holds its own frames in the order of their datagrams, and what was begun is continued. `ResendInv` names the owner of a buffer (`OwnedAt`): one that a
first frame finds is of an earlier datagram, which must have been aborted; and a
middle or last frame without a buffer is of a datagram that was refused for that
reason (`ExcusedAt`).

**Addressed messages, `AmdLiftsTheMark`** (`AddressedWriteProofs`). The mark stays when the flow that
set it has given up, for as long as the node is silent. Given `LookInv` (below), a
destination is marked only in silence, so an AMD frame of a marked node came after the mark
and is still in the updater's queue, or has lifted it.

**Addressed messages, `ListenerIsBalanced` and `NoDropAfterAnswer`** (`AddressedWriteProofs`).
`LookInv` joins the types, the listener's registration (`ListensWhileLooking`), that the
flow has no alias in the states in which it looks for one (`LooksForAlias`), and
`SilentSoFar`: an announcement after the enquiry has either woken the flow or
given it the alias, so a flow that runs out of time has heard none.

**Aliases, `AliasIsUnique`, `DuplicatesAreNoticed`, `StaleMappingsAreCorrected` and
`WaitingIsAnswered`** (`AliasAllocationProofs`). For any number of interfaces, aliases and write
flows, messages and delay. `AliasIsUnique` is the argument of the protocol. Two allocators after
one alias: the second CID frame that reaches the bus tells the other allocator, so of two that
do not know of each other at most one has been heard (`OneProbes`, `AlarmIs`). An allocator and
a holder: from the moment the allocator has been heard, the holder has a frame with the
alias that it has sent or has to answer (`HolderAnswers`), which the allocator hears before its
200 ms are over, if frames are handled in time; a holder cannot appear in between, as it
would have been the other allocator. What is being allocated is not held by the interface
itself (`PendingIsFree`). `DuplicatesAreNoticed` needs no time: an alias comes into
being with an RID frame that tells the other holder (`OwnsNew`), and who handles such a frame
gives the alias up (`HandlerAnswers`, `FramesGo`). For `StaleMappingsAreCorrected`, `AnnouncedLast`
orders the frames of a node without an alias: after every AMD frame in the node's queue, and in what
another interface has still to handle, comes an AMR frame. The proof attempt showed that an
earlier form of the property was true only of the two messages of the run (section 4).
`WaitingIsAnswered` counts.

**Streams, `SinkGetsOneStream`, `OkIsTheWholeStream`, `WindowIsNeverOverrun`,
`LastBufferIsThere` and `OnlyCancelNotifiesTwice`** (`StreamProofs`). For any window, frame and buffer
sizes, stream lengths, losses and orders of arrival that the model allows. No message says which window it
belongs to, and neither end can look at the other, so all five need one invariant of
both ends and of what is between them, `Core`. Its parts follow the hazards. `Ids` and `Messages`: IDs
are never used twice, so a late message can be told from one of the present stream.
`Granted`: until the receiver has answered the present stream (`Early`), nothing was sent,
counted or promised. `Frames` and `Flow`: the frames under way follow one another and begin
where the receiver is, as long as it listens. `Window`: what is under way, plus what
the sender may still send, plus the window in an answer that has not arrived, is what the
receiver has room for; exactly one of the last two is not zero. `SenderInv`, `Control` and `Buffer`
say which flags belong to which state of each flow; a close is only sent with a window left
(`Window`), which is why a close that overtakes data never finds the window used up.
`Sink` is the conclusion. The invariant is stated for a state without a failed
assertion; `IInv` adds that the five properties also hold of the state in which one has failed
(`StartOnBusySender` is such a step: the finding of run `stream_reuse`). Each action has a lemma
(`...Keeps`); `FillKeeps` and `FrameStored` are about the loop of `handle_bytes_received()`,
which puts a frame into one buffer or two, `FreshId` about `get_send_stream_id()`.

**Memory configuration, `BytesAreInOrder`** (`MemoryConfigProofs`). `BytesFromAddress` holds
with late replies, timeouts and reboots although a reply names nothing but its address
and space. `BytesInv` says that every reply under way holds bytes in order from the
address it names (`Reply`), that a handler's response is such a reply (`HandlerInv`),
and that the address a client waits for is its first address plus the bytes it has
collected (`ClientInv`). A client takes only a reply that names the address it has come to, so any
such reply, also one to a request long given up, continues its bytes.

**Memory configuration, `ReadsAreWhole`, `WritesAreThere`** (`MemoryConfigProofs`). What a client
returns without an error is true of the other node's memory, unless a timeout or a reboot has
left something of an earlier exchange under way; `clean` records that. Both theorems have the
hypothesis `TwoNodes`, as a third node may write the same bytes before the answer
arrives; the requests and their number, the faults, the
size of the spaces and datagrams and the number of datagram clients are arbitrary. The invariant is
`BytesInv`, `SenderInv` and `PairInv`. `SenderInv`: what a node sends comes from its own client or
handler and goes to the other one, and its datagrams wait for each other. `PairInv` is about a clean node
n and the other one, d. `Open`: at most one datagram of n has no outcome yet, and n waits for
that one. `Stage`: the request of n, or the reply to it, is in one place at
most, and only while n expects a reply, so the reply it takes is the one to its last request.
`Serves` and `Arrived`: the handler of d, and any reply under way, hold what the memory of d holds
from the address asked for on, or the handler has stored what was asked. `Collected` says the same of
the bytes n has so far, and `Returns` is the conclusion. Each place where a datagram, a reply or an
answer is made, delivered, taken, lost or forgotten has a lemma for n's side and one for d's
(`Peer...`); the lemmas about `PairOf` say what they do to the invariant, for any queues and states.

**Types.** `TypeCorrect` is proved for the executor, the datagram clients, the datagram frames, the
alias allocation and the addressed write flow, `CacheTypeCorrect` and `ResponderTypeCorrect` for the
alias cache and the enquiry responder; the types of the streams and of the memory
configuration are part of `StreamInvariant` and `BytesInv`.

Only model-checked:

* `NoEarlyRepeat` and `DifferentAfterConflict` of `AliasSeed`: its bitwise operators are
  recursive, which the prover does not support.
* Everything about liveness: the prover cannot reason about fairness and `ENABLED`.

## 6. Not modelled, and the plan

Not modelled inside modelled components: file descriptors in the select of the
executor, `loop_once()`, `sync_run()`, `add_from_isr()`, `Timer::cancel()` and
`start_absolute()`; `DatagramClientImpl::cancel()`, which is not implemented in the
code; the `DatagramService` dispatcher; `seed_alias_allocator()`,
`clear_reserved_aliases()` and the Status/Error reactions of the allocator;
`StreamSenderCan::shutdown()` (no caller), the loopback of streams inside a node,
`MemoryConfigClientWithStream` and the stream request of the handler; the contents of
the commands without reply, the factory reset's lookup of its own node ID, and what memory spaces do
inside.

Not planned: GridConnect conversion, SNIP/PIP/CDI (formats), the OS layer (assumed), drivers and BLE
(hardware and vendor code), socket I/O, DCC bit timing, floating-point speeds.

Next modules, in this order:

1. `MessageParser`: `FrameToAddressedMessageParser` and `FrameToGlobalMessageParser`,
   with the frames of several senders, as `DatagramCan`.
2. `Barrier`, `BufferPool`: reference counts, `alloc_async` against an abstract
   counting resource.
3. `EventIteration`, `NodeInitialize`, `ConfigUpdate`: iteration with calls that wait
   while handlers come and go.
4. `Routing` and `DirectHub`: forwarding without echo, ports that close while a
   message is under way.
5. `BulkAllocator` on the bus of `AliasAllocation`; `Traction` (controller and
   consists), `BroadcastTime`, DCC logon; `Bootloader` last.

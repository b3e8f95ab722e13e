# A TLA+ model of volt_rec

volt_rec records antenna voltages that arrive as UDP packets. The repository
holds two programs: `full_custom`, a complete recorder written with pthreads,
and `half_hashpipe`, the receiving thread of a hashpipe pipeline in the middle
of being ported (it does not compile as it stands). This development models the
first, from its lock operations up to the whole process and its converter, and of
the second the receiving thread, its job queue and flows, the packet formats, the
observation parameters and the rawspec output.

## The system

### full_custom: four threads and two pools

    socket -> udp thread -> [datagram pool] -> worker -> [block pool] -> file thread -> files
                                 main thread: SIGINT, joins

| part | state | operations | what makes it correct |
|---|---|---|---|
| buffer pool (`common.c`) | `orderNo[]` (0 empty, -1 in use, k ready with order k), `dataLen[]`, `NReady`, two mutexes | `fetchEmptyBuffer`, `returnBuffer`, `returnEmptyBuffer`, `fetchBuffer`, `anyBufFull` | a buffer is in one thread's hands; lowest order first; a promise taken off `NReady` is kept; no deadlock |
| udp thread (`udp_thread.c`) | current buffer, next order number | fill a buffer with `N_READS_DEFAULT` datagrams, publish it; stop on an odd or empty datagram; SIGINT on error or timeout | every buffer it takes is returned once; silence ends the recording |
| worker (`processing_thread.c`) | a window of `N_FILE_BUFFERS_AT_A_TIME` blocks being filled, next order and packet number, last packet number sent, antenna table | sort a batch into the window; publish full blocks; publish blocks earlier than the last one sent; refill | a packet is in the block and the cell its header names; order numbers follow packet numbers one to one; incomplete blocks are given up only for a reason, oldest first |
| file thread (`file_thread.c`) | last order written, misses, the open file | write the next block; put an early block back; drop a late one; open a new file when a gap does not close | a file is gapless; files are in order; nothing is lost by a put-back; the header describes the blocks |
| main (`recorder.c`) | `keep_going` | signal handler, `pause` loop, joins | the process ends once the flag is cleared |
| packet format (`data_formats.h`) | none | bit fields, block filter and rest, 38-bit wrap | |
| converter (`converter.c`) | open files, a block of samples | transposes a recording into one file per antenna | every sample of an antenna is in its file, in the order of time and channel, also when a write fails |

The threads interact only through the two pools, the header fields kept beside
the block pool (`packetStart`, `antNumbers`) and the flag `keep_going`. The hard
parts are the two-mutex protocol of the pool, the polling that must end when the
flag is cleared, losses and reordering between the socket and the window, the
two thresholds that give up on missing data (`nStarted`, `MAX_ORDER_MISSES`),
arithmetic on packet numbers that wrap, and shutdown. `PROJECT.json` lists the
hazards line by line.

### half_hashpipe

    packet thread -> [input ring] -> ata_volt_outer_thread -> [output ring] -> downstream
       ^ flows (DESTIP)                  | jobs                                  rawspec -> files
       +----------- status buffer        +-> worker threads

| part | state | operations | what makes it correct |
|---|---|---|---|
| receive loop (`ata_volt_outer_thread.c`) | two working blocks, input index, drop and late counts, status buffer | wait for input, once a second re-read the status buffer, sort packets into the working blocks, hand over, renumber after a jump | blocks go downstream in ring order and in sequence, are not touched afterwards, counts and `STTVALID` are true, the thread ends when told to |
| job queue (same file, `USE_WORKER_THREADS`, compiled out) | ring of jobs, `num_queued`, `num_pending`, mutex, two condition variables | `push_job`, `pop_job`, `complete_job`, `wait_for_job_completion` | counters are true, no wake-up is missed, no job reaches into a block given away |
| flows (same file) | `DESTIP`, `NSTRM`, `nstreams`, the flow table | refuse, remove or install a destination | exactly the destination in force is listened to |
| F-engine packets (`hpguppi_mkfeng.h`) | dimensions, the last SPEAD header | parse, place in the block | every payload byte at the place of its antenna, channel and time |
| GUPPI packets (`hpguppi_udp.c`) | socket, expected size | open, wait, receive, six copying routines | a packet of the right size is copied to its own cells and no others |
| parameters (`hpguppi_params.c`) | dimensions, four allocated arrays | read, read sub-integration, free | arrays fit the dimensions, are freed once |
| rawspec output (`hpguppi_rawspec.c`) | per product a host buffer, a thread, a file | dump callbacks, writing thread, `rawspec_stop` | a dump is written whole before its buffer is filled again or its file closed |
| data buffers (`hpguppi_databuf.c`) | the ring's semaphores | wait and set free or filled | as the receive loop uses them |

## Modules

| module | models | composes |
|---|---|---|
| `PoolOps` | `findEmpty`, `findLowest` as operators on the `orderNo` array, named by their result; the loop of `findLowest` as the source has it | |
| `OrderedPool` | what the pool promises: one step per call, no mutex (abstract specification) | |
| `UdpBuff` | the pool at the granularity of its lock operations, any number of threads calling anything | `PoolOps`, refines `OrderedPool` |
| `RecorderState` | the variables the threads share, the packet geometry | `PoolOps` |
| `UdpThread` | `udp_recv_work` | `RecorderState` |
| `ProcessingThread` | `worker_work`; states `OrdersOnce`, `BlockContents` and `FullIsComplete`, which speak of its variables in `Worker` and in `Recorder` alike | `RecorderState` |
| `FileThread` | `file_writer_work`, `writeHeader` | `RecorderState` |
| `Worker` | the worker between a free-running receiver and writer | `ProcessingThread` |
| `Writer` | the file thread beside a free-running worker | `FileThread` |
| `Recorder` | the whole process with its main thread | the three threads |
| `OuterThread` | `run` of `ata_volt_outer_thread.c` between its input and its output ring | |
| `PacketJobs` | the job queue, its worker threads and spurious wake-ups | |
| `Flows` | the `DESTIP` part of the wait loop | |
| `OuterWorkers` | `init` and `run` built with the worker threads, and the flows | `OuterThread`, `PacketJobs`, `Flows` |
| `MkFeng` | dimensions, parser, `copy_packet_data_to_databuf`, `memcpy_nt` | |
| `GuppiUdp` | socket, size check, sequence number, the copying routines | |
| `Converter` | `main`, `convert`, `write_ext_header` | |
| `Params` | `hpguppi_read_obs_params`, `hpguppi_read_subint_params`, `hpguppi_free_psrfits`, `calc_ntime_per_block` | |
| `Formats` | one of the four before, chosen by `part` | `MkFeng`, `GuppiUdp`, `Converter`, `Params` |
| `Rawspec` | the dump callback, its thread, `rawspec_stop` | |
| `MCWorker`, `MCRecorder`, `MCOuterThread`, `MCOuterWorkers` | inputs for TLC | |
| `MCThreads` | either thread of the block pool, for one run | `Writer`, `MCWorker` |
| `MCFormats` | inputs for TLC; the dumps as one more `part` | `Formats`, `Rawspec` |
| `PoolOpsTheorems` | the loop of `findLowest`, theorems about `PoolOps`, induction over the naturals and the arithmetic of strides, used by the other proofs | |
| `UdpBuffProofs`, `WriterProofs`, `RecorderProofs`, `OuterThreadProofs`, `OuterWorkersProofs`, `RawspecProofs`, `FormatsProofs` | theorems about the module of that name | |

**Grain.** In `UdpBuff` a step is what happens between two lock operations, with
one variable per mutex and a `pc` per thread; `held` is a history variable, the
buffers each thread was given. In the thread modules a pool call is one step:
that is what the refinement `UdpBuff` => `OrderedPool` justifies, and there
`NReady` is the number of ready buffers. Between two pool calls a thread touches
only buffers it has, so sorting a batch or writing a block is one step as well.
`wSent` (orders the worker published) and `fed` are history variables. In
`OuterThread` a step is one packet, split where the code waits for the other threads
(`wait_for_block_free`, the wait for an input block) and after the status update;
`taken` and `epoch` (how often a jump renumbered the working blocks) are history.

In `PacketJobs` a step is a stretch under the queue's mutex: each function holds it from
end to end except while it sleeps. In `OuterWorkers` the boss takes the steps of
`OuterThread`, with `push_job` in place of the copy and with `wait_for_job_completion`
where the code calls it; reading `DESTIP` and acting on it are two steps, because the
status buffer is unlocked between them. In `Converter` a step is one antenna, one
read or one write. In `Rawspec` the host buffer is filled and written unit by unit.

**Data.** The copies of `MkFeng`, `GuppiUdp` and `Converter` are sets of moves from a unit of
the packet or recording to a cell; the buffer remembers which unit of which packet
each cell holds, so that a wrong stride, an overlap or a missing unit shows. The
unit is the largest the routine does not split (a byte, 16 bits, a sample, 8 bytes).
Sequence numbers go through their byte order as the code takes them, with `BYTE`
values to a byte. The reference layouts are stated apart from the code's strides
(`PlaceInBlock`, `Belongs`, `InRecording`, `InFile`), from the comments where these draw one. Two
of them leave something open, because code and comment disagree. `Belongs` for the transposed S6
layout fixes which two rows the channels of a pair are in, and not their order, which has to be the
same for all packets: the comment at `hpguppi_udp.c:398-403` draws the even channel first, the
code at 409-422 stores the odd one first. `SeriesAfter` has an antenna's file begin with
the whole header or with none; that every file has it, as `converter.c:159` says, is
`HeaderInEveryFile`, which the code violates. The widening of 4-bit components is
checked for all 256 bytes.

The loop that sorts a batch into the window is stated by what it leaves behind: each
window position counts down by the packets that go there, and a cell holds the last
packet copied to it. The code's loop carries nothing else from packet to packet.

A packet is its header (packet number, antenna, channel group, voltage
bit); a block is a function from cells to packets, and a cell nobody wrote is
zero (`NoData`), so that a wrong offset, old data or a wrong block shows. A file is
its header and its blocks. `GET_PACKET_FILTER` and `REST` are arithmetic on
`TIME_INT_PER_BUFFER` instead of masks; packet numbers wrap at `PCKT_NO_RANGE`.
The test of the second pass keeps the mix of signed and unsigned operands.

**Undefined behaviour.** `dataLen` starts with any value. `lastSentPacketNo` is read
before it is written: its first value is any member of `StackGarbage`. Passing
a structure with a mutex by value (`anyBufFull`) is a copy whose two fields are
read in either order without a lock; a copy that caught the mutex locked never
returns (`Hung` in `UdpBuff`, `FileHang` in `FileThread`).

In `OuterThread` the sizes in a `block_info` that never got a packet and `status_seq_num`
are uninitialised: members of its `StackGarbage`.

**External.** The operator who writes `DESTIP`, `hpguppi_ibvpkt_flow` (may fail), the F-engines, the
network, `malloc`, and the GPU that fills rawspec's host buffers. The callers of
`hpguppi_udp.c` and `hpguppi_params.c` are not in the repository: they copy each accepted
packet with the routine of its format, and read the parameters at any time and free
them once, at the end. For `OuterThread`: hashpipe's ring semaphores, the packet thread (each input
block holds any of the packets sent meanwhile, in any order, and bad ones), the
downstream thread, `run_threads`. For the recorder: the socket (`Arrives`): the traffic is a sequence of sets, one packet
of each set arrives, then silence. pthread mutexes. The operator's SIGINT.

**Mutants.** A definition followed by a suffixed name just above it
(`findEmpty_FirstUsable`, `Cleared_Not`, ...) is a plausible mistake in that code,
kept to show that the properties notice it; no specification uses it.

## Runs

| run | bounds | states | shows |
|---|---|---|---|
| `udpbuff` | 2 threads, 2 buffers, orders 1..2, 2 lengths, fairness | 92 thousand | `TypeOK`, `ExclusiveOwnership`, `PromiseKept`, `NoIntegrityError`, `PoolInv`; `Refines`: the pool implements `OrderedPool`; `LocksReleased`, `CallsReturn` |
| `threads` | the worker: 2 antennas, window 4, 5 block buffers, blocks of 3 packets, 4 batches (whole blocks, parts of blocks, an antenna's share, the last packets of two blocks, unwanted packets, none), stack values 0 and 4. The file thread: 5 buffers, 5 blocks, 2 misses | 1.4 million | `BlockContents`, `OrdersOnce`, `FlushHasReason`, `WindowIsFound`, `FullIsComplete`; `FilesInOrder`, `BlocksIntact`, `NothingLaterLost` |
| `recorder` | 2 datagram buffers of 2, window 2, 4 block buffers, 4 datagrams of which others were lost, odd sizes | 763 thousand | `NoSharing`, `FirstFileIsRecording` |
| `recorder_ends` | 1 datagram buffer, 2 datagrams, empty ones, one operator SIGINT, fairness | 88 thousand | `ThreadsEnd`, `RecordingEnds`, `MainEnds` |
| `outer` | 2 input and 2 output blocks, blocks of 2 indices x 2 slots, 9 packets in 5 input blocks of 2 with a jump, one change of `obs_info`, 2 stack contents, fairness | 631 thousand | `NextBlockComes`, `HandedInSequence`, `HeaderCountsPackets`, `DropsAccounted`, `ValidOnlyInside`, `HandedUntouched`, `ThreadEnds` |
| `outer_workers` | 1 input and 2 output blocks, 4 packets that advance and renumber the working blocks, 2 workers, a queue of 2 entries (it holds 1 job), 2 writes of `DESTIP` out of 4 strings, `MAXFLOWS` 0 or 2, failing flows, fairness | 458 thousand | `JobsCounted`, `JobsWithinBlocks`, `FlowsInForce`, `WaitEnds` |
| `formats` | 7 geometries of a 60-byte block, 10 streams of 1 to 4 packets, 32 recordings of 1 to 4 antennas, 48 status buffers read 3 times; 2 products, 3 dumps of 2 units, 2 failures, fairness | 50 thousand | `PacketsInPlace`, `CopiesExact`, `ConvertedInPlace`, `ArraysFit`, `DumpsIntact`, `StopEnds` |
| `worker_wrap` | the worker of `threads`, with 0 on the stack, 4 blocks before the wrap | violation | `FlushIsDownward`: a block after the wrap is given up while earlier ones are kept |
| `writer_header` | the file thread, window 2, 4 buffers, 6 blocks | violation | `EveryHeaderRight`: the header of a second file is wrong |
| `recorder_zero` | empty datagrams | violation | `IntegrityHolds`: a buffer is returned twice, the process dies on its own assertion |
| `outer_reset` | as `outer`, one start | violation | `CountersReset`: a recording starts with drops counted before it |
| `convert_header` | as `formats` | violation | `HeaderInEveryFile`: only the first antenna's file has the header |

The runs that end in a violation check what the source says of itself and does not do;
`PROJECT.json` quotes the comment or assertion beside each ("findings").

**Why the bounds are enough.** At most two threads use each pool of the program, and two
buffers let one be fetched while another is promised; the safety properties are
proved for any number of both. A window of 4 with a fifth buffer is the
smallest in which the `nStarted` rule (all but one) and the half-window arithmetic
differ from "any" and "all", and in which two full blocks, an earlier and a later
incomplete one fit. The single spare buffer comes back
within the run, so that old data would show. In `recorder` a window of 2 makes the worker give up blocks
after a single loss. For the file thread five blocks, of which any may not come, allow new files
and late blocks after them. `MaxBatches`, `MaxBlocks`, the length of `Traffic`, `MaxInterrupts` and
`MaxOrder` bound the runs; `nMisses` is capped where the code no longer tells
values apart. `CHECK_DEADLOCK FALSE` in the runs of the threads and of `formats`: the process
ends, or dies in `error()`, and a converter, a block of packets or a rawspec run is done.

In `outer` rings of two blocks make the thread wait for the downstream thread at every
hand-over; the stream lets a batch be lost, so that jumps of every length, late packets
and packets in either working block occur, and goes on after a jump far enough for a
block to be handed over. `PKTSTART` is set before the start and the geometry does not
change while the thread runs. `pkts_per_block` is a constant of its own, 3 with 4 places in a block:
the code divides the block's size by the payload's, and its comment says
"this check is invalid, since we use different packet numeration"
(`ata_volt_outer_thread.c:164-165`). So no property claims that `NDROP` is the number of packets lost:
`HeaderCountsPackets` says that the packets of `NPKT` are in the block and that `NDROP` is made from this
`NPKT` and not left from another use of the block, `DropsAccounted` that what the headers report
reaches the status buffer once. The text at lines 67-75 has these counters reset when a recording starts.
The code does not do that (`outer_reset`), and `DropsAccounted` counts from the start of the thread.

In `outer_workers` the queue holds one job, so that it is full, empty and wraps within
the run; the four packets make the boss wait at each of its three places with a
job open. In `formats` the dimensions include ones that do not divide the block, ones
that fit no block and incomplete ones; each copying routine has a stream, with
packets of other sizes where the size decides the strides; recordings end within a
time step, have antennas of the same number, or too many. There is one old 1SFA packet to a
block (see "Edges"). Its five parts do not
interact; they are one run because they ask one question, whether data are where the
layout says, and a behaviour is a behaviour of one of them. Three dumps of rawspec
let a failure be followed by two that succeed. `threads` is in the same way two systems: `alone`
says which thread a behaviour is about.

The worker of `threads` stays away from the wrap, where two of its properties are false.
`worker_wrap` begins at block 16 of the 20 of `PCKT_NO_RANGE`: a full block before the wrap is
sent, its position is refilled with packet number 0, which compares as earlier and is given up
empty, while the blocks before it are kept (`processing_thread.c:179`). Away from the wrap the
property, `FlushIsDownward`, holds because one threshold decides, so that run is the only one it
has. With the same constants TLC also violates `WindowIsFound`: the packet numbers of the first window
are not masked, those that follow are.

`FlushHasReason` excepts what the first value of `lastSentPacketNo` does. It is read
uninitialised at line 179, and blocks of the first window may be given up though nothing was sent:
with the value 4 of `StackGarbage` they are. And although
line 149 says "sending all that are full, and all earlier", a block earlier than one
that was sent may be kept: the first pass overwrites `lastSentPacketNo` in the order of
window positions (line 156), so two blocks completed by one batch may leave a still
earlier one for a later batch, as happens in `threads`. No property claims the contrary. `Worker` also keeps to the source's stated
assumption that no header comes twice. `recorder_ends` has two spare block buffers
beyond the window, `data_formats.h` has 14; with a single one, which
`processing_thread.c:45` accepts, TLC finds the worker spinning for an empty buffer
while the file thread waits for the block the worker still has.

**Fairness.** In `OuterWorkers` also each worker is scheduled; nobody counts on spurious
wake-ups, which are possible and not fair. `WaitEnds` speaks of the time while the
threads are to run: after `run_threads` is cleared workers leave with jobs queued, and
the boss may wait for ever. In `Rawspec` (`DumpFairness`) the GPU, the writing threads and the caller of
`rawspec_stop` are scheduled, and a `write` either fails or accepts something. In `OuterThread` the thread is scheduled and the downstream thread keeps
taking blocks (weak fairness of each): without the second assumption
`wait_for_block_free`, which does not look at `run_threads`, need not return. In `UdpBuff` a thread inside a call keeps running (weak fairness of its
own steps), and a mutex that is released again and again is eventually got
(strong fairness of `Acquire`; pthread mutexes do not promise it, but a poller sleeps
between attempts). No thread is obliged to call anything. In `Recorder` each of
the four threads is weakly fair, as the scheduler is; `recvfrom` returns at the
latest by `SO_RCVTIMEO`, and traffic is finite. Nobody has to send SIGINT. A second
timeout comes after the pending SIGINT was delivered (half a second).

`ThreadsEnd` and `MainEnds` except a file thread hung in `anyBufFull`, which is what the
code does. `MainEnds` speaks of a main thread that sees the flag or gets a further
SIGINT: one that tested the flag just before it was cleared sleeps in `pause`.

## Proofs

`PoolOpsTheorems` proves that the loop of `findLowest` computes what the models take it to.
`findLowest` is defined by its result, the first ready buffer of least order number;
`findLowestLoop` is the source's loop, which from `lowVal = INT_MAX` keeps a strictly smaller order number
and its index. `FindLowestLoop`: they are equal, for every array. The invariant of the turns (`Scanned`) is
that after k turns the loop holds the first least entry below k; `ScanExists` gives the recursive function
its values and `OneTurn` is the step, both without an operator parameter. Two lemmas say what the
scans return: -1 exactly when nothing qualifies, otherwise an empty buffer, or a ready one. The
existence of a least order number is `LeastNat`, from the library's well-founded
induction on sets of naturals. From it also follows `NatSetInduction`: a set of naturals that
contains 0 and each successor contains every natural. It is induction stated about a set, which
the provers can instantiate where they cannot instantiate an operator. `StrideUnique` and
`StrideBound` say that `n * q + r` with `r < n` determines `q` and `r`, and how large it is.

`UdpBuffProofs` proves, for every set of threads, every number of buffers and every
`MaxOrder` below `INT_MAX`:

* `PoolInvariant`: `Spec => []PoolInv`;
* `TypeCorrect`, `OwnershipIsExclusive`, `PromisesAreKept`, `IntegrityNeverFails`: the
  four safety properties of the run, from it;
* `PoolRefinement`: `Spec => Refines`.

The inductive invariant. `PromiseKept` is not inductive: that a promise is covered
follows from a count. `PromiseCount` says that the ready buffers are those `NReady`
offers, plus one for each fetch between its promise and its collection, plus the
one a `returnBuffer` has entered and not counted. It needs `LockInv` (only one thread
is behind each mutex, so at most one return is uncounted), and `ExclusiveOwnership`
(an entry that is returned was not ready before). `ArgInv` carries ownership from the
call of a return to the step where it takes effect, which is what makes
the assertions unreachable. `TypeOK`'s bound on `NReady` follows from the count.
The step lemmas (`TypeStep`, `LockStep`, `ArgStep`, `OwnStep`, `CountStep`,
`IntegrityStep`) have a case per action.

The refinement maps the owner of a buffer to the thread that holds it and the queue
to the ready buffers with their order and length. `fetchEmptyBuffer`,
`returnBuffer`, `returnEmptyBuffer` and `fetchBuffer` take effect at `FeTake`, `RbBody`,
`ReBody` and `FbBody`; every other step is a stutter.

Assumptions: a finite set of threads, at least one buffer and one length, and
`NoOrderOverflow` (`MaxOrder < IntMax`): `findLowest` does not find an order number
of `INT_MAX` or more.

`WriterProofs` proves `FilesInOrder`, `BlocksIntact`, `NothingLaterLost` and that the pool's
assertions hold for the file thread, for any pool, any number of misses and any order in
which blocks are published (`MaxBlocks < INT_MAX`). `WriterInv` adds to the properties:
`HandsInv`, because only a buffer that is in use and not the worker's keeps its contents;
`ContentInv`, which follows a block from its publication through put-backs to the file;
`StartInv`, because the first file's header is taken from `packetStart` before a second one
changes it; and in `FilesInv` that the last block on disk is `lastOrd`, without which "the
next order" says nothing about the files.

`RecorderProofs` proves, of the process with all four threads, `NoSharing`, `OrdersOnce` and
`FirstFileIsRecording` for any pools, window, geometry, antennas, traffic and stack contents.
The three theorems have two hypotheses, each of which the code needs: no empty
datagram arrives (`recorder_zero` shows what happens otherwise), and `[]OrdersFit`, the
order numbers stay within `INT_MAX` (`common.c:71`). `RecorderInv` consists of

* `UdpHands`, `BlockHands`: who has which buffer, at every step of each thread. They
  exclude that a returned buffer was in other hands, which is what the assertions test;
* `Published`: what is ready, or in the file thread's hands, was published;
* `OrdersOnce`: with it, the block of order k is one block;
* `BeforeFirst`: until the first batch nothing was sorted, so that the recording's start
  may be chosen at that batch;
* for some packet number s, `Numbered(s)` (packet numbers follow order numbers from s; those
  of the first window are not masked, the later ones wrap), `Contents(s)` (every buffer in
  the window, ready or being written holds packets of its own block in their cells) and
  `FirstFile(s)`.

Its lemmas on the declarative sort (`SortedSlots`, `SortedData`) say that a packet
lands in the one position whose packet number is its own, which needs the numbers of the
window to be distinct modulo `PCKT_NO_RANGE`.

Two more theorems about the same process, under the same hypotheses:

* `BlocksAsPublished`: `BlockContents` holds while there is at most one file. That restriction is
  part of what the property says: `FileNewFile` moves `packetStart`, which blocks
  published before are then not relative to. It follows from `Numbered` and `Contents`.
* `FullBlocksComplete`: `FullIsComplete` holds if no header comes twice (`NoDuplicates`, the
  assumption of the comment at `processing_thread.c:134`; a duplicate would count `nToFull` down
  without filling a cell). Its invariant `CountInv` says that `nToFull` of every
  window position is the number of its empty cells (`Counted`). That a packet sorted into a
  cell finds it empty needs `WaitingOnce` (a packet is in one datagram at one place) and
  `SortedOnce` (what is in a cell arrived earlier and waits in no datagram). `SortFills`
  shows that the packets of a batch for a position fill as many empty cells as it counts.

`OuterThreadProofs` proves `NextBlockComes`, `HandedInSequence`, `ValidOnlyInside` and the action
property `HandedUntouched` for any rings (at least two output blocks), any geometry, any
stream and any uninitialised values. `OuterInv` is made of `RingInv` (the filled blocks are
exactly those from the downstream thread's up to the first working block, measured as
a distance around the ring), `HeaderInv` (which blocks have a final header), `NumberInv` (the
working blocks have consecutive numbers of the current epoch), `SequenceInv` (the sequence
goes on from what was taken through the filled blocks to the first working block) and
`ValidInv` (`STTVALID` speaks of the number the first working block has or is about to get).

`HeaderCounts` proves `HeaderCountsPackets`, for any `pkts_per_block`, for the streams in which no packet comes twice
(`NoDuplicates`; the stream of the run is one): the code counts a packet that comes again, so
that without it NPKT may be more than the block holds. `CountInv` says that a working block holds
at least the packets it counts, in cells of their own, and knows its size as soon as it
counts one. That a stored packet adds a cell needs `Fresh`: what the thread has still to read
is in no output block (reading and storing are several steps apart, and the packet thread
fills input blocks meanwhile), and each packet in an output block is in its own cell, so that a
cell with a packet of the same block would hold the same packet.

`DropsReported` proves `DropsAccounted` without further hypotheses. Both sides are sums over
blocks that come and go: `IsSum(t, f, n)` says that t lists the partial sums of `f[1]`, ...,
`f[n]`; `SumExists` and `SumUnique` (induction over n) show that there is exactly one such t, so that
the recursive function in `SumTo` has its values, and `SumChanges` says what a sum becomes when one term changes. A hand-over changes one
term from 0 to the block's `NDROP` and adds it to `ndrop_total`, a consumed block moves from
the ring's sum to the end of the other.

`OuterWorkersProofs` adds the job queue, any number of workers, a queue of any size and any
`DESTIP` strings: `JobsCounted`, `JobsWithinBlocks`, `FlowsInForce`, and the ring's order again.
`AllInv` is `OuterInv` with `JobsInv` (the entries from `idxold` on hold jobs, a worker has a job
exactly while it is at "complete"), `WithinInv` (nothing is pending while the
thread has no input block or waits for an output block) and `FlowsInv`. `NoJobAssumption`:
`NoJob` is not a job.

`RawspecProofs` proves `DumpsIntact` for any number of products, dumps, units and failures.
`RawInv` has `BufferInv` (the host buffer holds the last complete dump whenever its thread
runs), `FileInv` (dumps are in the file in order and without gaps, the one being written up to
`bytes_remaining`) and `StopInv` (`rawspec_stop` closes no file of a running thread).

`FormatsProofs` proves three of the properties of `Formats` for every size:

* `PacketsPlaced`: `PacketsInPlace` for all dimensions, payload sizes and orders of packets.
  `MkInv` says that the places of the packets that arrived hold their bytes and that nothing else
  holds any; it adds the second half to the property, without which a full block could not be
  shown to have exactly `BLOCSIZE` bytes. The row, slot and byte of a place are the digits of a
  mixed-radix number (`PlaceByRows`), so that two bytes never share a place (`PlaceUnique`)
  and every place is somebody's (`PlaceOnto`). `CopiedBytes` says the copying loop with
  its `memcpy_nt` stores writes these places. Assumption `RowsAssumption`: a payload is whole
  rows, a heap is whole payloads and a row is whole stores, as the comment
  at `ata_volt_outer_thread.c:363` assumes. (With other sizes the code copies past the payload
  or drops the end of a row, see "Edges".)
* `RecordingConverted`: `ConvertedInPlace` for every recording, any number of antennas and
  channels, antennas that share a number among them, and a short write at any step. `ConvInv`
  says that T steps were read for some T, that each descriptor is at the end of T - 1 or T
  whole steps depending on whether its turn in this step has come (`Done`), and that the file of
  an antenna with a number of its own is the prefix of its series up to there, or, after a
  short write, a little further. The property alone is not inductive: it says nothing about
  descriptors, and a length is no place for the next write. `PrefixCount` shows that a file has no
  hole, `AddedSamples` that a write adds the samples of one step in order, `PrefixWritten` that a
  prefix plus what is written is a longer prefix.
* `ParameterArraysFit`: `ArraysFit` for any contents of the status buffer and any number of reads.
  `ParInv` says that the live allocations after a read are the four arrays at the places malloc
  gave them and nothing else, filled from one content of the status buffer, which need not be the
  present one: the operator changes it between reads, and `ReadSubint` reads its sizes again
  without allocating. The property alone is not inductive: it counts allocations, and the
  free at the start of the next read needs to know where they are. `PolarisationValues` shows
  that the values of a polarisation are `nchan` apart in an array, `SamplesFit` that
  the halving loop of `calc_ntime_per_block` and its shift give a number of samples that fits while
  twice as many do not; both bounds are by induction on the number of samples (`ShiftedBounds`,
  through `NatSetInduction`). Assumption `ParAssumption`: the operator writes no negative sizes, and
  the values of `OFFSETn` and `SCALEn` are named apart, one for each polarisation.

Before they were proved, TLC checked `MkInv`, `ConvInv` and `ParInv` on the instance of the run
`formats` (T bounded), and `CountInv` on small recorders.

`ConvertedInPlace` leaves open which files have the header (`HeaderLengths`); the proof shows that the one of the
first antenna does, and no other.

Only model-checked: liveness (`LocksReleased`, `CallsReturn`, `ThreadsEnd`, `RecordingEnds`, `MainEnds`,
`ThreadEnds`, `WaitEnds`, `StopEnds`), which is out of the prover's reach; `WindowIsFound`
and `FlushHasReason`, which are false at the wrap (see
above); and `CopiesExact`, whose sequence numbers go through eight digits to the base `BYTE`.

## Not modelled

Command line parsing (invalid arguments end `main` before a thread exists, so the
arguments are constants), `initSocket` (failure is `error()` before the first
step), the bytes of samples, file names and descriptors, messages. A short first
datagram is modelled by a buffer with one packet less; the shifted bytes read as
headers are packets of the traffic. In `OuterThread`: rates and times
in the status buffer, changes of geometry or of `PKTSTART` while it runs.
`USE_WORKER_THREADS` is not defined in the source, and the copy inside the worker is
compiled out (`#if 0`, line 681): a job that is open writes nowhere, and `JobsWithinBlocks` says
what the copy would need. `PacketJobs` and `OuterWorkers` model the queue as it would be built.
In `Params`: header text, file names, pointing, dates and the values of `DEBUGOUT`. In
`Rawspec`: `update_fb_hdrs_from_raw_hdr`, which copies floating-point header fields. In
`GuppiUdp`: the flags word, which nobody reads. Code between `#if 0` and `#endif`.

Not modelled at all: `hpguppi_time.c` (floating-point calendar arithmetic without state),
the vendored SLALIB (`sla.c`, `slalib.h`, `f77.h`), creation and attachment of the shared
memory of `hpguppi_databuf.c` (calls of hashpipe), build files and the plotting script.

## Edges outside the runs

Met while modelling; the hazards in `PROJECT.json` are the ones the properties are for.

* `common.c:71`: an order number of `INT_MAX` or more is ready and never found (assumption
  `NoOrderOverflow` of the proofs).
* `processing_thread.c:138`: after a gap longer than the window every packet is too new, and the
  window does not move again; the source says so. Line 104: antennas are known from the first
  batch only. `file_thread.c:50`: until the first block is written a gap is never given up.
  `file_thread.c:92` closes a descriptor that may never have been opened.
* `converter.c:162`: antennas that were never heard share a file name. Lines 139 and 144: the
  antenna numbers are read before their count is checked, and four antennas are refused.
* `ata_volt_outer_thread.c:259`: cells of dropped packets keep an earlier block's data. Line 1530:
  a header carries the `STTVALID` of the block before. Line 579: a packet whose job is
  refused is counted all the same. Line 371: a payload that is not a multiple of a row is
  read beyond its end, and `memcpy_nt` (`hpguppi_util.c:101`) drops the end of rows that
  are not a multiple of its word. Line 1434: dimensions that fit no block divide by zero.
* `hpguppi_mkfeng.h:407`: an item a packet does not have keeps the value of the packet before.
* `hpguppi_udp.c:53`: a failing `bind` leaks socket and address list. Line 158: a packet of less
  than 16 bytes has a huge data size. Line 201: an expanded 8160-byte packet is longer than
  `hpguppi_udp_packet_datasize` says, and a second one in the block overlaps it: TLC violates
  `CopiesExact` with `packets_per_block` 2 in that stream. Line 409: the
  odd channel of a pair comes first, the comment above draws the even one (`CopiesExact` takes either). Line 511: `npol`
  other than 2 and 4 copies an uninitialised array.
* `hpguppi_params.c:196`: the arguments of `strstr` are exchanged, and `FOLD` is known to one of the
  two functions only. Lines 206 and 374 divide by a `bytes_per_dt` that may be 0; the loop
  at line 481 does not end for a block of no sample; a read after a free frees twice.

## Plan

Done: the pool, its abstract specification; the three threads; the process; the
converter; the receiver of half_hashpipe with its job queue and flows; packet formats,
parameters, rawspec output. Proved: the pool and its refinement, the file thread, the
process without empty datagrams (ownership, order, contents and completeness of blocks), the
receiver with and without workers (order, counts, drops, flows), rawspec, the place of F-engine
packets, the converter and the parameter arrays.

Left: `CopiesExact`, from lemmas on digits; a change of geometry with open blocks and `PKTSTART` set
meanwhile (`OuterThread`).

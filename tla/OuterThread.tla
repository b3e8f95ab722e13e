----------------------------- MODULE OuterThread -----------------------------
(***************************************************************************)
(* The run function of half_hashpipe/ata_volt_outer_thread.c: takes input  *)
(* blocks of packets from the packet thread, sorts the packets into two    *)
(* working blocks of the output ring by their packet index, and hands a    *)
(* block downstream when a packet two blocks later arrives.  The status    *)
(* buffer tells it when to record and is where it keeps its counts.        *)
(*                                                                         *)
(* External: hashpipe's ring semaphores and run_threads, the packet thread *)
(* that fills the input ring, the downstream thread that empties the       *)
(* output ring in order.                                                   *)
(***************************************************************************)
EXTENDS Integers, Sequences, FiniteSets

CONSTANTS
    n_block_in, n_block,    \* blocks of the input and of the output ring
    npkts_per_block_in,     \* packets per input block
    pktidx_per_block,       \* packet indices per output block
    nslots,                 \* packets that share a packet index
    pkts_per_block,         \* packets per output block, as the thread computes it
    Stream,                 \* the packets sent during each input block
    Starts, dwell_blocks,   \* PKTSTART values; the dwell time in blocks
    StackGarbage,           \* what the uninitialised variables may contain together
    MaxSeconds              \* bound: how often obs_info changes

ASSUME RingAssumption == n_block_in \in Nat \ {0} /\ n_block \in Nat \ {0, 1}
ASSUME BlockAssumption ==
    /\ pktidx_per_block \in Nat \ {0} /\ nslots \in Nat \ {0}
    /\ npkts_per_block_in \in Nat \ {0} /\ pkts_per_block \in Nat \ {0}
    /\ dwell_blocks \in Nat
    /\ Stream \in Seq(SUBSET [pktidx : Nat, slot : 0 .. nslots - 1]) /\ Starts \subseteq Nat
    /\ StackGarbage \subseteq [pktidxs : Nat, pkts : Nat, status_seq_num : Nat]
    /\ MaxSeconds \in Nat

\* A packet is its index and its place among those that share it; Bad is one
\* of another payload size or of an antenna out of range.
Bad == [pktidx |-> -1, slot |-> -1]
Packets == UNION {Stream[k] : k \in DOMAIN Stream}
BlkNum(p) == p.pktidx \div pktidx_per_block
\* The places for packets in a block.  pkts_per_block is eff_block_size /
\* payload_size, which need not be their number: the code's own comment says
\* that it is not.
Cells == 0 .. pktidx_per_block * nslots - 1
CellOf_NoSlot(p) == (p.pktidx % pktidx_per_block) * nslots
CellOf(p) == (p.pktidx % pktidx_per_block) * nslots + p.slot

VARIABLES
    inFilled, inPkts,   \* the input ring: which blocks are filled, and with what
    producer,           \* the packet thread: input blocks filled so far
    filled, hdr, data,  \* the output ring
    consumer, taken,    \* the downstream thread: next block; the headers it got
    run_threads,
    status,             \* the fields of the status buffer that the thread uses
    opc,                \* where the thread is
    block_idx_in, i,    \* the input block and the packet in it
    obs_valid,          \* obs_info is valid
    wblk,               \* the two working blocks
    status_seq_num, ndrop_total, nlate,
    seconds,            \* changes of obs_info so far
    epoch               \* history: how often the working blocks were reset

inRing == <<inFilled, inPkts, producer>>
outRing == <<filled, hdr, data, consumer, taken>>
counts == <<status_seq_num, ndrop_total, nlate>>
vars == <<inRing, outRing, run_threads, status, opc, block_idx_in, i, obs_valid, wblk,
          counts, seconds, epoch>>

\* Blocks of dbout are zeroed, and the first two get the status buffer as their
\* header; of wblk, init_block_info leaves the two sizes unset.  status_seq_num
\* is not initialised either.
Init ==
    /\ inFilled = [b \in 0 .. n_block_in - 1 |-> FALSE]
    /\ inPkts = [b \in 0 .. n_block_in - 1 |-> <<>>]
    /\ producer = 0
    /\ filled = [b \in 0 .. n_block - 1 |-> FALSE]
    /\ data = [b \in 0 .. n_block - 1 |-> [c \in Cells |-> Bad]]
    /\ consumer = 0 /\ taken = <<>>
    /\ run_threads = TRUE
    /\ \E s \in Starts : status = [PKTSTART |-> s, PKTSTOP |-> 0, STTVALID |-> 0,
                                   PKTIDX |-> 0, NDROP |-> 0, NLATE |-> 0]
    /\ hdr = [b \in 0 .. n_block - 1 |-> IF b \in 0 .. 1 THEN status ELSE <<>>]
    /\ opc = "wait"
    /\ block_idx_in = 0 /\ i = 1
    /\ obs_valid \in BOOLEAN
    /\ \E g \in StackGarbage :
         /\ wblk = [k \in 0 .. 1 |-> [idx |-> k, num |-> k, pktidxs |-> g.pktidxs,
                                      pkts |-> g.pkts, npacket |-> 0, ndrop |-> 0,
                                      epoch |-> 0]]
         /\ status_seq_num = g.status_seq_num
    /\ ndrop_total = 0 /\ nlate = 0
    /\ seconds = 0 /\ epoch = 0

------------------------------------------------------------------------------
\* The neighbours.  What is sent during an input block is reordered and lost in
\* any way that fits the block; the other places of the block hold bad packets.

Batches(sent) ==
    {b \in [1 .. npkts_per_block_in -> sent \cup {Bad}] :
       \A k, m \in DOMAIN b : b[k] = b[m] => k = m \/ b[k] = Bad}

Fill ==
    /\ ~inFilled[producer % n_block_in]
    /\ producer < Len(Stream)
    /\ inFilled' = [inFilled EXCEPT ![producer % n_block_in] = TRUE]
    /\ \E batch \in Batches(Stream[producer + 1]) :
         inPkts' = [inPkts EXCEPT ![producer % n_block_in] = batch]
    /\ producer' = producer + 1
    /\ UNCHANGED <<outRing, run_threads, status, opc, block_idx_in, i, obs_valid, wblk,
                   counts, seconds, epoch>>

Consume ==
    /\ filled[consumer]
    /\ taken' = Append(taken, hdr[consumer])
    /\ filled' = [filled EXCEPT ![consumer] = FALSE]
    /\ consumer' = (consumer + 1) % n_block
    /\ UNCHANGED <<inRing, hdr, data, run_threads, status, opc, block_idx_in, i, obs_valid,
                   wblk, counts, seconds, epoch>>

StopThreads ==
    /\ run_threads
    /\ run_threads' = FALSE
    /\ UNCHANGED <<inRing, outRing, status, opc, block_idx_in, i, obs_valid, wblk, counts,
                   seconds, epoch>>

------------------------------------------------------------------------------
\* Waiting for an input block

\* Every second obs_info is read again from the status buffer, where the
\* operator may have completed it or made it invalid.
NextSecond ==
    /\ opc = "wait"
    /\ seconds < MaxSeconds
    /\ seconds' = seconds + 1
    /\ obs_valid' = ~obs_valid
    /\ UNCHANGED <<inRing, outRing, run_threads, status, opc, block_idx_in, i, wblk, counts,
                   epoch>>

FreeInput ==
    /\ inFilled' = [inFilled EXCEPT ![block_idx_in] = FALSE]
    /\ UNCHANGED <<inPkts, producer>>

Leave_Unfilled ==
    /\ opc = "wait"
    /\ ~run_threads /\ ~inFilled[block_idx_in]
    /\ opc' = "done"
    /\ UNCHANGED <<inRing, outRing, run_threads, status, block_idx_in, i, obs_valid, wblk,
                   counts, seconds, epoch>>

\* The thread is told to end: the main loop's condition, or the test after the
\* wait, which frees the input block if the wait got one.
Leave ==
    /\ opc = "wait"
    /\ ~run_threads
    /\ \/ inFilled[block_idx_in] /\ FreeInput
       \/ UNCHANGED inRing
    /\ opc' = "done"
    /\ UNCHANGED <<outRing, run_threads, status, block_idx_in, i, obs_valid, wblk, counts,
                   seconds, epoch>>

\* Without a valid obs_info the input block is dropped.
DropInput ==
    /\ opc = "wait"
    /\ run_threads /\ inFilled[block_idx_in] /\ ~obs_valid
    /\ FreeInput
    /\ block_idx_in' = (block_idx_in + 1) % n_block_in
    /\ UNCHANGED <<outRing, run_threads, status, opc, i, obs_valid, wblk, counts, seconds,
                   epoch>>

TakeInput ==
    /\ opc = "wait"
    /\ run_threads /\ inFilled[block_idx_in] /\ obs_valid
    /\ opc' = "packet"
    /\ i' = 1
    /\ UNCHANGED <<inRing, outRing, run_threads, status, block_idx_in, obs_valid, wblk,
                   counts, seconds, epoch>>

EndInput ==
    /\ opc = "packet"
    /\ i > npkts_per_block_in
    /\ FreeInput
    /\ block_idx_in' = (block_idx_in + 1) % n_block_in
    /\ opc' = "wait"
    /\ UNCHANGED <<outRing, run_threads, status, i, obs_valid, wblk, counts, seconds, epoch>>

------------------------------------------------------------------------------
\* One packet: first the status buffer, at the first packet of a block

p_u8pkt == inPkts[block_idx_in][i]

IgnorePacket ==
    /\ opc = "packet" /\ i <= npkts_per_block_in
    /\ p_u8pkt = Bad
    /\ i' = i + 1
    /\ UNCHANGED <<inRing, outRing, run_threads, status, opc, block_idx_in, obs_valid, wblk,
                   counts, seconds, epoch>>

StartsBlock(p) == /\ p.pktidx % pktidx_per_block = 0
                  /\ p.pktidx # status_seq_num

RoundDown(x) == x - (x % pktidx_per_block)

PendingDrops_Kept == ndrop_total
PendingDrops == 0

UpdateStatus ==
    /\ opc = "packet" /\ i <= npkts_per_block_in
    /\ p_u8pkt # Bad
    /\ opc' = "manage"
    /\ IF StartsBlock(p_u8pkt)
       THEN /\ status' = [status EXCEPT
                 !.PKTIDX = p_u8pkt.pktidx,
                 !.PKTSTART = RoundDown(@),
                 !.PKTSTOP = RoundDown(status.PKTSTART) + pktidx_per_block * dwell_blocks,
                 !.NDROP = @ + ndrop_total,
                 !.NLATE = @ + nlate]
            /\ status_seq_num' = p_u8pkt.pktidx
            /\ ndrop_total' = PendingDrops
            /\ nlate' = 0
       ELSE UNCHANGED <<status, counts>>
    /\ UNCHANGED <<inRing, outRing, run_threads, block_idx_in, i, obs_valid, wblk, seconds,
                   epoch>>

------------------------------------------------------------------------------
\* ... then the working blocks

\* The status field STTVALID after check_start_stop.
check_start_stop(pktidx) ==
    [status EXCEPT !.STTVALID =
        IF status.PKTSTART <= pktidx /\ pktidx < status.PKTSTOP THEN 1 ELSE 0]

\* What finalize_block knows of the drops, and writes into the header.
Dropped(w) == IF w.pkts > w.npacket THEN w.pkts - w.npacket ELSE w.ndrop
Finalized(w) == [PKTIDX |-> w.num * w.pktidxs, NPKT |-> w.npacket, NDROP |-> Dropped(w),
                 num |-> w.num, epoch |-> w.epoch, status |-> hdr[w.idx]]

increment_block_SameNumber(bi, block_num) ==
    [bi EXCEPT !.idx = (@ + 1) % n_block, !.npacket = 0, !.ndrop = 0]

increment_block(bi, block_num) ==
    [bi EXCEPT !.idx = (@ + 1) % n_block, !.num = block_num, !.npacket = 0, !.ndrop = 0]

init_block_info(bi, block_num) ==
    [bi EXCEPT !.num = block_num, !.pkts = pkts_per_block, !.npacket = 0, !.ndrop = 0]

Shifted_NotCopied(p) == [wblk EXCEPT ![1] = increment_block(@, BlkNum(p))]
Shifted(p) ==
    [k \in 0 .. 1 |-> IF k = 0 THEN wblk[1] ELSE increment_block(wblk[1], BlkNum(p))]

\* A packet of the block after the two: the first is handed downstream, and
\* the thread waits for the block that takes its place in the ring.
AdvanceBlocks ==
    /\ opc = "manage"
    /\ BlkNum(p_u8pkt) = wblk[1].num + 1
    /\ hdr' = [hdr EXCEPT ![wblk[0].idx] = Finalized(wblk[0])]
    /\ filled' = [filled EXCEPT ![wblk[0].idx] = TRUE]
    /\ ndrop_total' = ndrop_total + Dropped(wblk[0])
    /\ wblk' = Shifted(p_u8pkt)
    /\ status' = check_start_stop(wblk[1].num * pktidx_per_block)
    /\ opc' = "waitfree"
    /\ UNCHANGED <<inRing, data, consumer, taken, run_threads, block_idx_in, i, obs_valid,
                   status_seq_num, nlate, seconds, epoch>>

BlockFree_Assumed == TRUE
BlockFree == ~filled[wblk[1].idx]

\* wait_for_block_free: it polls until the block is free, then copies the
\* status buffer into the block's header.
WaitForBlockFree ==
    /\ opc = "waitfree"
    /\ BlockFree
    /\ hdr' = [hdr EXCEPT ![wblk[1].idx] = status]
    /\ opc' = "store"
    /\ UNCHANGED <<inRing, filled, data, consumer, taken, run_threads, status, block_idx_in,
                   i, obs_valid, wblk, counts, seconds, epoch>>

Discontinuous(p) == \/ BlkNum(p) < wblk[0].num - 1
                    \/ BlkNum(p) > wblk[1].num + 1

ResetStatus_Kept(p) == status
ResetStatus(p) == check_start_stop((BlkNum(p) + 1) * pktidx_per_block)

\* The stream jumped: the working blocks stay where they are in the ring and
\* are given the two numbers after the packet's block.
ResetBlocks ==
    /\ opc = "manage"
    /\ Discontinuous(p_u8pkt)
    /\ wblk' = [k \in 0 .. 1 |->
                  [init_block_info(wblk[k], BlkNum(p_u8pkt) + k + 1)
                     EXCEPT !.epoch = epoch + 1]]
    /\ epoch' = epoch + 1
    /\ status' = ResetStatus(p_u8pkt)
    /\ opc' = "packet"
    /\ i' = i + 1
    /\ UNCHANGED <<inRing, outRing, run_threads, block_idx_in, obs_valid, counts, seconds>>

LatePacket ==
    /\ opc = "manage"
    /\ BlkNum(p_u8pkt) = wblk[0].num - 1
    /\ nlate' = nlate + 1
    /\ opc' = "packet"
    /\ i' = i + 1
    /\ UNCHANGED <<inRing, outRing, run_threads, status, block_idx_in, obs_valid, wblk,
                   status_seq_num, ndrop_total, seconds, epoch>>

\* copy_packet_data_to_databuf, and the block's counts.
StorePacket ==
    LET k == BlkNum(p_u8pkt) - wblk[0].num IN
    /\ opc \in {"manage", "store"}
    /\ k \in 0 .. 1
    /\ data' = [data EXCEPT ![wblk[k].idx][CellOf(p_u8pkt)] = p_u8pkt]
    /\ wblk' = [wblk EXCEPT ![k].pkts = pkts_per_block, ![k].pktidxs = pktidx_per_block,
                            ![k].npacket = @ + 1]
    /\ opc' = "packet"
    /\ i' = i + 1
    /\ UNCHANGED <<inRing, filled, hdr, consumer, taken, run_threads, status, block_idx_in,
                   obs_valid, counts, seconds, epoch>>

Outer == \/ NextSecond \/ Leave \/ DropInput \/ TakeInput \/ EndInput
         \/ IgnorePacket \/ UpdateStatus
         \/ AdvanceBlocks \/ WaitForBlockFree \/ ResetBlocks \/ LatePacket \/ StorePacket

Next == Outer \/ Fill \/ Consume \/ StopThreads

Spec == Init /\ [][Next]_vars

\* The thread is scheduled, and the downstream thread keeps taking blocks.
FairSpec == Spec /\ WF_vars(Outer) /\ WF_vars(Consume)

------------------------------------------------------------------------------
\* The variables keep their types (struct block_info, the rings' indices, the
\* thread's place in its loops).
TypeOK ==
    /\ inFilled \in [0 .. n_block_in - 1 -> BOOLEAN]
    /\ filled \in [0 .. n_block - 1 -> BOOLEAN]
    /\ data \in [0 .. n_block - 1 -> [Cells -> Packets \cup {Bad}]]
    /\ producer \in 0 .. Len(Stream) /\ block_idx_in \in 0 .. n_block_in - 1
    /\ consumer \in 0 .. n_block - 1
    /\ opc \in {"wait", "packet", "manage", "waitfree", "store", "done"}
    /\ i \in 1 .. npkts_per_block_in + 1
    /\ wblk \in [0 .. 1 -> [idx : 0 .. n_block - 1, num : Nat, pktidxs : Nat, pkts : Nat,
                            npacket : Nat, ndrop : Nat, epoch : Nat]]
    /\ status.STTVALID \in {0, 1}
    /\ ndrop_total \in Nat /\ nlate \in Nat /\ status_seq_num \in Nat

\* finalize_block and increment_block keep the ring's order: the block that the
\* downstream thread waits for is the one handed over already, or the first
\* working block, so that it never waits for a block that the thread skipped.
NextBlockComes == filled[consumer] \/ wblk[0].idx = consumer

\* A block that finalize_block has handed downstream is not written to before
\* the downstream thread frees it, whatever packets arrive (wait_for_block_free
\* is what guards copy_packet_data_to_databuf).
HandedUntouched ==
    [][\A b \in 0 .. n_block - 1 :
         filled[b] /\ filled'[b] => data'[b] = data[b] /\ hdr'[b] = hdr[b]]_vars

\* Between two discontinuities the downstream thread gets every block number
\* in turn: no block of a continuous stream is skipped or given twice.
HandedInSequence ==
    \A k \in 1 .. Len(taken) - 1 :
      taken[k].epoch = taken[k + 1].epoch
        => taken[k + 1].num = taken[k].num + 1

\* The blocks that were handed over, with their final headers.
Handed == [k \in {n \in 0 .. n_block - 1 : filled[n]} |-> [hdr |-> hdr[k], data |-> data[k]]]

Short(npkt) == IF pkts_per_block > npkt THEN pkts_per_block - npkt ELSE 0
PacketsOf(blk) == {c \in Cells : blk.data[c] # Bad /\ BlkNum(blk.data[c]) = blk.hdr.num}

\* What a block's header counts comes from this use of the block.  The packets
\* in NPKT are there, each in a place of its own; and NDROP is what finalize_block's
\* check makes of NPKT, not of a count left from the last use of the block or of
\* the size that init_block_info did not set.  That NDROP is the number of packets
\* lost is not claimed: a comment on the check says "this check is invalid, since
\* we use different packet numeration // We actually have NANTS * FREQCHAN packets
\* per block" (ata_volt_outer_thread.c:164-165), so pkts_per_block is any number.
HeaderCountsPackets ==
    \A k \in DOMAIN Handed : Handed[k].hdr.NPKT > 0 =>
      /\ Handed[k].hdr.NPKT <= Cardinality(PacketsOf(Handed[k]))
      /\ Handed[k].hdr.NDROP = Short(Handed[k].hdr.NPKT)

\* f[1] + ... + f[n]
SumTo(f, n) ==
    LET sum[k \in 0 .. n] == IF k = 0 THEN 0 ELSE sum[k - 1] + f[k] IN sum[n]

\* The drops that the headers report: those of the blocks downstream, and
\* those of the blocks on their way.
DropsTaken == [k \in 1 .. Len(taken) |-> taken[k].NDROP]
DropsHanded == [k \in 1 .. n_block |-> IF filled[k - 1] THEN hdr[k - 1].NDROP ELSE 0]

\* No drop is lost between the headers and the status buffer: what the status
\* buffer reports and what still waits in ndrop_total are the drops of all the
\* blocks handed downstream, those before the recording included.  The text at the
\* head of the file has them reset when it starts, which the code does not do
\* (CountersReset).
DropsAccounted ==
    status.NDROP + ndrop_total = SumTo(DropsTaken, Len(taken)) + SumTo(DropsHanded, n_block)

\* When the recording starts "The packet stats counters are reset", as the text
\* on the states says (ata_volt_outer_thread.c:67-75, 2nd item).  check_start_stop
\* sets STTVALID and the start time, and leaves the counters as they are.
CountersReset ==
    [][status.STTVALID = 0 /\ status'.STTVALID = 1
         => status'.NDROP = 0 /\ status'.NLATE = 0]_vars

\* STTVALID says that the first working block is to be recorded: after a jump
\* out of the recording, or a step past its end, check_start_stop clears it.
ValidOnlyInside ==
    status.STTVALID = 1 => /\ status.PKTSTART <= wblk[0].num * pktidx_per_block
                           /\ wblk[0].num * pktidx_per_block < status.PKTSTOP

\* The thread ends once it is told to, even from the middle of an input block
\* and although wait_for_block_free does not look at run_threads.
ThreadEnds == ~run_threads ~> opc = "done"
==============================================================================

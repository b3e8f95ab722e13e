-------------------------- MODULE OuterThreadProofs --------------------------
(***************************************************************************)
(* The safety of ata_volt_outer_thread.c's run function, for any ring      *)
(* sizes, any stream of packets and any contents of the uninitialised      *)
(* variables: OuterInv is inductive and implies that blocks are handed     *)
(* over in order, in sequence and with a true STTVALID, every step keeps   *)
(* its hands off the blocks handed over, with CountInv the packet counts   *)
(* in their headers are right, and no dropped packet is lost on the way    *)
(* from the headers to the status buffer.                                  *)
(***************************************************************************)
EXTENDS OuterThread, PoolOpsTheorems, FiniteSetTheorems, TLAPS

------------------------------------------------------------------------------
\* The inductive invariant

InBlocks == 0 .. n_block_in - 1
OutBlocks == 0 .. n_block - 1

Statuses == [PKTSTART : Nat, PKTSTOP : Nat, STTVALID : {0, 1}, PKTIDX : Nat, NDROP : Nat,
             NLATE : Nat]
FinalHeaders == [PKTIDX : Nat, NPKT : Nat, NDROP : Nat, num : Nat, epoch : Nat,
                 status : Statuses]
Headers == Statuses \cup FinalHeaders \cup {<<>>}
InputBlocks == [1 .. npkts_per_block_in -> Packets \cup {Bad}]
BlockInfos == [idx : OutBlocks, num : Nat, pktidxs : Nat, pkts : Nat, npacket : Nat,
               ndrop : Nat, epoch : Nat]

\* What TypeOK leaves open: the packets of an input block, the status buffer,
\* the headers and what was taken of them.
MoreTypes ==
    /\ inPkts \in [InBlocks -> InputBlocks \cup {<<>>}]
    /\ status \in Statuses
    /\ hdr \in [OutBlocks -> Headers]
    /\ taken \in Seq(FinalHeaders)
    /\ epoch \in Nat

\* The thread is at a packet of a filled input block, and past UpdateStatus it
\* is a good one.
AtPacket ==
    /\ \A b \in InBlocks : inFilled[b] => inPkts[b] \in InputBlocks
    /\ opc \in {"packet", "manage", "waitfree", "store"} => inFilled[block_idx_in]
    /\ opc \in {"manage", "waitfree", "store"} => i <= npkts_per_block_in /\ p_u8pkt # Bad

\* The place after b in the output ring, and how far b is after the block
\* that the downstream thread waits for.
Succ(b) == IF b = n_block - 1 THEN 0 ELSE b + 1
Distance(b) == IF b >= consumer THEN b - consumer ELSE b - consumer + n_block

\* The filled blocks are those from the downstream thread's on up to the first
\* working block; the second working block is the next one, and it is free
\* except while the thread waits for that.
RingInv ==
    /\ wblk[1].idx = Succ(wblk[0].idx)
    /\ \A b \in OutBlocks : filled[b] <=> Distance(b) < Distance(wblk[0].idx)
    /\ opc # "waitfree" => ~filled[wblk[1].idx]

\* A filled block has a final header; a working block has a copy of the status
\* buffer, the second one once the thread has waited for it.
HeaderInv ==
    /\ \A b \in OutBlocks : filled[b] => hdr[b] \in FinalHeaders
    /\ hdr[wblk[0].idx] \in Statuses
    /\ opc # "waitfree" => hdr[wblk[1].idx] \in Statuses

\* The working blocks have consecutive numbers and the current epoch; nothing
\* handed over is of a later one.
NumberInv ==
    /\ wblk[1].num = wblk[0].num + 1
    /\ wblk[0].epoch = epoch /\ wblk[1].epoch = epoch
    /\ \A b \in OutBlocks : filled[b] => hdr[b].epoch <= epoch
    /\ \A k \in 1 .. Len(taken) : taken[k].epoch <= epoch

\* Two headers may follow each other downstream.  What the downstream thread
\* will find at b is a final header, or what the first working block becomes.
Follows(h, next) == h.epoch = next.epoch => next.num = h.num + 1
Upcoming(b) == IF b = wblk[0].idx THEN wblk[0] ELSE hdr[b]

\* HandedInSequence goes on through the filled blocks to the first working
\* block.
SequenceInv ==
    /\ HandedInSequence
    /\ \A b \in OutBlocks : filled[b] => Follows(hdr[b], Upcoming(Succ(b)))
    /\ taken # <<>> => Follows(taken[Len(taken)], Upcoming(consumer))

\* PKTSTOP is unset, or PKTSTART is rounded down and PKTSTOP the dwell time
\* after it: a further UpdateStatus changes neither.
ValidInv ==
    /\ ValidOnlyInside
    /\ \/ status.PKTSTOP = 0
       \/ /\ status.PKTSTART = RoundDown(status.PKTSTART)
          /\ status.PKTSTOP = status.PKTSTART + pktidx_per_block * dwell_blocks

OuterInv == /\ TypeOK /\ MoreTypes /\ AtPacket /\ RingInv /\ HeaderInv /\ NumberInv
            /\ SequenceInv /\ ValidInv

------------------------------------------------------------------------------
\* Arithmetic and the ring

LEMMA DivMod ==
    ASSUME NEW n \in Nat \ {0}, NEW x \in Nat
    PROVE  /\ x \div n \in Nat
           /\ x % n \in 0 .. n - 1
           /\ x = ((x \div n) * n) + (x % n)
OBVIOUS

LEMMA MultipleMod ==
    ASSUME NEW n \in Nat \ {0}, NEW q \in Nat
    PROVE  (q * n) % n = 0
<1> DEFINE d == q - ((q * n) \div n)
<1>1. q * n \in Nat
  OBVIOUS
<1>2. /\ (q * n) \div n \in Nat
      /\ (q * n) % n \in 0 .. n - 1
      /\ q * n = (((q * n) \div n) * n) + ((q * n) % n)
  BY <1>1, DivMod
<1>3. d \in Int /\ d * n = (q * n) % n
  BY <1>2
<1>4. CASE d >= 1
  <2>1. (d - 1) * n >= 0 /\ (d - 1) * n = d * n - n
    BY <1>3, <1>4
  <2> QED BY <1>2, <1>3, <2>1
<1>5. CASE d <= -1
  <2>1. (-1 - d) * n >= 0 /\ (-1 - d) * n = (- n) - (d * n)
    BY <1>3, <1>5
  <2> QED BY <1>2, <1>3, <2>1
<1>6. CASE d = 0
  BY <1>3, <1>6
<1> QED BY <1>3, <1>4, <1>5, <1>6

\* Rounding PKTSTART down twice is rounding it down once.
LEMMA RoundDownTwice ==
    ASSUME NEW x \in Nat
    PROVE  RoundDown(x) \in Nat /\ RoundDown(RoundDown(x)) = RoundDown(x)
<1>1. pktidx_per_block \in Nat \ {0}
  BY BlockAssumption
<1>2. /\ x \div pktidx_per_block \in Nat
      /\ x % pktidx_per_block \in 0 .. pktidx_per_block - 1
      /\ x = ((x \div pktidx_per_block) * pktidx_per_block) + (x % pktidx_per_block)
  BY <1>1, DivMod
<1>3. RoundDown(x) = (x \div pktidx_per_block) * pktidx_per_block /\ RoundDown(x) \in Nat
  BY <1>1, <1>2 DEF RoundDown
<1>4. RoundDown(x) % pktidx_per_block = 0
  BY <1>1, <1>2, <1>3, MultipleMod
<1>5. RoundDown(RoundDown(x)) = RoundDown(x) - (RoundDown(x) % pktidx_per_block)
  BY DEF RoundDown
<1> QED BY <1>3, <1>4, <1>5

\* A good packet has a packet index, and so a block number.
LEMMA GoodPacket ==
    ASSUME NEW p \in Packets
    PROVE  p.pktidx \in Nat /\ BlkNum(p) \in Nat
<1>1. p.pktidx \in Nat
  BY BlockAssumption DEF Packets
<1> QED BY <1>1, BlockAssumption, DivMod DEF BlkNum

\* What increment_block computes is the next place of the ring.
LEMMA NextPlace ==
    ASSUME NEW b \in OutBlocks
    PROVE  (b + 1) % n_block = Succ(b) /\ Succ(b) \in OutBlocks /\ Succ(b) # b
BY RingAssumption DEF OutBlocks, Succ

LEMMA SuccInjective ==
    ASSUME NEW b \in OutBlocks, NEW c \in OutBlocks, Succ(b) = Succ(c)
    PROVE  b = c
BY RingAssumption DEF OutBlocks, Succ

\* What increment_block makes of a working block.
LEMMA IncrementedBlock ==
    ASSUME NEW bi \in BlockInfos, NEW n \in Nat
    PROVE  /\ increment_block(bi, n) \in BlockInfos
           /\ increment_block(bi, n).idx = Succ(bi.idx)
           /\ increment_block(bi, n).num = n
           /\ increment_block(bi, n).epoch = bi.epoch
<1>1. (bi.idx + 1) % n_block = Succ(bi.idx) /\ Succ(bi.idx) \in OutBlocks
  BY NextPlace DEF BlockInfos
<1>2. increment_block(bi, n) = [bi EXCEPT !.idx = Succ(bi.idx), !.num = n, !.npacket = 0,
                                          !.ndrop = 0]
  BY <1>1 DEF increment_block
<1>3. increment_block(bi, n) = [idx |-> Succ(bi.idx), num |-> n, pktidxs |-> bi.pktidxs,
                                pkts |-> bi.pkts, npacket |-> 0, ndrop |-> 0,
                                epoch |-> bi.epoch]
  BY <1>2 DEF BlockInfos
<1> QED BY <1>1, <1>3 DEF BlockInfos

\* What a reset makes of it, in a new epoch.
LEMMA ResetBlock ==
    ASSUME NEW bi \in BlockInfos, NEW n \in Nat, NEW e \in Nat
    PROVE  LET new == [init_block_info(bi, n) EXCEPT !.epoch = e]
           IN  /\ new \in BlockInfos
               /\ new.idx = bi.idx /\ new.num = n /\ new.epoch = e
<1>1. pkts_per_block \in Nat
  BY BlockAssumption
<1>2. /\ init_block_info(bi, n) \in BlockInfos
      /\ init_block_info(bi, n).idx = bi.idx /\ init_block_info(bi, n).num = n
  BY <1>1 DEF init_block_info, BlockInfos
<1> QED BY <1>2 DEF BlockInfos

\* What counting a packet makes of it.
LEMMA CountedBlock ==
    ASSUME NEW bi \in BlockInfos
    PROVE  LET new == [bi EXCEPT !.pkts = pkts_per_block, !.pktidxs = pktidx_per_block,
                                 !.npacket = @ + 1]
           IN  /\ new \in BlockInfos
               /\ new.idx = bi.idx /\ new.num = bi.num /\ new.epoch = bi.epoch
<1> DEFINE new == [bi EXCEPT !.pkts = pkts_per_block, !.pktidxs = pktidx_per_block,
                             !.npacket = bi.npacket + 1]
<1>1. pkts_per_block \in Nat /\ pktidx_per_block \in Nat /\ bi.npacket + 1 \in Nat
  BY BlockAssumption DEF BlockInfos
<1>2. new \in BlockInfos
  BY <1>1 DEF BlockInfos
<1>3. new.idx = bi.idx /\ new.num = bi.num /\ new.epoch = bi.epoch
  BY DEF BlockInfos
<1> QED BY <1>2, <1>3

\* The types of the thread's place: where it is at a packet, the packet is one.
LEMMA PacketAtHand ==
    ASSUME OuterInv, opc \in {"manage", "waitfree", "store"}
    PROVE  /\ p_u8pkt \in Packets /\ p_u8pkt # Bad
           /\ p_u8pkt.pktidx \in Nat /\ BlkNum(p_u8pkt) \in Nat
           /\ i \in 1 .. npkts_per_block_in
<1>1. i \in 1 .. npkts_per_block_in /\ p_u8pkt # Bad /\ inPkts[block_idx_in] \in InputBlocks
  BY BlockAssumption DEF OuterInv, TypeOK, AtPacket, InBlocks
<1>2. p_u8pkt \in Packets
  BY <1>1 DEF InputBlocks, p_u8pkt
<1> QED BY <1>1, <1>2, GoodPacket

\* The ring's consequences: the working blocks are not handed over, the second
\* one while the thread does not wait for it; they are different; and the
\* downstream thread never stands at the second one unless it is filled.
LEMMA WorkingBlocks ==
    ASSUME OuterInv
    PROVE  /\ wblk[0].idx \in OutBlocks /\ wblk[1].idx \in OutBlocks
           /\ wblk[1].idx = Succ(wblk[0].idx) /\ wblk[1].idx # wblk[0].idx
           /\ ~filled[wblk[0].idx]
           /\ opc # "waitfree" => ~filled[wblk[1].idx]
           /\ ~filled[consumer] => wblk[0].idx = consumer
<1>1. /\ wblk[0].idx \in OutBlocks /\ wblk[1].idx \in OutBlocks
      /\ consumer \in OutBlocks
  <2>1. wblk \in [0 .. 1 -> BlockInfos] /\ consumer \in OutBlocks
    BY DEF OuterInv, TypeOK, BlockInfos, OutBlocks
  <2>2. wblk[0] \in BlockInfos /\ wblk[1] \in BlockInfos
    BY <2>1
  <2> QED BY <2>1, <2>2 DEF BlockInfos
<1>2. wblk[1].idx = Succ(wblk[0].idx) /\ wblk[1].idx # wblk[0].idx
  BY <1>1, NextPlace DEF OuterInv, RingInv
<1>3. /\ \A b \in OutBlocks : filled[b] <=> Distance(b) < Distance(wblk[0].idx)
      /\ opc # "waitfree" => ~filled[wblk[1].idx]
  BY DEF OuterInv, RingInv
<1>4. Distance(wblk[0].idx) \in Nat /\ Distance(consumer) = 0
  BY <1>1, RingAssumption DEF Distance, OutBlocks
<1>5. Distance(wblk[0].idx) = 0 => wblk[0].idx = consumer
  BY <1>1, RingAssumption DEF Distance, OutBlocks
<1> QED BY <1>1, <1>2, <1>3, <1>4, <1>5

------------------------------------------------------------------------------
LEMMA InitOuterInv == Init => OuterInv
<1> SUFFICES ASSUME Init PROVE OuterInv
  OBVIOUS
<1> USE RingAssumption, BlockAssumption
<1>1. PICK s \in Starts : status = [PKTSTART |-> s, PKTSTOP |-> 0, STTVALID |-> 0,
                                    PKTIDX |-> 0, NDROP |-> 0, NLATE |-> 0]
  BY DEF Init
<1>2. status \in Statuses /\ status.PKTSTOP = 0 /\ status.STTVALID = 0
  BY <1>1 DEF Statuses
<1>3. PICK g \in StackGarbage :
         /\ wblk = [k \in 0 .. 1 |-> [idx |-> k, num |-> k, pktidxs |-> g.pktidxs,
                                      pkts |-> g.pkts, npacket |-> 0, ndrop |-> 0,
                                      epoch |-> 0]]
         /\ status_seq_num = g.status_seq_num
  BY DEF Init
<1>4. g.pktidxs \in Nat /\ g.pkts \in Nat /\ g.status_seq_num \in Nat
  BY DEF Init
<1>5. wblk \in [0 .. 1 -> BlockInfos]
  BY <1>3, <1>4 DEF BlockInfos, OutBlocks
<1>6. hdr = [b \in OutBlocks |-> IF b \in 0 .. 1 THEN status ELSE <<>>]
  BY DEF Init, OutBlocks
<1>7. TypeOK
  <2>1. data \in [0 .. n_block - 1 -> [Cells -> Packets \cup {Bad}]]
    BY DEF Init
  <2>2. producer \in 0 .. Len(Stream) /\ i \in 1 .. npkts_per_block_in + 1
    BY DEF Init
  <2>3. inFilled \in [0 .. n_block_in - 1 -> BOOLEAN] /\ filled \in [0 .. n_block - 1 -> BOOLEAN]
    BY DEF Init
  <2>4. status_seq_num \in Nat /\ status.STTVALID \in {0, 1}
    BY <1>2, <1>3, <1>4
  <2> QED BY <1>5, <2>1, <2>2, <2>3, <2>4 DEF Init, TypeOK, BlockInfos, OutBlocks
<1>8. MoreTypes
  <2>1. hdr \in [OutBlocks -> Headers]
    BY <1>2, <1>6 DEF Headers
  <2>2. taken \in Seq(FinalHeaders) /\ inPkts \in [InBlocks -> InputBlocks \cup {<<>>}]
    BY DEF Init, InBlocks
  <2> QED BY <1>2, <2>1, <2>2 DEF Init, MoreTypes
<1>9. AtPacket
  BY DEF Init, AtPacket, InBlocks
<1>10. RingInv
  BY <1>3 DEF Init, RingInv, OutBlocks, Succ, Distance
<1>11. HeaderInv
  BY <1>2, <1>3, <1>6 DEF Init, HeaderInv, OutBlocks
<1>12. NumberInv
  BY <1>3 DEF Init, NumberInv, OutBlocks
<1>13. SequenceInv
  BY DEF Init, SequenceInv, HandedInSequence, OutBlocks
<1>14. ValidInv
  BY <1>2 DEF ValidInv, ValidOnlyInside
<1> QED BY <1>7, <1>8, <1>9, <1>10, <1>11, <1>12, <1>13, <1>14 DEF OuterInv

\* A step that leaves the working blocks and the output ring's headers alone.
LEMMA OutputUntouched ==
    ASSUME OuterInv, UNCHANGED <<filled, hdr, consumer, taken, wblk, epoch>>,
           opc = "waitfree" => opc' = "waitfree"
    PROVE  RingInv' /\ HeaderInv' /\ NumberInv' /\ SequenceInv'
<1>1. RingInv'
  BY DEF OuterInv, RingInv, Distance
<1>2. HeaderInv'
  BY DEF OuterInv, HeaderInv
<1>3. NumberInv'
  BY DEF OuterInv, NumberInv
<1>4. SequenceInv'
  BY DEF OuterInv, SequenceInv, HandedInSequence, Upcoming
<1> QED BY <1>1, <1>2, <1>3, <1>4

\* A step that leaves the status buffer alone too, and the input blocks' contents.
LEMMA InputUntouched ==
    ASSUME OuterInv, TypeOK', UNCHANGED <<inPkts, filled, hdr, consumer, taken, wblk, epoch,
                                          status>>,
           AtPacket', opc = "waitfree" => opc' = "waitfree"
    PROVE  OuterInv'
<1>1. RingInv' /\ HeaderInv' /\ NumberInv' /\ SequenceInv'
  BY OutputUntouched
<1>2. ValidInv' /\ MoreTypes'
  BY DEF OuterInv, ValidInv, ValidOnlyInside, MoreTypes
<1> QED BY <1>1, <1>2 DEF OuterInv

\* The wait for an input block, and the end of one.
LEMMA WaitSteps ==
    ASSUME OuterInv, NextSecond \/ Leave \/ DropInput \/ TakeInput \/ EndInput \/ StopThreads
    PROVE  OuterInv'
<1> USE DEF inRing, outRing, counts
<1>1. TypeOK /\ AtPacket
  BY DEF OuterInv
<1>2. block_idx_in \in InBlocks /\ (block_idx_in + 1) % n_block_in \in InBlocks
  <2>1. n_block_in \in Nat \ {0} /\ block_idx_in \in InBlocks /\ block_idx_in + 1 \in Nat
    BY <1>1, RingAssumption DEF TypeOK, InBlocks
  <2> QED BY <2>1, DivMod DEF InBlocks
<1>3. CASE NextSecond
  <2>1. TypeOK' /\ AtPacket'
    BY <1>1, <1>3 DEF NextSecond, TypeOK, AtPacket, p_u8pkt
  <2> QED BY <1>3, <2>1, InputUntouched DEF NextSecond
<1>4. CASE Leave
  <2>1. opc = "wait" /\ opc' = "done"
        /\ UNCHANGED <<inPkts, filled, hdr, consumer, taken, wblk, epoch, status>>
    BY <1>4 DEF Leave, FreeInput
  <2>2. inFilled' \in [InBlocks -> BOOLEAN]
        /\ \A b \in InBlocks : inFilled'[b] => inFilled[b]
    BY <1>1, <1>2, <1>4 DEF Leave, FreeInput, TypeOK, InBlocks
  <2>3. TypeOK'
    BY <1>1, <1>4, <2>1, <2>2 DEF Leave, FreeInput, TypeOK, InBlocks
  <2>4. AtPacket'
    BY <1>1, <2>1, <2>2 DEF AtPacket
  <2> QED BY <2>1, <2>3, <2>4, InputUntouched
<1>5. CASE DropInput
  <2>1. opc = "wait" /\ opc' = "wait"
        /\ UNCHANGED <<inPkts, filled, hdr, consumer, taken, wblk, epoch, status>>
    BY <1>5 DEF DropInput, FreeInput
  <2>2. inFilled' \in [InBlocks -> BOOLEAN]
        /\ \A b \in InBlocks : inFilled'[b] => inFilled[b]
    BY <1>1, <1>2, <1>5 DEF DropInput, FreeInput, TypeOK, InBlocks
  <2>3. TypeOK'
    <3>1. block_idx_in' \in 0 .. n_block_in - 1
      BY <1>2, <1>5 DEF DropInput, InBlocks
    <3>2. UNCHANGED <<filled, data, producer, consumer, opc, i, wblk, status, ndrop_total, nlate,
                      status_seq_num>>
      BY <1>5 DEF DropInput, FreeInput
    <3> QED BY <1>1, <2>2, <3>1, <3>2 DEF TypeOK, InBlocks
  <2>4. AtPacket'
    BY <1>1, <2>1, <2>2 DEF AtPacket
  <2> QED BY <2>1, <2>3, <2>4, InputUntouched
<1>6. CASE TakeInput
  <2>1. TypeOK'
    <3>1. opc' = "packet" /\ i' \in 1 .. npkts_per_block_in + 1
      BY <1>6, BlockAssumption DEF TakeInput
    <3>2. UNCHANGED <<inRing, outRing, status, block_idx_in, wblk, counts>>
      BY <1>6 DEF TakeInput
    <3> QED BY <1>1, <3>1, <3>2 DEF TypeOK
  <2>2. AtPacket'
    BY <1>1, <1>6 DEF TakeInput, AtPacket
  <2> QED BY <1>6, <2>1, <2>2, InputUntouched DEF TakeInput
<1>7. CASE EndInput
  <2>1. opc = "packet" /\ opc' = "wait"
        /\ UNCHANGED <<inPkts, filled, hdr, consumer, taken, wblk, epoch, status>>
    BY <1>7 DEF EndInput, FreeInput
  <2>2. inFilled' \in [InBlocks -> BOOLEAN]
        /\ \A b \in InBlocks : inFilled'[b] => inFilled[b]
    BY <1>1, <1>2, <1>7 DEF EndInput, FreeInput, TypeOK, InBlocks
  <2>3. TypeOK'
    BY <1>1, <1>2, <1>7, <2>1, <2>2 DEF EndInput, FreeInput, TypeOK, InBlocks
  <2>4. AtPacket'
    BY <1>1, <2>1, <2>2 DEF AtPacket
  <2> QED BY <2>1, <2>3, <2>4, InputUntouched
<1>8. CASE StopThreads
  <2>1. TypeOK' /\ AtPacket'
    BY <1>1, <1>8 DEF StopThreads, TypeOK, AtPacket, p_u8pkt
  <2> QED BY <1>8, <2>1, InputUntouched DEF StopThreads
<1> QED BY <1>3, <1>4, <1>5, <1>6, <1>7, <1>8

\* The packet thread fills an input block that nobody reads.
LEMMA FillStep == OuterInv /\ Fill => OuterInv'
<1> SUFFICES ASSUME OuterInv, Fill PROVE OuterInv'
  OBVIOUS
<1> USE DEF inRing, outRing, counts
<1> DEFINE b == producer % n_block_in
<1>1. TypeOK /\ AtPacket /\ MoreTypes
  BY DEF OuterInv
<1>2. producer \in Nat /\ b \in InBlocks
  <2>1. Len(Stream) \in Nat /\ producer \in 0 .. Len(Stream)
    BY <1>1, BlockAssumption DEF TypeOK
  <2>2. producer \in Nat /\ n_block_in \in Nat \ {0}
    BY <2>1, RingAssumption
  <2> QED BY <2>2, DivMod DEF InBlocks
<1>3. PICK batch \in Batches(Stream[producer + 1]) :
        inPkts' = [inPkts EXCEPT ![b] = batch]
  BY DEF Fill
<1>4. batch \in InputBlocks
  <2>1. batch \in [1 .. npkts_per_block_in -> Stream[producer + 1] \cup {Bad}]
    BY <1>3 DEF Batches
  <2>2. producer + 1 \in DOMAIN Stream
    BY <1>2, BlockAssumption DEF Fill
  <2> QED BY <2>1, <2>2 DEF InputBlocks, Packets
<1>5. /\ inFilled' = [inFilled EXCEPT ![b] = TRUE] /\ ~inFilled[b]
      /\ UNCHANGED <<filled, hdr, consumer, taken, wblk, epoch, status, opc, block_idx_in, i>>
  BY DEF Fill
<1>6. TypeOK'
  <2>1. producer' \in 0 .. Len(Stream)
    BY <1>1, <1>2, BlockAssumption DEF Fill, TypeOK
  <2>2. inFilled' \in [0 .. n_block_in - 1 -> BOOLEAN]
    BY <1>1, <1>5 DEF TypeOK
  <2> QED BY <1>1, <2>1, <2>2 DEF Fill, TypeOK
<1>7. inPkts' \in [InBlocks -> InputBlocks \cup {<<>>}]
  BY <1>1, <1>3, <1>4 DEF MoreTypes
<1>8. AtPacket'
  <2>1. \A c \in InBlocks : inFilled'[c] => inPkts'[c] \in InputBlocks
    BY <1>1, <1>3, <1>4, <1>5 DEF AtPacket, MoreTypes, TypeOK, InBlocks
  <2>2. opc' \in {"packet", "manage", "waitfree", "store"} =>
          /\ inFilled'[block_idx_in'] /\ p_u8pkt' = p_u8pkt
    BY <1>1, <1>2, <1>3, <1>5 DEF AtPacket, MoreTypes, TypeOK, InBlocks, p_u8pkt
  <2> QED BY <1>1, <1>5, <2>1, <2>2 DEF AtPacket
<1>9. MoreTypes' /\ ValidInv'
  BY <1>1, <1>5, <1>7 DEF MoreTypes, OuterInv, ValidInv, ValidOnlyInside
<1>10. RingInv' /\ HeaderInv' /\ NumberInv' /\ SequenceInv'
  BY <1>5, OutputUntouched
<1> QED BY <1>6, <1>8, <1>9, <1>10 DEF OuterInv

------------------------------------------------------------------------------
\* check_start_stop changes STTVALID, and sets it only inside the observation.
LEMMA CheckedStatus ==
    ASSUME status \in Statuses, NEW x
    PROVE  LET s == check_start_stop(x)
           IN  /\ s \in Statuses
               /\ s.PKTSTART = status.PKTSTART /\ s.PKTSTOP = status.PKTSTOP
               /\ s.STTVALID = 1 => status.PKTSTART <= x /\ x < status.PKTSTOP
BY DEF Statuses, check_start_stop

\* A packet that is ignored, one that is late, and the status buffer's update.
LEMMA PacketSteps ==
    ASSUME OuterInv, IgnorePacket \/ LatePacket \/ UpdateStatus
    PROVE  OuterInv'
<1> USE DEF inRing, outRing, counts
<1>1. TypeOK /\ AtPacket /\ MoreTypes /\ ValidInv
  BY DEF OuterInv
<1>2. i \in Nat /\ npkts_per_block_in \in Nat
  BY <1>1, BlockAssumption DEF TypeOK
<1>3. CASE IgnorePacket
  <2>1. TypeOK'
    <3>1. i' \in 1 .. npkts_per_block_in + 1
      <4>1. i >= 1 /\ i <= npkts_per_block_in /\ i' = i + 1
        BY <1>1, <1>2, <1>3 DEF IgnorePacket, TypeOK
      <4> QED BY <1>2, <4>1
    <3>2. UNCHANGED <<inRing, outRing, status, opc, block_idx_in, wblk, counts>>
      BY <1>3 DEF IgnorePacket
    <3> QED BY <1>1, <3>1, <3>2 DEF TypeOK
  <2>2. AtPacket'
    BY <1>1, <1>3 DEF IgnorePacket, AtPacket
  <2> QED BY <1>3, <2>1, <2>2, InputUntouched DEF IgnorePacket
<1>4. CASE LatePacket
  <2>1. i <= npkts_per_block_in
    BY <1>1, <1>4 DEF LatePacket, AtPacket
  <2>2. TypeOK'
    <3>1. nlate' \in Nat /\ i' \in 1 .. npkts_per_block_in + 1
      BY <1>1, <1>2, <1>4, <2>1 DEF LatePacket, TypeOK
    <3> QED BY <1>1, <1>4, <3>1 DEF LatePacket, TypeOK
  <2>3. AtPacket'
    BY <1>1, <1>4 DEF LatePacket, AtPacket
  <2> QED BY <1>4, <2>2, <2>3, InputUntouched DEF LatePacket
<1>5. CASE UpdateStatus
  <2>1. /\ opc = "packet" /\ i <= npkts_per_block_in /\ p_u8pkt # Bad /\ opc' = "manage"
        /\ UNCHANGED <<inRing, outRing, block_idx_in, i, wblk, epoch>>
    BY <1>5 DEF UpdateStatus
  <2>2. p_u8pkt.pktidx \in Nat
    <3>1. inPkts[block_idx_in] \in InputBlocks /\ i \in 1 .. npkts_per_block_in
      BY <1>1, <1>2, <2>1 DEF AtPacket, TypeOK, InBlocks
    <3>2. p_u8pkt \in Packets
      BY <2>1, <3>1 DEF InputBlocks, p_u8pkt
    <3> QED BY <3>2, GoodPacket
  <2>3. AtPacket'
    BY <1>1, <2>1 DEF AtPacket, p_u8pkt
  <2>4. RingInv' /\ HeaderInv' /\ NumberInv' /\ SequenceInv'
    BY <2>1, OutputUntouched
  <2>5. CASE UNCHANGED <<status, counts>>
    <3>1. TypeOK' /\ MoreTypes' /\ ValidInv'
      BY <1>1, <2>1, <2>5 DEF TypeOK, MoreTypes, ValidInv, ValidOnlyInside
    <3> QED BY <2>3, <2>4, <3>1 DEF OuterInv
  <2>6. CASE StartsBlock(p_u8pkt)
    <3> DEFINE start == RoundDown(status.PKTSTART)
               stop == start + pktidx_per_block * dwell_blocks
    <3>1. /\ status' = [status EXCEPT !.PKTIDX = p_u8pkt.pktidx,
                                      !.PKTSTART = start, !.PKTSTOP = stop,
                                      !.NDROP = @ + ndrop_total, !.NLATE = @ + nlate]
          /\ status_seq_num' = p_u8pkt.pktidx /\ ndrop_total' = 0 /\ nlate' = 0
      BY <1>5, <2>6 DEF UpdateStatus, PendingDrops
    <3>2. start \in Nat /\ RoundDown(start) = start
      BY <1>1, RoundDownTwice DEF MoreTypes, Statuses
    <3>3. stop \in Nat
      BY <3>2, BlockAssumption
    <3> HIDE DEF start, stop
    <3>4. status' \in Statuses
      <4>1. status \in Statuses /\ ndrop_total \in Nat /\ nlate \in Nat
        BY <1>1 DEF MoreTypes, TypeOK
      <4>2. status.NDROP + ndrop_total \in Nat /\ status.NLATE + nlate \in Nat
        BY <4>1 DEF Statuses
      <4> QED BY <2>2, <3>1, <3>2, <3>3, <4>1, <4>2 DEF Statuses
    <3>5. /\ status'.PKTSTART = start /\ status'.PKTSTOP = stop
          /\ status'.STTVALID = status.STTVALID
      BY <1>1, <3>1 DEF MoreTypes, Statuses
    <3>6. TypeOK' /\ MoreTypes'
      <4>1. TypeOK'
        BY <1>1, <2>1, <2>2, <3>1, <3>5 DEF TypeOK
      <4>2. MoreTypes'
        BY <1>1, <2>1, <3>4 DEF MoreTypes
      <4> QED BY <4>1, <4>2
    <3>7. status.STTVALID = 1 => start = status.PKTSTART /\ stop = status.PKTSTOP
      <4>1. wblk[0].num * pktidx_per_block \in Nat
        <5>1. wblk[0].num \in Nat /\ pktidx_per_block \in Nat
          BY <1>1, BlockAssumption DEF TypeOK
        <5> QED BY <5>1
      <4>2. status.STTVALID = 1 => wblk[0].num * pktidx_per_block < status.PKTSTOP
        BY <1>1 DEF ValidInv, ValidOnlyInside
      <4>3. status.STTVALID = 1 => status.PKTSTOP # 0
        BY <4>1, <4>2
      <4> QED BY <1>1, <4>3 DEF ValidInv, start, stop
    <3>8. ValidInv'
      <4>1. ValidOnlyInside'
        BY <1>1, <2>1, <3>5, <3>7 DEF ValidInv, ValidOnlyInside
      <4>2. /\ status'.PKTSTART = RoundDown(status'.PKTSTART)
            /\ status'.PKTSTOP = status'.PKTSTART + pktidx_per_block * dwell_blocks
        BY <3>2, <3>5 DEF stop
      <4> QED BY <4>1, <4>2 DEF ValidInv, RoundDown
    <3> QED BY <2>3, <2>4, <3>6, <3>8 DEF OuterInv
  <2> QED BY <1>5, <2>5, <2>6 DEF UpdateStatus
<1> QED BY <1>3, <1>4, <1>5

\* The downstream thread takes the block it waits for.
LEMMA ConsumeStep == OuterInv /\ Consume => OuterInv'
<1> SUFFICES ASSUME OuterInv, Consume PROVE OuterInv'
  OBVIOUS
<1> USE DEF inRing, outRing, counts
<1>1. TypeOK /\ MoreTypes /\ AtPacket /\ RingInv /\ HeaderInv /\ NumberInv /\ SequenceInv
      /\ ValidInv
  BY DEF OuterInv
<1>2. /\ consumer \in OutBlocks /\ consumer' = Succ(consumer)
      /\ Succ(consumer) \in OutBlocks /\ Succ(consumer) # consumer
  BY <1>1, NextPlace DEF Consume, TypeOK, OutBlocks
<1>3. /\ filled[consumer] /\ filled' = [filled EXCEPT ![consumer] = FALSE]
      /\ taken' = Append(taken, hdr[consumer])
      /\ UNCHANGED <<inRing, hdr, data, status, opc, block_idx_in, i, wblk, counts, epoch>>
  BY DEF Consume
<1>4. /\ wblk[0].idx \in OutBlocks /\ wblk[1].idx \in OutBlocks
      /\ consumer # wblk[0].idx /\ ~filled[wblk[0].idx]
      /\ wblk[1].idx = Succ(wblk[0].idx)
  BY <1>3, WorkingBlocks
<1>5. /\ filled \in [OutBlocks -> BOOLEAN] /\ filled' \in [OutBlocks -> BOOLEAN]
      /\ \A b \in OutBlocks : filled'[b] <=> filled[b] /\ b # consumer
  BY <1>1, <1>2, <1>3 DEF TypeOK, OutBlocks
<1>6. hdr[consumer] \in FinalHeaders
  BY <1>1, <1>2, <1>3 DEF HeaderInv
<1>7. TypeOK'
  BY <1>1, <1>2, <1>3, <1>5 DEF TypeOK, OutBlocks
<1>8. MoreTypes'
  BY <1>1, <1>3, <1>6 DEF MoreTypes
<1>9. AtPacket'
  BY <1>1, <1>3 DEF AtPacket, p_u8pkt
<1>10. RingInv'
  <2>1. \A b \in OutBlocks : filled'[b] <=> Distance(b)' < Distance(wblk[0].idx)'
    <3> SUFFICES ASSUME NEW b \in OutBlocks
                 PROVE  filled'[b] <=> Distance(b)' < Distance(wblk[0].idx)'
      OBVIOUS
    <3>1. filled[b] <=> Distance(b) < Distance(wblk[0].idx)
      BY <1>1 DEF RingInv
    <3>2. Distance(wblk[0].idx)' = Distance(wblk[0].idx) - 1
      <4>1. PICK w \in OutBlocks : w = wblk[0].idx /\ w = wblk'[0].idx /\ w # consumer
        BY <1>3, <1>4
      <4>2. Distance(w)' = Distance(w) - 1
        BY <1>2, <4>1, RingAssumption DEF Distance, Succ, OutBlocks
      <4> QED BY <4>1, <4>2 DEF Distance
    <3>3. Distance(wblk[0].idx) \in 1 .. n_block - 1
      BY <1>2, <1>4, RingAssumption DEF Distance, Succ, OutBlocks
    <3>4. CASE b = consumer
      <4>1. Distance(b)' = n_block - 1
        BY <1>2, <3>4, RingAssumption DEF Distance, Succ, OutBlocks
      <4> QED BY <1>5, <3>2, <3>3, <3>4, <4>1, RingAssumption
    <3>5. CASE b # consumer
      <4>1. Distance(b)' = Distance(b) - 1 /\ Distance(b) \in Nat
        BY <1>2, <3>5, RingAssumption DEF Distance, Succ, OutBlocks
      <4> QED BY <1>5, <3>1, <3>2, <3>3, <3>5, <4>1
    <3> QED BY <3>4, <3>5
  <2>2. opc' # "waitfree" => ~filled'[wblk[1].idx]
    BY <1>1, <1>3, <1>4, <1>5 DEF RingInv
  <2> QED BY <1>3, <1>4, <2>1, <2>2 DEF RingInv
<1>11. HeaderInv'
  BY <1>1, <1>3, <1>5 DEF HeaderInv
<1>12. /\ Len(taken) \in Nat /\ Len(taken') = Len(taken) + 1
       /\ taken'[Len(taken) + 1] = hdr[consumer]
       /\ \A k \in 1 .. Len(taken) : taken'[k] = taken[k]
  BY <1>1, <1>3, <1>6 DEF MoreTypes
<1>13. NumberInv'
  <2>1. \A k \in 1 .. Len(taken') : taken'[k].epoch <= epoch
    <3> SUFFICES ASSUME NEW k \in 1 .. Len(taken') PROVE taken'[k].epoch <= epoch
      OBVIOUS
    <3>1. CASE k = Len(taken) + 1
      BY <1>1, <1>2, <1>3, <1>12, <3>1 DEF NumberInv
    <3>2. CASE k # Len(taken) + 1
      BY <1>1, <1>12, <3>2 DEF NumberInv
    <3> QED BY <3>1, <3>2
  <2>2. \A b \in OutBlocks : filled'[b] => hdr'[b].epoch <= epoch'
    BY <1>1, <1>3, <1>5 DEF NumberInv
  <2> QED BY <1>1, <1>3, <2>1, <2>2 DEF NumberInv
<1>14. SequenceInv'
  <2>1. HandedInSequence'
    <3> SUFFICES ASSUME NEW k \in 1 .. Len(taken') - 1,
                        taken'[k].epoch = taken'[k + 1].epoch
                 PROVE  taken'[k + 1].num = taken'[k].num + 1
      BY DEF HandedInSequence
    <3>1. CASE k = Len(taken)
      <4>1. Follows(taken[k], hdr[consumer])
        <5>1. taken # <<>>
          BY <1>1, <1>12, <3>1 DEF MoreTypes
        <5> QED BY <1>1, <1>4, <3>1, <5>1 DEF SequenceInv, Upcoming
      <4>2. taken'[k] = taken[k] /\ taken'[k + 1] = hdr[consumer]
        BY <1>12, <3>1
      <4> QED BY <4>1, <4>2 DEF Follows
    <3>2. CASE k # Len(taken)
      <4>1. k \in 1 .. Len(taken) - 1
        BY <1>12, <3>2
      <4>2. taken'[k] = taken[k] /\ taken'[k + 1] = taken[k + 1]
        BY <1>12, <4>1
      <4> QED BY <1>1, <4>1, <4>2 DEF SequenceInv, HandedInSequence
    <3> QED BY <3>1, <3>2
  <2>2. \A b \in OutBlocks : filled'[b] => Follows(hdr'[b], Upcoming(Succ(b))')
    BY <1>1, <1>3, <1>5 DEF SequenceInv, Upcoming
  <2>3. Follows(hdr[consumer], Upcoming(Succ(consumer)))
    BY <1>1, <1>2, <1>3 DEF SequenceInv
  <2>4. Follows(taken'[Len(taken')], Upcoming(consumer)')
    <3>1. Upcoming(consumer)' = Upcoming(Succ(consumer))
      BY <1>2, <1>3 DEF Upcoming
    <3> QED BY <1>12, <2>3, <3>1
  <2> QED BY <2>1, <2>2, <2>4 DEF SequenceInv
<1>15. ValidInv'
  BY <1>1, <1>3 DEF ValidInv, ValidOnlyInside
<1> QED BY <1>7, <1>8, <1>9, <1>10, <1>11, <1>13, <1>14, <1>15 DEF OuterInv

------------------------------------------------------------------------------
\* The first working block is handed over.
LEMMA AdvanceStep == OuterInv /\ AdvanceBlocks => OuterInv'
<1> SUFFICES ASSUME OuterInv, AdvanceBlocks PROVE OuterInv'
  OBVIOUS
<1> USE DEF inRing, outRing, counts
<1> DEFINE final == Finalized(wblk[0])
           here == wblk[1].num * pktidx_per_block
<1>w. PICK w0 \in OutBlocks, w1 \in OutBlocks : w0 = wblk[0].idx /\ w1 = wblk[1].idx
  BY WorkingBlocks
<1>1. TypeOK /\ MoreTypes /\ AtPacket /\ RingInv /\ HeaderInv /\ NumberInv /\ SequenceInv
      /\ ValidInv
  BY DEF OuterInv
<1>2. /\ opc = "manage" /\ opc' = "waitfree"
      /\ BlkNum(p_u8pkt) = wblk[1].num + 1
      /\ hdr' = [hdr EXCEPT ![w0] = final]
      /\ filled' = [filled EXCEPT ![w0] = TRUE]
      /\ ndrop_total' = ndrop_total + Dropped(wblk[0])
      /\ wblk' = Shifted(p_u8pkt)
      /\ status' = check_start_stop(here)
      /\ UNCHANGED <<inRing, data, consumer, taken, block_idx_in, i, status_seq_num, nlate,
                     epoch>>
  BY <1>w DEF AdvanceBlocks
<1>3. wblk[0] \in BlockInfos /\ wblk[1] \in BlockInfos
  BY <1>1 DEF TypeOK, BlockInfos, OutBlocks
<1>4. /\ w0 \in OutBlocks /\ w1 \in OutBlocks /\ w1 = Succ(w0) /\ w1 # w0
      /\ ~filled[w0] /\ ~filled[w1] /\ consumer # w1
  BY <1>w, <1>2, WorkingBlocks
<1>5. /\ wblk'[0] = wblk[1]
      /\ wblk'[1] \in BlockInfos
      /\ wblk'[1].idx = Succ(w1) /\ wblk'[1].num = wblk[1].num + 1
      /\ wblk'[1].epoch = wblk[1].epoch
      /\ wblk' \in [0 .. 1 -> BlockInfos]
  <2>1. wblk[1].num + 1 \in Nat
    BY <1>3 DEF BlockInfos
  <2>2. wblk' = [k \in 0 .. 1 |-> IF k = 0 THEN wblk[1]
                                  ELSE increment_block(wblk[1], wblk[1].num + 1)]
    BY <1>2 DEF Shifted
  <2>3. wblk'[0] = wblk[1] /\ wblk'[1] = increment_block(wblk[1], wblk[1].num + 1)
    BY <2>2
  <2>4. /\ wblk'[1] \in BlockInfos
        /\ wblk'[1].idx = Succ(w1) /\ wblk'[1].num = wblk[1].num + 1
        /\ wblk'[1].epoch = wblk[1].epoch
    BY <1>w, <1>3, <2>1, <2>3, IncrementedBlock
  <2>5. wblk' \in [0 .. 1 -> BlockInfos]
    BY <1>3, <2>2, <2>3, <2>4
  <2> QED BY <2>3, <2>4, <2>5
<1>6. final \in FinalHeaders /\ final.num = wblk[0].num /\ final.epoch = wblk[0].epoch
      /\ Dropped(wblk[0]) \in Nat
  <2>1. Dropped(wblk[0]) \in Nat
    BY <1>3 DEF Dropped, BlockInfos
  <2>2. wblk[0].num * wblk[0].pktidxs \in Nat
    <3>1. wblk[0].num \in Nat /\ wblk[0].pktidxs \in Nat
      BY <1>3 DEF BlockInfos
    <3> QED BY <3>1
  <2>3. hdr[w0] \in Statuses
    BY <1>w, <1>1 DEF HeaderInv
  <2> QED BY <1>w, <1>3, <2>1, <2>2, <2>3 DEF Finalized, FinalHeaders, BlockInfos
<1>7. /\ status' \in Statuses
      /\ status'.PKTSTART = status.PKTSTART /\ status'.PKTSTOP = status.PKTSTOP
      /\ status'.STTVALID = 1 => status.PKTSTART <= here /\ here < status.PKTSTOP
  BY <1>1, <1>2, CheckedStatus DEF MoreTypes
<1> HIDE DEF final, here
<1>8. /\ filled \in [OutBlocks -> BOOLEAN] /\ filled' \in [OutBlocks -> BOOLEAN]
      /\ \A b \in OutBlocks : filled'[b] <=> filled[b] \/ b = w0
      /\ hdr \in [OutBlocks -> Headers] /\ hdr' \in [OutBlocks -> Headers]
      /\ hdr'[w0] = final
      /\ \A b \in OutBlocks : b # w0 => hdr'[b] = hdr[b]
  BY <1>1, <1>2, <1>4, <1>6 DEF TypeOK, MoreTypes, OutBlocks, Headers
<1>9. TypeOK'
  <2>0. ndrop_total \in Nat
    BY <1>1 DEF TypeOK
  <2>1. ndrop_total' \in Nat
    BY <1>2, <1>6, <2>0
  <2>2. status'.STTVALID \in {0, 1}
    BY <1>7 DEF Statuses
  <2> QED BY <1>1, <1>2, <1>5, <1>8, <2>1, <2>2 DEF TypeOK, BlockInfos, OutBlocks
<1>10. MoreTypes'
  BY <1>1, <1>2, <1>7, <1>8 DEF MoreTypes
<1>11. AtPacket'
  BY <1>1, <1>2 DEF AtPacket, p_u8pkt
<1>12. RingInv'
  <2>1. Distance(w1) = Distance(w0) + 1
    <3>1. w0 # n_block - 1 \/ consumer # 0
      BY <1>4 DEF Succ
    <3>2. consumer \in OutBlocks
      BY <1>1 DEF TypeOK, OutBlocks
    <3> QED BY <1>4, <3>1, <3>2, RingAssumption DEF Distance, Succ, OutBlocks
  <2>2. \A b \in OutBlocks : filled'[b] <=> Distance(b) < Distance(w1)
    <3> SUFFICES ASSUME NEW b \in OutBlocks PROVE filled'[b] <=> Distance(b) < Distance(w1)
      OBVIOUS
    <3>1. filled[b] <=> Distance(b) < Distance(w0)
      BY <1>w, <1>1 DEF RingInv
    <3>2. consumer \in OutBlocks
      BY <1>1 DEF TypeOK, OutBlocks
    <3>3. Distance(b) \in Nat /\ Distance(w0) \in Nat
      BY <1>4, <3>2, RingAssumption DEF Distance, OutBlocks
    <3>4. Distance(b) = Distance(w0) => b = w0
      BY <1>4, <3>2, RingAssumption DEF Distance, OutBlocks
    <3> QED BY <1>8, <2>1, <3>1, <3>3, <3>4
  <2>3. Distance(wblk[0].idx)' = Distance(w1) /\ \A b \in OutBlocks : Distance(b)' = Distance(b)
    BY <1>w, <1>2, <1>5 DEF Distance
  <2> QED BY <1>w, <1>2, <1>5, <2>2, <2>3 DEF RingInv
<1>13. HeaderInv'
  <2>1. \A b \in OutBlocks : filled'[b] => hdr'[b] \in FinalHeaders
    BY <1>1, <1>6, <1>8 DEF HeaderInv
  <2>2. hdr'[wblk'[0].idx] \in Statuses
    <3>1. hdr[w1] \in Statuses
      BY <1>w, <1>1, <1>2 DEF HeaderInv
    <3>2. hdr'[w1] = hdr[w1] /\ wblk'[0].idx = w1
      BY <1>w, <1>4, <1>5, <1>8
    <3> QED BY <3>1, <3>2
  <2> QED BY <1>2, <2>1, <2>2 DEF HeaderInv
<1>14. NumberInv'
  <2>1. \A b \in OutBlocks : filled'[b] => hdr'[b].epoch <= epoch
    <3>1. epoch <= epoch
      BY <1>1 DEF MoreTypes
    <3> QED BY <1>1, <1>6, <1>8, <3>1 DEF NumberInv
  <2> QED BY <1>1, <1>2, <1>5, <2>1 DEF NumberInv
<1>15. SequenceInv'
  <2>1. Upcoming(w0)' = final
    BY <1>w, <1>4, <1>5, <1>8 DEF Upcoming
  <2>2. \A b \in OutBlocks : b # w0 /\ b # w1 => Upcoming(b)' = Upcoming(b)
    BY <1>w, <1>5, <1>8 DEF Upcoming
  <2>3. Upcoming(w1)' = wblk[1]
    BY <1>w, <1>5 DEF Upcoming
  <2>4. Upcoming(w0) = wblk[0]
    BY <1>w DEF Upcoming
  <2>5. ASSUME NEW b \in OutBlocks, filled'[b] PROVE Follows(hdr'[b], Upcoming(Succ(b))')
    <3>1. CASE b = w0
      <4>1. Follows(final, wblk[1])
        BY <1>1, <1>6 DEF NumberInv, Follows
      <4> QED BY <1>4, <1>8, <2>3, <3>1, <4>1
    <3>2. CASE b # w0
      <4>1. filled[b] /\ hdr'[b] = hdr[b] /\ Follows(hdr[b], Upcoming(Succ(b)))
        BY <1>1, <1>8, <2>5, <3>2 DEF SequenceInv
      <4>2. Succ(b) # w1 /\ Succ(b) \in OutBlocks
        BY <1>4, <3>2, SuccInjective, NextPlace
      <4>3. CASE Succ(b) = w0
        BY <1>6, <2>1, <2>4, <4>1, <4>3 DEF Follows
      <4>4. CASE Succ(b) # w0
        BY <2>2, <4>1, <4>2, <4>4
      <4> QED BY <4>3, <4>4
    <3> QED BY <3>1, <3>2
  <2>6. taken # <<>> => Follows(taken[Len(taken)], Upcoming(consumer)')
    <3>1. taken # <<>> => Follows(taken[Len(taken)], Upcoming(consumer))
      BY <1>1 DEF SequenceInv
    <3>2. PICK c \in OutBlocks : c = consumer /\ c = consumer'
      BY <1>1, <1>2 DEF TypeOK, OutBlocks
    <3>3. CASE c = w0
      <4>1. Upcoming(consumer)' = final /\ Upcoming(consumer) = wblk[0]
        BY <1>w, <2>1, <2>4, <3>2, <3>3 DEF Upcoming
      <4> QED BY <1>6, <3>1, <4>1 DEF Follows
    <3>4. CASE c # w0
      <4>1. Upcoming(c)' = Upcoming(c) /\ Upcoming(consumer)' = Upcoming(c)'
        BY <1>4, <2>2, <3>2, <3>4 DEF Upcoming
      <4> QED BY <3>1, <3>2, <4>1
    <3> QED BY <3>3, <3>4
  <2>7. HandedInSequence' /\ taken' = taken
    BY <1>1, <1>2 DEF SequenceInv, HandedInSequence
  <2> QED BY <2>5, <2>6, <2>7 DEF SequenceInv
<1>16. ValidInv'
  <2>1. ValidOnlyInside'
    BY <1>5, <1>7 DEF ValidOnlyInside, here
  <2> QED BY <1>1, <1>7, <2>1 DEF ValidInv, RoundDown
<1> QED BY <1>9, <1>10, <1>11, <1>12, <1>13, <1>14, <1>15, <1>16 DEF OuterInv

\* The thread has waited for the block that follows.
LEMMA WaitFreeStep == OuterInv /\ WaitForBlockFree => OuterInv'
<1> SUFFICES ASSUME OuterInv, WaitForBlockFree PROVE OuterInv'
  OBVIOUS
<1> USE DEF inRing, outRing, counts
<1>w. PICK w0 \in OutBlocks, w1 \in OutBlocks : w0 = wblk[0].idx /\ w1 = wblk[1].idx
  BY WorkingBlocks
<1>1. TypeOK /\ MoreTypes /\ AtPacket /\ RingInv /\ HeaderInv /\ NumberInv /\ SequenceInv
      /\ ValidInv
  BY DEF OuterInv
<1>2. /\ opc = "waitfree" /\ opc' = "store" /\ ~filled[w1]
      /\ hdr' = [hdr EXCEPT ![w1] = status]
      /\ UNCHANGED <<inRing, filled, data, consumer, taken, status, block_idx_in, i, wblk,
                     counts, epoch>>
  BY <1>w DEF WaitForBlockFree, BlockFree
<1>3. w1 = Succ(w0) /\ w1 # w0 /\ ~filled[w0] /\ consumer # w1
  BY <1>w, <1>2, WorkingBlocks
<1>4. /\ hdr' \in [OutBlocks -> Headers] /\ hdr'[w1] = status
      /\ \A b \in OutBlocks : b # w1 => hdr'[b] = hdr[b]
  BY <1>1, <1>2 DEF MoreTypes, Headers
<1>5. TypeOK' /\ MoreTypes' /\ AtPacket'
  <2>1. TypeOK'
    BY <1>1, <1>2 DEF TypeOK
  <2>2. MoreTypes'
    BY <1>1, <1>2, <1>4 DEF MoreTypes
  <2>3. AtPacket'
    BY <1>1, <1>2 DEF AtPacket, p_u8pkt
  <2> QED BY <2>1, <2>2, <2>3
<1>6. RingInv'
  BY <1>w, <1>1, <1>2 DEF RingInv, Distance
<1>7. HeaderInv'
  BY <1>w, <1>1, <1>2, <1>3, <1>4 DEF HeaderInv, MoreTypes
<1>8. NumberInv'
  <2>1. \A b \in OutBlocks : filled'[b] => hdr'[b] = hdr[b]
    BY <1>2, <1>4
  <2> QED BY <1>1, <1>2, <2>1 DEF NumberInv
<1>9. SequenceInv'
  <2>1. \A b \in OutBlocks : b # w1 => Upcoming(b)' = Upcoming(b)
    BY <1>2, <1>4 DEF Upcoming
  <2>2. ASSUME NEW b \in OutBlocks, filled'[b] PROVE Follows(hdr'[b], Upcoming(Succ(b))')
    <3>1. filled[b] /\ hdr'[b] = hdr[b] /\ Follows(hdr[b], Upcoming(Succ(b)))
      BY <1>1, <1>2, <1>4, <2>2 DEF SequenceInv
    <3>2. Succ(b) # w1 /\ Succ(b) \in OutBlocks
      BY <1>3, <3>1, SuccInjective, NextPlace
    <3> QED BY <2>1, <3>1, <3>2
  <2>3. Upcoming(consumer)' = Upcoming(consumer)
    <3>1. PICK c \in OutBlocks : c = consumer /\ c = consumer'
      BY <1>1, <1>2 DEF TypeOK, OutBlocks
    <3>2. Upcoming(c)' = Upcoming(c)
      BY <1>3, <2>1, <3>1
    <3> QED BY <3>1, <3>2 DEF Upcoming
  <2>4. HandedInSequence' /\ taken' = taken
    BY <1>1, <1>2 DEF SequenceInv, HandedInSequence
  <2> QED BY <1>1, <2>2, <2>3, <2>4 DEF SequenceInv
<1>10. ValidInv'
  BY <1>1, <1>2 DEF ValidInv, ValidOnlyInside
<1> QED BY <1>5, <1>6, <1>7, <1>8, <1>9, <1>10 DEF OuterInv

\* A step that changes the working blocks, but neither their places in the ring
\* nor the ring.
LEMMA BlocksInPlace ==
    ASSUME OuterInv, UNCHANGED <<filled, hdr, consumer, taken>>,
           opc # "waitfree", opc' # "waitfree",
           wblk'[0].idx = wblk[0].idx, wblk'[1].idx = wblk[1].idx
    PROVE  RingInv' /\ HeaderInv'
<1>1. RingInv'
  BY DEF OuterInv, RingInv, Distance
<1>2. HeaderInv'
  BY DEF OuterInv, HeaderInv
<1> QED BY <1>1, <1>2

\* The stream jumped.
LEMMA ResetStep == OuterInv /\ ResetBlocks => OuterInv'
<1> SUFFICES ASSUME OuterInv, ResetBlocks PROVE OuterInv'
  OBVIOUS
<1> USE DEF inRing, outRing, counts
<1> DEFINE n == BlkNum(p_u8pkt)
           here == (n + 1) * pktidx_per_block
           New(k) == [init_block_info(wblk[k], n + k + 1) EXCEPT !.epoch = epoch + 1]
<1>1. TypeOK /\ MoreTypes /\ AtPacket /\ RingInv /\ HeaderInv /\ NumberInv /\ SequenceInv
      /\ ValidInv
  BY DEF OuterInv
<1>2. /\ opc = "manage" /\ opc' = "packet"
      /\ wblk' = [k \in 0 .. 1 |-> New(k)]
      /\ epoch' = epoch + 1
      /\ status' = check_start_stop(here)
      /\ i' = i + 1
      /\ UNCHANGED <<inRing, outRing, block_idx_in, counts>>
  BY DEF ResetBlocks, ResetStatus
<1>3. n \in Nat /\ i \in 1 .. npkts_per_block_in
  BY <1>2, PacketAtHand
<1>4. wblk[0] \in BlockInfos /\ wblk[1] \in BlockInfos /\ epoch \in Nat
  BY <1>1 DEF TypeOK, MoreTypes, BlockInfos, OutBlocks
<1>5. /\ wblk' \in [0 .. 1 -> BlockInfos]
      /\ wblk'[0].idx = wblk[0].idx /\ wblk'[1].idx = wblk[1].idx
      /\ wblk'[0].num = n + 1 /\ wblk'[1].num = n + 2
      /\ wblk'[0].epoch = epoch + 1 /\ wblk'[1].epoch = epoch + 1
  <2>1. n + 0 + 1 = n + 1 /\ n + 1 + 1 = n + 2 /\ n + 1 \in Nat /\ n + 2 \in Nat
        /\ epoch + 1 \in Nat
    BY <1>3, <1>4
  <2>2. /\ New(0) \in BlockInfos /\ New(0).idx = wblk[0].idx /\ New(0).num = n + 1
        /\ New(0).epoch = epoch + 1
    BY <1>4, <2>1, ResetBlock
  <2>3. /\ New(1) \in BlockInfos /\ New(1).idx = wblk[1].idx /\ New(1).num = n + 2
        /\ New(1).epoch = epoch + 1
    BY <1>4, <2>1, ResetBlock
  <2>4. wblk'[0] = New(0) /\ wblk'[1] = New(1)
    BY <1>2
  <2>5. \A k \in 0 .. 1 : New(k) \in BlockInfos
    <3> SUFFICES ASSUME NEW k \in 0 .. 1 PROVE New(k) \in BlockInfos
      OBVIOUS
    <3>1. CASE k = 0
      BY <2>2, <3>1
    <3>2. CASE k = 1
      BY <2>3, <3>2
    <3> QED BY <3>1, <3>2
  <2> HIDE DEF New
  <2>6. wblk' \in [0 .. 1 -> BlockInfos]
    BY <1>2, <2>5
  <2> QED BY <2>2, <2>3, <2>4, <2>6
<1>6. /\ status' \in Statuses
      /\ status'.PKTSTART = status.PKTSTART /\ status'.PKTSTOP = status.PKTSTOP
      /\ status'.STTVALID = 1 => status.PKTSTART <= here /\ here < status.PKTSTOP
  BY <1>1, <1>2 DEF MoreTypes, Statuses, check_start_stop
<1> HIDE DEF n, here, New
<1>7. TypeOK'
  <2>1. i' \in 1 .. npkts_per_block_in + 1
    BY <1>2, <1>3, BlockAssumption
  <2>2. status'.STTVALID \in {0, 1}
    BY <1>6 DEF Statuses
  <2> QED BY <1>1, <1>2, <1>5, <2>1, <2>2 DEF TypeOK, BlockInfos, OutBlocks
<1>8. MoreTypes'
  <2>1. epoch' \in Nat
    BY <1>2, <1>4
  <2> QED BY <1>1, <1>2, <1>6, <2>1 DEF MoreTypes
<1>9. AtPacket'
  BY <1>1, <1>2 DEF AtPacket
<1>10. RingInv' /\ HeaderInv'
  BY <1>2, <1>5, BlocksInPlace
<1>11. /\ \A b \in OutBlocks : filled[b] => /\ hdr[b].epoch \in Nat
                                            /\ hdr[b].epoch <= epoch
       /\ \A k \in 1 .. Len(taken) : /\ taken[k].epoch \in Nat
                                     /\ taken[k].epoch <= epoch
  <2>1. \A b \in OutBlocks : filled[b] => /\ hdr[b].epoch \in Nat
                                           /\ hdr[b].epoch <= epoch
    BY <1>1 DEF NumberInv, HeaderInv, FinalHeaders
  <2>2. \A k \in 1 .. Len(taken) : /\ taken[k].epoch \in Nat
                                    /\ taken[k].epoch <= epoch
    <3> SUFFICES ASSUME NEW k \in 1 .. Len(taken)
                 PROVE  taken[k].epoch \in Nat /\ taken[k].epoch <= epoch
      OBVIOUS
    <3>1. taken[k] \in FinalHeaders
      BY <1>1 DEF MoreTypes
    <3> QED BY <1>1, <3>1 DEF NumberInv, FinalHeaders
  <2> QED BY <2>1, <2>2
<1>12. NumberInv'
  <2>1. wblk'[1].num = wblk'[0].num + 1
    BY <1>3, <1>5
  <2>2. \A b \in OutBlocks : filled[b] => hdr[b].epoch <= epoch + 1
    BY <1>4, <1>11
  <2>3. \A k \in 1 .. Len(taken) : taken[k].epoch <= epoch + 1
    BY <1>4, <1>11
  <2> QED BY <1>2, <1>5, <2>1, <2>2, <2>3 DEF NumberInv
<1>13. SequenceInv'
  <2>1. ASSUME NEW b \in OutBlocks, filled'[b] PROVE Follows(hdr'[b], Upcoming(Succ(b))')
    <3>1. filled[b] /\ hdr' = hdr /\ Follows(hdr[b], Upcoming(Succ(b)))
      BY <1>1, <1>2, <2>1 DEF SequenceInv
    <3>2. CASE Succ(b) = wblk[0].idx
      <4>1. Upcoming(Succ(b))' = wblk'[0]
        BY <1>5, <3>2 DEF Upcoming
      <4>2. hdr[b].epoch # epoch + 1
        BY <1>4, <1>11, <3>1
      <4> QED BY <1>5, <3>1, <4>1, <4>2 DEF Follows
    <3>3. CASE Succ(b) # wblk[0].idx
      <4>1. Upcoming(Succ(b))' = Upcoming(Succ(b))
        BY <1>5, <3>1, <3>3 DEF Upcoming
      <4> QED BY <3>1, <4>1
    <3> QED BY <3>2, <3>3
  <2>2. ASSUME taken # <<>> PROVE Follows(taken[Len(taken)], Upcoming(consumer)')
    <3>1. Follows(taken[Len(taken)], Upcoming(consumer))
      BY <1>1, <2>2 DEF SequenceInv
    <3>2. Len(taken) \in 1 .. Len(taken)
      BY <1>1, <2>2 DEF MoreTypes
    <3>3. CASE consumer = wblk[0].idx
      <4>1. Upcoming(consumer)' = wblk'[0]
        BY <1>2, <1>5, <3>3 DEF Upcoming
      <4>2. taken[Len(taken)].epoch # epoch + 1
        BY <1>4, <1>11, <3>2
      <4> QED BY <1>5, <4>1, <4>2 DEF Follows
    <3>4. CASE consumer # wblk[0].idx
      <4>1. Upcoming(consumer)' = Upcoming(consumer)
        BY <1>2, <1>5, <3>4 DEF Upcoming
      <4> QED BY <3>1, <4>1
    <3> QED BY <3>3, <3>4
  <2>3. HandedInSequence' /\ taken' = taken
    BY <1>1, <1>2 DEF SequenceInv, HandedInSequence
  <2> QED BY <2>1, <2>2, <2>3 DEF SequenceInv
<1>14. ValidInv'
  <2>1. ValidOnlyInside'
    BY <1>5, <1>6 DEF ValidOnlyInside, here
  <2> QED BY <1>1, <1>6, <2>1 DEF ValidInv, RoundDown
<1> QED BY <1>7, <1>8, <1>9, <1>10, <1>12, <1>13, <1>14 DEF OuterInv

\* A packet of a working block is counted there: what StorePacket does beside
\* the copy, and what it does to no other block than the working ones.
CountPacket ==
    LET k == BlkNum(p_u8pkt) - wblk[0].num IN
    /\ opc \in {"manage", "store"}
    /\ k \in 0 .. 1
    /\ wblk' = [wblk EXCEPT ![k].pkts = pkts_per_block, ![k].pktidxs = pktidx_per_block,
                            ![k].npacket = @ + 1]
    /\ opc' = "packet"
    /\ i' = i + 1
    /\ UNCHANGED <<inRing, filled, hdr, consumer, taken, status, block_idx_in, counts, epoch>>

LEMMA CountStep ==
    ASSUME OuterInv, CountPacket,
           data' \in [OutBlocks -> [Cells -> Packets \cup {Bad}]]
    PROVE  OuterInv'
<1> USE DEF inRing, counts
<1>1. TypeOK /\ MoreTypes /\ AtPacket /\ RingInv /\ HeaderInv /\ NumberInv /\ SequenceInv
      /\ ValidInv
  BY DEF OuterInv
<1>2. PICK k \in 0 .. 1 :
        wblk' = [wblk EXCEPT ![k].pkts = pkts_per_block, ![k].pktidxs = pktidx_per_block,
                             ![k].npacket = @ + 1]
  BY DEF CountPacket
<1>3. /\ opc \in {"manage", "store"} /\ opc' = "packet" /\ i' = i + 1
      /\ UNCHANGED <<inRing, filled, hdr, consumer, taken, status, block_idx_in, counts, epoch>>
  BY DEF CountPacket
<1>4. i \in 1 .. npkts_per_block_in
  BY <1>3, PacketAtHand
<1>5. wblk \in [0 .. 1 -> BlockInfos]
  BY <1>1 DEF TypeOK, BlockInfos, OutBlocks
<1>6. /\ wblk' \in [0 .. 1 -> BlockInfos]
      /\ \A m \in 0 .. 1 : /\ wblk'[m].idx = wblk[m].idx /\ wblk'[m].num = wblk[m].num
                           /\ wblk'[m].epoch = wblk[m].epoch
  <2> DEFINE new == [wblk[k] EXCEPT !.pkts = pkts_per_block, !.pktidxs = pktidx_per_block,
                                    !.npacket = @ + 1]
  <2>1. /\ new \in BlockInfos /\ new.idx = wblk[k].idx /\ new.num = wblk[k].num
        /\ new.epoch = wblk[k].epoch
    BY <1>5, CountedBlock
  <2>2. wblk' = [wblk EXCEPT ![k] = new]
    <3>1. \A m \in 0 .. 1 : m # k => wblk'[m] = wblk[m]
      BY <1>2, <1>5
    <3>2. wblk'[k] = new
      BY <1>2, <1>5
    <3>3. wblk' = [m \in 0 .. 1 |-> wblk'[m]]
      BY <1>2, <1>5
    <3> QED BY <1>5, <3>1, <3>2, <3>3
  <2> HIDE DEF new
  <2> QED BY <1>5, <2>1, <2>2
<1>7. /\ wblk'[0].idx = wblk[0].idx /\ wblk'[0].num = wblk[0].num
      /\ wblk'[0].epoch = wblk[0].epoch
      /\ wblk'[1].idx = wblk[1].idx /\ wblk'[1].num = wblk[1].num
      /\ wblk'[1].epoch = wblk[1].epoch
  BY <1>6
<1>8. TypeOK'
  <2>1. i' \in 1 .. npkts_per_block_in + 1
    BY <1>3, <1>4, BlockAssumption
  <2> QED BY <1>1, <1>3, <1>6, <2>1 DEF TypeOK, BlockInfos, OutBlocks
<1>9. MoreTypes' /\ AtPacket'
  BY <1>1, <1>3 DEF MoreTypes, AtPacket
<1>10. RingInv' /\ HeaderInv'
  BY <1>3, <1>7, BlocksInPlace
<1>11. NumberInv'
  BY <1>1, <1>3, <1>7 DEF NumberInv
<1>12. SequenceInv'
  <2>1. ASSUME NEW h, NEW b, Follows(h, Upcoming(b))
        PROVE  Follows(h, IF b = wblk'[0].idx THEN wblk'[0] ELSE hdr'[b])
    <3>1. CASE b = wblk[0].idx
      BY <1>7, <2>1, <3>1 DEF Upcoming, Follows
    <3>2. CASE b # wblk[0].idx
      BY <1>3, <1>7, <2>1, <3>2 DEF Upcoming
    <3> QED BY <3>1, <3>2
  <2>2. ASSUME NEW b \in OutBlocks, filled'[b] PROVE Follows(hdr'[b], Upcoming(Succ(b))')
    <3>1. Follows(hdr[b], Upcoming(Succ(b)))
      BY <1>1, <1>3, <2>2 DEF SequenceInv
    <3> QED BY <1>3, <2>1, <3>1 DEF Upcoming
  <2>3. ASSUME taken' # <<>> PROVE Follows(taken'[Len(taken')], Upcoming(consumer)')
    <3>1. Follows(taken[Len(taken)], Upcoming(consumer))
      BY <1>1, <1>3, <2>3 DEF SequenceInv
    <3> QED BY <1>3, <2>1, <3>1 DEF Upcoming
  <2>4. HandedInSequence'
    BY <1>1, <1>3 DEF SequenceInv, HandedInSequence
  <2> QED BY <2>2, <2>3, <2>4 DEF SequenceInv
<1>13. ValidInv'
  BY <1>1, <1>3, <1>7 DEF ValidInv, ValidOnlyInside
<1> QED BY <1>8, <1>9, <1>10, <1>11, <1>12, <1>13 DEF OuterInv

\* StorePacket copies into a working block, and so into none handed over.
LEMMA StoreStep ==
    ASSUME OuterInv, StorePacket
    PROVE  /\ OuterInv'
           /\ \A b \in OutBlocks : filled[b] => data'[b] = data[b]
<1>1. PICK k \in 0 .. 1 :
        /\ data' = [data EXCEPT ![wblk[k].idx][CellOf(p_u8pkt)] = p_u8pkt]
        /\ opc \in {"manage", "store"}
  BY DEF StorePacket
<1>2. data \in [OutBlocks -> [Cells -> Packets \cup {Bad}]] /\ wblk[k].idx \in OutBlocks
  BY DEF OuterInv, TypeOK, OutBlocks
<1>3. p_u8pkt \in Packets
  BY <1>1, PacketAtHand
<1>4. data' \in [OutBlocks -> [Cells -> Packets \cup {Bad}]]
  BY <1>1, <1>2, <1>3
<1>5. CountPacket
  BY DEF StorePacket, CountPacket
<1>6. ~filled[wblk[k].idx]
  BY <1>1, WorkingBlocks
<1>7. \A b \in OutBlocks : filled[b] => data'[b] = data[b]
  BY <1>1, <1>2, <1>6
<1> QED BY <1>4, <1>5, <1>7, CountStep

------------------------------------------------------------------------------
LEMMA NextOuterInv == OuterInv /\ [Next]_vars => OuterInv'
<1> SUFFICES ASSUME OuterInv, [Next]_vars PROVE OuterInv'
  OBVIOUS
<1>1. CASE UNCHANGED vars
  <2>1. TypeOK' /\ AtPacket'
    BY <1>1 DEF OuterInv, TypeOK, AtPacket, p_u8pkt, vars, inRing, outRing, counts
  <2> QED BY <1>1, <2>1, InputUntouched DEF vars, inRing, outRing
<1>2. CASE Outer
  BY <1>2, WaitSteps, PacketSteps, AdvanceStep, WaitFreeStep, ResetStep, StoreStep DEF Outer
<1>3. CASE Fill \/ Consume \/ StopThreads
  BY <1>3, FillStep, ConsumeStep, WaitSteps
<1> QED BY <1>1, <1>2, <1>3 DEF Next

\* The thread keeps its variables' types, whatever it finds on its stack and
\* whatever packets arrive.
THEOREM OuterTypes == Spec => []TypeOK
<1>1. OuterInv => TypeOK
  BY DEF OuterInv
<1> QED BY <1>1, InitOuterInv, NextOuterInv, PTL DEF Spec

\* finalize_block and increment_block keep the ring's order for any ring of
\* two blocks or more: the downstream thread never waits for a block that was
\* skipped.
THEOREM BlocksComeInOrder == Spec => []NextBlockComes
<1>1. OuterInv => NextBlockComes
  BY WorkingBlocks DEF NextBlockComes
<1> QED BY <1>1, InitOuterInv, NextOuterInv, PTL DEF Spec

\* Between two jumps of the stream the downstream thread gets every block
\* number in turn.
THEOREM BlocksInSequence == Spec => []HandedInSequence
<1>1. OuterInv => HandedInSequence
  BY DEF OuterInv, SequenceInv
<1> QED BY <1>1, InitOuterInv, NextOuterInv, PTL DEF Spec

\* check_start_stop is called wherever the first working block changes: STTVALID
\* never outlives the recording.
THEOREM ValidInside == Spec => []ValidOnlyInside
<1>1. OuterInv => ValidOnlyInside
  BY DEF OuterInv, ValidInv
<1> QED BY <1>1, InitOuterInv, NextOuterInv, PTL DEF Spec

\* No step writes into a block that the downstream thread has and keeps:
\* wait_for_block_free is all that is needed for that.
THEOREM HandedStay == Spec => HandedUntouched
<1>1. ASSUME OuterInv, [Next]_vars
      PROVE  [\A b \in 0 .. n_block - 1 :
                filled[b] /\ filled'[b] => data'[b] = data[b] /\ hdr'[b] = hdr[b]]_vars
  <2> SUFFICES ASSUME Next, NEW b \in OutBlocks, filled[b], filled'[b]
               PROVE  data'[b] = data[b] /\ hdr'[b] = hdr[b]
    BY <1>1 DEF OutBlocks
  <2> USE DEF inRing, outRing
  <2>1. CASE UNCHANGED <<hdr, data>>
    BY <2>1
  <2>2. CASE StorePacket
    BY <1>1, <2>2, StoreStep DEF StorePacket
  <2>3. CASE AdvanceBlocks
    <3>1. ~filled[wblk[0].idx] /\ wblk[0].idx \in OutBlocks
      BY <1>1, WorkingBlocks
    <3> QED BY <1>1, <2>3, <3>1 DEF AdvanceBlocks, OuterInv, MoreTypes
  <2>4. CASE WaitForBlockFree
    BY <1>1, <2>4, WorkingBlocks DEF WaitForBlockFree, BlockFree, OuterInv, MoreTypes
  <2>5. CASE NextSecond \/ Leave \/ DropInput \/ TakeInput \/ EndInput
    BY <2>1, <2>5 DEF NextSecond, Leave, DropInput, TakeInput, EndInput
  <2>6. CASE IgnorePacket \/ UpdateStatus \/ ResetBlocks \/ LatePacket
    BY <2>1, <2>6 DEF IgnorePacket, UpdateStatus, ResetBlocks, LatePacket
  <2>7. CASE Fill \/ Consume \/ StopThreads
    BY <2>1, <2>7 DEF Fill, Consume, StopThreads
  <2> QED BY <2>2, <2>3, <2>4, <2>5, <2>6, <2>7 DEF Next, Outer
<1> QED BY <1>1, InitOuterInv, NextOuterInv, PTL DEF Spec, HandedUntouched

------------------------------------------------------------------------------
\* Counting packets.  The code cannot tell a packet that comes twice: here none
\* does.
NoDuplicates == \A j, k \in DOMAIN Stream : j # k => Stream[j] \cap Stream[k] = {}

Processing == opc \in {"packet", "manage", "waitfree", "store"}

\* The thread has still to look at place n of input block b.
InPlaces == 1 .. npkts_per_block_in
Unread(b, n) == /\ inFilled[b] /\ inPkts[b][n] # Bad
                /\ ~(Processing /\ b = block_idx_in /\ n < i)

Sent == UNION {Stream[k] : k \in 1 .. producer}

\* Every packet still to be looked at is there once, is in no output block yet,
\* and was sent; so was what the output blocks hold.
Fresh ==
    /\ \A b, c \in InBlocks : \A n, m \in InPlaces :
         Unread(b, n) /\ Unread(c, m) /\ inPkts[b][n] = inPkts[c][m] => b = c /\ n = m
    /\ \A b \in InBlocks, n \in InPlaces : Unread(b, n) =>
         /\ inPkts[b][n] \in Sent
         /\ \A o \in OutBlocks, c \in Cells : data[o][c] # inPkts[b][n]
    /\ \A o \in OutBlocks, c \in Cells : data[o][c] # Bad =>
         data[o][c] \in Sent /\ CellOf(data[o][c]) = c

\* The cells of an output block that hold packets of block num.
Holding(o, num) == {c \in Cells : data[o][c] # Bad /\ BlkNum(data[o][c]) = num}

\* A working block holds the packets it counts, and knows its size when it
\* counts any.
Counting(w) ==
    /\ w.ndrop = 0
    /\ w.npacket <= Cardinality(Holding(w.idx, w.num))
    /\ w.npacket > 0 => w.pkts = pkts_per_block

CountInv ==
    /\ Fresh
    /\ Counting(wblk[0]) /\ Counting(wblk[1])
    /\ \A b \in OutBlocks : filled[b] /\ hdr[b].NPKT > 0 =>
         /\ hdr[b].NPKT <= Cardinality(Holding(b, hdr[b].num))
         /\ hdr[b].NDROP = Short(hdr[b].NPKT)

LEMMA HoldingSize ==
    ASSUME NEW o, NEW num
    PROVE  IsFiniteSet(Holding(o, num)) /\ Cardinality(Holding(o, num)) \in Nat
<1>1. pktidx_per_block * nslots \in Nat
  BY BlockAssumption
<1>2. IsFiniteSet(Cells)
  <2>1. 0 \in Int /\ pktidx_per_block * nslots - 1 \in Int
    BY <1>1
  <2> QED BY <2>1, FS_Interval DEF Cells
<1>3. Holding(o, num) \subseteq Cells
  BY DEF Holding
<1>4. IsFiniteSet(Holding(o, num))
  BY <1>2, <1>3, FS_Subset
<1> QED BY <1>4, FS_CardinalityType

\* A packet is determined by its block and its cell.
LEMMA CellOfPacket ==
    ASSUME NEW p \in Packets
    PROVE  /\ CellOf(p) \in Cells
           /\ \A q \in Packets : BlkNum(q) = BlkNum(p) /\ CellOf(q) = CellOf(p) => q = p
<1>1. PICK T \in Nat \ {0}, N \in Nat \ {0} : T = pktidx_per_block /\ N = nslots
  BY BlockAssumption
<1>2. \A q \in Packets : /\ q \in [pktidx : Nat, slot : 0 .. N - 1]
                         /\ q.pktidx \in Nat /\ q.slot \in 0 .. N - 1
                         /\ q.pktidx % T \in 0 .. T - 1
                         /\ q.pktidx = ((q.pktidx \div T) * T) + (q.pktidx % T)
  <2> TAKE q \in Packets
  <2>1. q \in [pktidx : Nat, slot : 0 .. N - 1]
    BY <1>1, BlockAssumption DEF Packets
  <2>2. q.pktidx \in Nat /\ q.slot \in 0 .. N - 1
    BY <2>1
  <2> QED BY <1>1, <2>1, <2>2, DivMod
<1>3. CellOf(p) \in Cells
  <2>1. PICK r \in 0 .. T - 1, s \in 0 .. N - 1 : r = p.pktidx % T /\ s = p.slot
    BY <1>2
  <2>2. (T - 1 - r) * N >= 0 /\ (T - 1 - r) * N = (T * N) - N - (r * N) /\ r * N >= 0
        /\ T * N \in Nat /\ r * N \in Int
    OBVIOUS
  <2>3. (r * N) + s \in 0 .. (T * N) - 1
    BY <2>2
  <2> QED BY <1>1, <2>1, <2>3 DEF CellOf, Cells
<1>4. ASSUME NEW q \in Packets, BlkNum(q) = BlkNum(p), CellOf(q) = CellOf(p) PROVE q = p
  <2>1. PICK r \in 0 .. T - 1, s \in 0 .. N - 1 : r = p.pktidx % T /\ s = p.slot
    BY <1>2
  <2>2. PICK u \in 0 .. T - 1, v \in 0 .. N - 1 : u = q.pktidx % T /\ v = q.slot
    BY <1>2
  <2>3. (r * N) + s = (u * N) + v
    BY <1>1, <1>4, <2>1, <2>2 DEF CellOf
  <2>4. r = u
    <3>1. (r - u) * N = v - s
      BY <2>3
    <3>2. CASE r > u
      <4>1. (r - u - 1) * N >= 0 /\ (r - u - 1) * N = ((r - u) * N) - N
        BY <3>2
      <4> QED BY <3>1, <4>1
    <3>3. CASE r < u
      <4>1. (u - r - 1) * N >= 0 /\ (u - r - 1) * N = (- ((r - u) * N)) - N
        BY <3>3
      <4> QED BY <3>1, <4>1
    <3> QED BY <3>2, <3>3
  <2>5. s = v
    BY <2>3, <2>4
  <2>6. q.pktidx = p.pktidx
    <3>1. q.pktidx \div T = p.pktidx \div T
      BY <1>1, <1>4 DEF BlkNum
    <3> QED BY <1>2, <2>1, <2>2, <2>4, <3>1
  <2>7. q.slot = p.slot
    BY <2>1, <2>2, <2>5
  <2> QED BY <1>2, <2>6, <2>7
<1> QED BY <1>3, <1>4

\* A step that reads on and leaves the rings' contents alone.
LEMMA FreshShrinks ==
    ASSUME Fresh, UNCHANGED <<inPkts, data, producer>>,
           \A b \in InBlocks, n \in InPlaces : Unread(b, n)' => Unread(b, n)
    PROVE  Fresh'
<1>1. Sent' = Sent
  BY DEF Sent
<1>2. \A b, c \in InBlocks : \A n, m \in InPlaces :
        Unread(b, n)' /\ Unread(c, m)' /\ inPkts'[b][n] = inPkts'[c][m] => b = c /\ n = m
  BY DEF Fresh
<1>3. \A b \in InBlocks, n \in InPlaces : Unread(b, n)' =>
        /\ inPkts'[b][n] \in Sent'
        /\ \A o \in OutBlocks, c \in Cells : data'[o][c] # inPkts'[b][n]
  BY <1>1 DEF Fresh
<1>4. \A o \in OutBlocks, c \in Cells : data'[o][c] # Bad =>
        data'[o][c] \in Sent' /\ CellOf(data'[o][c]) = c
  BY <1>1 DEF Fresh
<1> QED BY <1>2, <1>3, <1>4 DEF Fresh

\* The counts stay right as long as no block changes.
LEMMA CountFrame ==
    ASSUME CountInv, Fresh', UNCHANGED <<data, wblk, hdr>>,
           \A b \in OutBlocks : filled'[b] => filled[b]
    PROVE  CountInv'
<1>1. \A o, num : Holding(o, num)' = Holding(o, num)
  BY DEF Holding
<1>2. Counting(wblk[0])' /\ Counting(wblk[1])'
  BY <1>1 DEF CountInv, Counting
<1>3. \A b \in OutBlocks : filled'[b] /\ hdr'[b].NPKT > 0 =>
        /\ hdr'[b].NPKT <= Cardinality(Holding(b, hdr[b].num)')
        /\ hdr'[b].NDROP = Short(hdr'[b].NPKT)
  BY <1>1 DEF CountInv
<1> QED BY <1>2, <1>3 DEF CountInv

\* The steps that store nothing.
LEMMA ReadingSteps ==
    ASSUME OuterInv, CountInv,
           \/ NextSecond \/ Leave \/ DropInput \/ TakeInput \/ EndInput \/ StopThreads
           \/ IgnorePacket \/ UpdateStatus \/ LatePacket \/ Consume
    PROVE  CountInv'
<1> USE DEF inRing, outRing, counts
<1>1. TypeOK
  BY DEF OuterInv
<1>2. /\ UNCHANGED <<data, wblk, hdr, inPkts, producer>>
      /\ \A b \in OutBlocks : filled'[b] => filled[b]
  <2>1. CASE Consume
    BY <1>1, <2>1 DEF Consume, TypeOK, OutBlocks
  <2>2. CASE ~Consume
    BY <2>2 DEF NextSecond, Leave, DropInput, TakeInput, EndInput, StopThreads, IgnorePacket,
                UpdateStatus, LatePacket, FreeInput
  <2> QED BY <2>1, <2>2
<1>3. ASSUME NEW b \in InBlocks, NEW n \in InPlaces, Unread(b, n)' PROVE Unread(b, n)
  <2>1. n \in Nat /\ n >= 1 /\ i \in Nat
    BY <1>1, BlockAssumption DEF InPlaces, TypeOK
  <2>2. inFilled'[b] /\ inPkts[b][n] # Bad
    BY <1>2, <1>3 DEF Unread
  <2>3. CASE NextSecond \/ StopThreads \/ Consume
    BY <1>3, <2>3 DEF NextSecond, StopThreads, Consume, Unread, Processing
  <2>4. CASE Leave \/ DropInput \/ EndInput
    <3>1. inFilled' = [inFilled EXCEPT ![block_idx_in] = FALSE] \/ inFilled' = inFilled
      BY <2>4 DEF Leave, DropInput, EndInput, FreeInput
    <3>2. inFilled[b]
      BY <1>1, <2>2, <3>1 DEF TypeOK, InBlocks
    <3>3. CASE EndInput
      <4>1. inFilled' = [inFilled EXCEPT ![block_idx_in] = FALSE]
        BY <3>3 DEF EndInput, FreeInput
      <4>2. b # block_idx_in
        BY <1>1, <2>2, <4>1 DEF TypeOK, InBlocks
      <4> QED BY <2>2, <3>2, <4>2 DEF Unread
    <3>4. CASE Leave \/ DropInput
      <4>1. ~Processing
        BY <3>4 DEF Leave, DropInput, Processing
      <4> QED BY <2>2, <3>2, <4>1 DEF Unread
    <3> QED BY <2>4, <3>3, <3>4
  <2>5. CASE TakeInput
    <3>1. ~Processing /\ inFilled' = inFilled
      BY <2>5 DEF TakeInput, Processing
    <3> QED BY <2>2, <3>1 DEF Unread
  <2>6. CASE UpdateStatus
    <3>1. Processing /\ Processing' /\ UNCHANGED <<inFilled, block_idx_in, i>>
      BY <2>6 DEF UpdateStatus, Processing
    <3> QED BY <1>3, <2>2, <3>1 DEF Unread
  <2>7. CASE IgnorePacket \/ LatePacket
    <3>1. Processing /\ Processing' /\ UNCHANGED <<inFilled, block_idx_in>> /\ i' = i + 1
      BY <2>7 DEF IgnorePacket, LatePacket, Processing
    <3>2. ~(b = block_idx_in /\ n < i + 1)
      BY <1>3, <3>1 DEF Unread
    <3>3. ~(b = block_idx_in /\ n < i)
      BY <2>1, <3>2
    <3> QED BY <2>2, <3>1, <3>3 DEF Unread
  <2> QED BY <2>3, <2>4, <2>5, <2>6, <2>7
<1>4. Fresh'
  BY <1>2, <1>3, FreshShrinks DEF CountInv
<1> QED BY <1>2, <1>4, CountFrame

\* A working block that was given a number has counted nothing yet.
LEMMA NoneCounted ==
    ASSUME NEW w, w.npacket = 0, w.ndrop = 0
    PROVE  Counting(w)
<1>1. Cardinality(Holding(w.idx, w.num)) \in Nat
  BY HoldingSize
<1> QED BY <1>1 DEF Counting

\* A block that is finalised tells what it counted.
LEMMA FinalCounts ==
    ASSUME NEW w \in BlockInfos, Counting(w), w.npacket > 0
    PROVE  /\ Finalized(w).NPKT <= Cardinality(Holding(w.idx, Finalized(w).num))
           /\ Finalized(w).NDROP = Short(Finalized(w).NPKT)
<1>1. w.npacket \in Nat /\ w.pkts \in Nat
  BY DEF BlockInfos
<1>2. /\ w.pkts = pkts_per_block /\ w.ndrop = 0
      /\ w.npacket <= Cardinality(Holding(w.idx, w.num))
  BY DEF Counting
<1>3. Dropped(w) = Short(w.npacket)
  BY <1>1, <1>2 DEF Dropped, Short
<1> QED BY <1>2, <1>3 DEF Finalized

\* Handing a block over, waiting for the next, and a jump.
LEMMA BlockSteps ==
    ASSUME OuterInv, CountInv, AdvanceBlocks \/ WaitForBlockFree \/ ResetBlocks
    PROVE  CountInv'
<1> USE DEF inRing, outRing, counts
<1>1. TypeOK
  BY DEF OuterInv
<1>2. wblk[0] \in BlockInfos /\ wblk[1] \in BlockInfos
  BY <1>1 DEF TypeOK, BlockInfos, OutBlocks
<1>3. UNCHANGED <<inRing, data, block_idx_in>>
  BY DEF AdvanceBlocks, WaitForBlockFree, ResetBlocks
<1>4. Processing /\ Processing' /\ i' >= i /\ i \in Nat /\ i' \in Nat
  <2>1. i \in Nat
    BY <1>1, BlockAssumption DEF TypeOK
  <2>2. i' = i \/ i' = i + 1
    BY DEF AdvanceBlocks, WaitForBlockFree, ResetBlocks
  <2>3. Processing /\ Processing'
    BY DEF AdvanceBlocks, WaitForBlockFree, ResetBlocks, Processing
  <2> QED BY <2>1, <2>2, <2>3
<1>5. Fresh'
  <2>1. ASSUME NEW b \in InBlocks, NEW n \in InPlaces, Unread(b, n)' PROVE Unread(b, n)
    <3>1. n \in Nat
      BY BlockAssumption DEF InPlaces
    <3> QED BY <1>3, <1>4, <2>1, <3>1 DEF Unread
  <2> QED BY <1>3, <2>1, FreshShrinks DEF CountInv
<1>6. \A o, num : Holding(o, num)' = Holding(o, num)
  BY <1>3 DEF Holding
<1>7. Counting(wblk[0]) /\ Counting(wblk[1])
      /\ \A b \in OutBlocks : filled[b] /\ hdr[b].NPKT > 0 =>
           /\ hdr[b].NPKT <= Cardinality(Holding(b, hdr[b].num))
           /\ hdr[b].NDROP = Short(hdr[b].NPKT)
  BY DEF CountInv
<1>8. ASSUME Counting(wblk'[0]), Counting(wblk'[1]),
             \A b \in OutBlocks : filled'[b] /\ hdr'[b].NPKT > 0 =>
               /\ hdr'[b].NPKT <= Cardinality(Holding(b, hdr'[b].num))
               /\ hdr'[b].NDROP = Short(hdr'[b].NPKT)
      PROVE  CountInv'
  <2>1. Counting(wblk[0])' /\ Counting(wblk[1])'
    BY <1>6, <1>8 DEF Counting
  <2>2. \A b \in OutBlocks : filled'[b] /\ hdr'[b].NPKT > 0 =>
          /\ hdr'[b].NPKT <= Cardinality(Holding(b, hdr[b].num)')
          /\ hdr'[b].NDROP = Short(hdr'[b].NPKT)
    BY <1>6, <1>8
  <2> QED BY <1>5, <2>1, <2>2 DEF CountInv
<1>9. CASE ResetBlocks
  <2>1. UNCHANGED <<hdr, filled>>
    BY <1>9 DEF ResetBlocks
  <2>2. ASSUME NEW k \in 0 .. 1 PROVE wblk'[k].npacket = 0 /\ wblk'[k].ndrop = 0
    <3>1. wblk[k] \in BlockInfos
      BY <1>2
    <3>2. wblk'[k] = [init_block_info(wblk[k], BlkNum(p_u8pkt) + k + 1) EXCEPT !.epoch = epoch + 1]
      BY <1>9 DEF ResetBlocks
    <3> QED BY <3>1, <3>2 DEF init_block_info, BlockInfos
  <2> QED BY <1>7, <1>8, <2>1, <2>2, NoneCounted
<1>10. CASE WaitForBlockFree
  <2>1. wblk' = wblk /\ filled' = filled /\ ~filled[wblk[1].idx]
        /\ hdr' = [hdr EXCEPT ![wblk[1].idx] = status]
    BY <1>10 DEF WaitForBlockFree, BlockFree
  <2>2. \A b \in OutBlocks : filled[b] => hdr'[b] = hdr[b]
    BY <2>1, <1>2 DEF OuterInv, MoreTypes
  <2> QED BY <1>7, <1>8, <2>1, <2>2
<1>11. CASE AdvanceBlocks
  <2>1. PICK w \in BlockInfos, v \in BlockInfos : w = wblk[0] /\ v = wblk[1]
    BY <1>2
  <2>2. /\ hdr' = [hdr EXCEPT ![w.idx] = Finalized(w)]
        /\ filled' = [filled EXCEPT ![w.idx] = TRUE]
        /\ wblk' = Shifted(p_u8pkt)
    BY <1>11, <2>1 DEF AdvanceBlocks
  <2>3. wblk'[0] = v /\ wblk'[1] = increment_block(v, BlkNum(p_u8pkt))
    BY <2>1, <2>2 DEF Shifted
  <2>4. wblk'[1].npacket = 0 /\ wblk'[1].ndrop = 0
    BY <2>3 DEF increment_block, BlockInfos
  <2>5. ASSUME NEW b \in OutBlocks, filled'[b], hdr'[b].NPKT > 0
        PROVE  /\ hdr'[b].NPKT <= Cardinality(Holding(b, hdr'[b].num))
               /\ hdr'[b].NDROP = Short(hdr'[b].NPKT)
    <3>0. hdr \in [OutBlocks -> Headers] /\ filled \in [OutBlocks -> BOOLEAN]
      BY <1>1 DEF OuterInv, MoreTypes, TypeOK, OutBlocks
    <3>1. CASE b = w.idx
      <4>1. hdr'[b] = Finalized(w)
        BY <2>2, <3>0, <3>1
      <4>2. w.npacket > 0
        BY <2>5, <4>1 DEF Finalized
      <4> QED BY <1>7, <2>1, <3>1, <4>1, <4>2, FinalCounts
    <3>2. CASE b # w.idx
      <4>1. hdr'[b] = hdr[b] /\ filled[b]
        BY <2>2, <2>5, <3>0, <3>2
      <4> QED BY <1>7, <2>5, <4>1
    <3> QED BY <3>1, <3>2
  <2> QED BY <1>7, <1>8, <2>1, <2>3, <2>4, <2>5, NoneCounted
<1> QED BY <1>9, <1>10, <1>11

\* Every packet of a batch is new, and there once.
LEMMA FillCounts ==
    ASSUME NoDuplicates, OuterInv, CountInv, Fill
    PROVE  CountInv'
<1> USE DEF inRing, outRing, counts
<1> DEFINE f == producer % n_block_in
           st == Stream[producer + 1]
<1>1. TypeOK /\ AtPacket /\ Fresh /\ MoreTypes
  BY DEF OuterInv, CountInv
<1>2. producer \in Nat /\ Len(Stream) \in Nat /\ producer < Len(Stream) /\ producer' = producer + 1
  BY <1>1, BlockAssumption DEF Fill, TypeOK
<1>3. f \in InBlocks
  <2>1. n_block_in \in Nat \ {0}
    BY RingAssumption
  <2> QED BY <1>2, <2>1, DivMod DEF InBlocks
<1>4. PICK batch \in Batches(st) : inPkts' = [inPkts EXCEPT ![f] = batch]
  BY DEF Fill
<1>5. /\ ~inFilled[f] /\ inFilled' = [inFilled EXCEPT ![f] = TRUE]
      /\ UNCHANGED <<filled, hdr, data, opc, block_idx_in, i, wblk>>
  BY DEF Fill
<1>6. /\ \A n \in InPlaces : batch[n] \in st \cup {Bad}
      /\ \A n, m \in InPlaces : batch[n] = batch[m] => n = m \/ batch[n] = Bad
  BY DEF Batches, InPlaces
<1>7. Sent \subseteq Sent' /\ st \subseteq Sent' /\ st \cap Sent = {}
  <2>1. Sent \subseteq Sent' /\ st \subseteq Sent'
    <3>1. \A k \in 1 .. producer : k \in 1 .. producer'
      BY <1>2
    <3>2. producer + 1 \in 1 .. producer'
      BY <1>2
    <3> QED BY <3>1, <3>2 DEF Sent
  <2>2. ASSUME NEW k \in 1 .. producer PROVE Stream[k] \cap st = {}
    <3>1. Stream \in Seq(SUBSET [pktidx : Nat, slot : 0 .. nslots - 1])
      BY BlockAssumption
    <3>2. k \in DOMAIN Stream /\ producer + 1 \in DOMAIN Stream /\ k # producer + 1
      BY <1>2, <3>1
    <3> QED BY <3>2 DEF NoDuplicates
  <2> QED BY <2>1, <2>2 DEF Sent
<1> HIDE DEF f, st
<1>8. /\ inPkts'[f] = batch /\ inFilled'[f]
      /\ \A b \in InBlocks : b # f => inPkts'[b] = inPkts[b] /\ inFilled'[b] = inFilled[b]
  BY <1>1, <1>3, <1>4, <1>5 DEF TypeOK, MoreTypes, InBlocks
<1>9. ASSUME NEW b \in InBlocks, NEW n \in InPlaces, Unread(b, n)'
      PROVE  \/ b # f /\ Unread(b, n) /\ inPkts'[b][n] = inPkts[b][n]
             \/ b = f /\ inPkts'[b][n] = batch[n] /\ batch[n] \in st /\ batch[n] # Bad
  <2>1. CASE b # f
    BY <1>5, <1>8, <1>9, <2>1 DEF Unread, Processing
  <2>2. CASE b = f
    BY <1>6, <1>8, <1>9, <2>2 DEF Unread
  <2> QED BY <2>1, <2>2
<1>10. /\ \A b, c \in InBlocks : \A n, m \in InPlaces :
            Unread(b, n) /\ Unread(c, m) /\ inPkts[b][n] = inPkts[c][m] => b = c /\ n = m
       /\ \A b \in InBlocks, n \in InPlaces : Unread(b, n) =>
            /\ inPkts[b][n] \in Sent
            /\ \A o \in OutBlocks, c \in Cells : data[o][c] # inPkts[b][n]
       /\ \A o \in OutBlocks, c \in Cells : data[o][c] # Bad =>
            data[o][c] \in Sent /\ CellOf(data[o][c]) = c
  BY <1>1 DEF Fresh
<1>11. ASSUME NEW b \in InBlocks, NEW c \in InBlocks, NEW n \in InPlaces, NEW m \in InPlaces,
              Unread(b, n)', Unread(c, m)', inPkts'[b][n] = inPkts'[c][m]
       PROVE  b = c /\ n = m
  <2>1. CASE b = f /\ c = f
    BY <1>6, <1>9, <1>11, <2>1
  <2>2. CASE b # f /\ c # f
    BY <1>9, <1>10, <1>11, <2>2
  <2>3. CASE b = f /\ c # f
    BY <1>7, <1>9, <1>10, <1>11, <2>3
  <2>4. CASE b # f /\ c = f
    BY <1>7, <1>9, <1>10, <1>11, <2>4
  <2> QED BY <2>1, <2>2, <2>3, <2>4
<1>12. ASSUME NEW b \in InBlocks, NEW n \in InPlaces, Unread(b, n)'
       PROVE  /\ inPkts'[b][n] \in Sent'
              /\ \A o \in OutBlocks, c \in Cells : data'[o][c] # inPkts'[b][n]
  <2>1. CASE b # f
    BY <1>5, <1>7, <1>9, <1>10, <1>12, <2>1
  <2>2. CASE b = f
    <3>1. inPkts'[b][n] \in st /\ inPkts'[b][n] # Bad
      BY <1>9, <1>12, <2>2
    <3> QED BY <1>5, <1>7, <1>10, <3>1
  <2> QED BY <2>1, <2>2
<1>13. \A o \in OutBlocks, c \in Cells : data'[o][c] # Bad =>
         data'[o][c] \in Sent' /\ CellOf(data'[o][c]) = c
  BY <1>5, <1>7, <1>10
<1>14. Fresh'
  BY <1>11, <1>12, <1>13 DEF Fresh
<1> QED BY <1>5, <1>14, CountFrame

\* A packet is stored in a cell that held none of its block.
LEMMA StoreCounts ==
    ASSUME OuterInv, CountInv, StorePacket
    PROVE  CountInv'
<1> USE DEF inRing, outRing, counts
<1>1. TypeOK /\ AtPacket /\ NumberInv /\ Fresh
  BY DEF OuterInv, CountInv
<1>p. PICK p : p = p_u8pkt
  OBVIOUS
<1>2. PICK k \in 0 .. 1 : k = BlkNum(p) - wblk[0].num /\ p = p_u8pkt
  BY <1>p DEF StorePacket
<1>k. (k = 0 /\ 1 - k = 1) \/ (k = 1 /\ 1 - k = 0)
  OBVIOUS
<1>3. PICK w \in BlockInfos, v \in BlockInfos : w = wblk[k] /\ v = wblk[1 - k]
  <2>1. wblk \in [0 .. 1 -> BlockInfos] /\ 1 - k \in 0 .. 1
    BY <1>1 DEF TypeOK, BlockInfos, OutBlocks
  <2> QED BY <2>1
<1>4. /\ data' = [data EXCEPT ![w.idx][CellOf(p)] = p]
      /\ wblk' = [wblk EXCEPT ![k].pkts = pkts_per_block, ![k].pktidxs = pktidx_per_block,
                              ![k].npacket = @ + 1]
      /\ opc \in {"manage", "store"} /\ opc' = "packet" /\ i' = i + 1
      /\ UNCHANGED <<inRing, filled, hdr, block_idx_in>>
  BY <1>2, <1>3 DEF StorePacket
<1>5. i \in InPlaces /\ i \in Nat /\ p # Bad /\ block_idx_in \in InBlocks
      /\ p = inPkts[block_idx_in][i] /\ Unread(block_idx_in, i)
  <2>1. i \in Nat /\ i >= 1 /\ i <= npkts_per_block_in /\ npkts_per_block_in \in Nat
        /\ inFilled[block_idx_in] /\ p_u8pkt # Bad
    <3>1. npkts_per_block_in \in Nat /\ i \in 1 .. npkts_per_block_in + 1
      BY <1>1, BlockAssumption DEF TypeOK
    <3>2. inFilled[block_idx_in] /\ i <= npkts_per_block_in /\ p_u8pkt # Bad
      BY <1>1, <1>4 DEF AtPacket
    <3> QED BY <3>1, <3>2
  <2>2. ~(i < i)
    BY <2>1
  <2>3. Unread(block_idx_in, i)
    BY <2>1, <2>2 DEF Unread, p_u8pkt
  <2> QED BY <1>1, <1>2, <2>1, <2>3 DEF TypeOK, InBlocks, InPlaces, p_u8pkt
<1>6. /\ p \in Sent
      /\ \A o \in OutBlocks, c \in Cells : data[o][c] # p
      /\ \A o \in OutBlocks, c \in Cells : data[o][c] # Bad =>
           data[o][c] \in Sent /\ CellOf(data[o][c]) = c
      /\ \A b \in InBlocks, n \in InPlaces :
           Unread(b, n) /\ inPkts[b][n] = p => b = block_idx_in /\ n = i
  BY <1>1, <1>5 DEF Fresh
<1>7. Sent \subseteq Packets
  <2>1. Stream \in Seq(SUBSET [pktidx : Nat, slot : 0 .. nslots - 1]) /\ producer \in Nat
        /\ producer <= Len(Stream)
    BY <1>1, BlockAssumption DEF TypeOK
  <2>2. \A n \in 1 .. producer : n \in DOMAIN Stream
    BY <2>1
  <2> QED BY <2>2 DEF Sent, Packets
<1>8. PICK c \in Cells : c = CellOf(p)
  BY <1>6, <1>7, CellOfPacket
<1>9. /\ w.idx \in OutBlocks /\ v.idx \in OutBlocks /\ w.idx # v.idx
      /\ ~filled[w.idx]
  <2>1. wblk[0].idx \in OutBlocks /\ wblk[1].idx \in OutBlocks /\ wblk[0].idx # wblk[1].idx
        /\ ~filled[wblk[0].idx] /\ ~filled[wblk[1].idx]
    BY <1>4, WorkingBlocks
  <2> QED BY <1>3, <1>k, <2>1
<1>10. /\ data'[w.idx][c] = p
       /\ \A d \in Cells : d # c => data'[w.idx][d] = data[w.idx][d]
       /\ \A o \in OutBlocks : o # w.idx => data'[o] = data[o]
  <2>1. data \in [OutBlocks -> [Cells -> Packets \cup {Bad}]]
    BY <1>1 DEF TypeOK, OutBlocks
  <2>2. data' = [data EXCEPT ![w.idx] = [data[w.idx] EXCEPT ![c] = p]]
    BY <1>4, <1>8
  <2>3. data[w.idx] \in [Cells -> Packets \cup {Bad}]
    BY <1>9, <2>1
  <2> QED BY <1>9, <2>1, <2>2, <2>3
<1>11. Fresh'
  <2>1. Sent' = Sent /\ inPkts' = inPkts
    BY <1>4 DEF Sent
  <2>2. ASSUME NEW b \in InBlocks, NEW n \in InPlaces, Unread(b, n)'
        PROVE  Unread(b, n) /\ ~(b = block_idx_in /\ n = i)
    <3>1. n \in Nat
      BY BlockAssumption DEF InPlaces
    <3>2. Processing /\ Processing'
      BY <1>4 DEF Processing
    <3>3. ~(b = block_idx_in /\ n < i + 1) /\ inFilled[b] /\ inPkts[b][n] # Bad
      BY <1>4, <2>2, <3>2 DEF Unread
    <3> QED BY <1>5, <3>1, <3>2, <3>3 DEF Unread
  <2>3. \A o \in OutBlocks, d \in Cells : data'[o][d] = data[o][d] \/ (data'[o][d] = p /\ d = c)
    BY <1>10
  <2>4. \A b \in InBlocks, n \in InPlaces : Unread(b, n)' =>
          /\ inPkts'[b][n] \in Sent'
          /\ \A o \in OutBlocks, d \in Cells : data'[o][d] # inPkts'[b][n]
    <3> SUFFICES ASSUME NEW b \in InBlocks, NEW n \in InPlaces, Unread(b, n)'
                 PROVE  /\ inPkts'[b][n] \in Sent'
                        /\ \A o \in OutBlocks, d \in Cells : data'[o][d] # inPkts'[b][n]
      OBVIOUS
    <3>1. Unread(b, n) /\ inPkts[b][n] # p
      BY <1>6, <2>2
    <3>2. inPkts[b][n] \in Sent /\ \A o \in OutBlocks, d \in Cells : data[o][d] # inPkts[b][n]
      BY <1>1, <3>1 DEF Fresh
    <3> QED BY <2>1, <2>3, <3>1, <3>2
  <2>5. \A b, d \in InBlocks : \A n, m \in InPlaces :
          Unread(b, n)' /\ Unread(d, m)' /\ inPkts'[b][n] = inPkts'[d][m] => b = d /\ n = m
    BY <1>1, <2>1, <2>2 DEF Fresh
  <2>6. \A o \in OutBlocks, d \in Cells : data'[o][d] # Bad =>
          data'[o][d] \in Sent' /\ CellOf(data'[o][d]) = d
    BY <1>6, <1>8, <2>1, <2>3
  <2> QED BY <2>4, <2>5, <2>6 DEF Fresh
<1>12. /\ wblk'[k].idx = w.idx /\ wblk'[k].num = w.num /\ wblk'[k].ndrop = w.ndrop
       /\ wblk'[k].npacket = w.npacket + 1 /\ wblk'[k].pkts = pkts_per_block
       /\ wblk'[1 - k] = v
  <2>1. wblk \in [0 .. 1 -> BlockInfos] /\ 1 - k \in 0 .. 1 /\ 1 - k # k
    BY <1>1 DEF TypeOK, BlockInfos, OutBlocks
  <2>2. wblk' = [wblk EXCEPT ![k] = [[[wblk[k] EXCEPT !.pkts = pkts_per_block]
                                        EXCEPT !.pktidxs = pktidx_per_block]
                                        EXCEPT !.npacket = wblk[k].npacket + 1]]
    BY <1>4, <2>1 DEF BlockInfos
  <2>3. wblk'[k] = [[[w EXCEPT !.pkts = pkts_per_block] EXCEPT !.pktidxs = pktidx_per_block]
                      EXCEPT !.npacket = w.npacket + 1]
        /\ wblk'[1 - k] = v
    BY <1>3, <2>1, <2>2
  <2> QED BY <2>3 DEF BlockInfos
<1>13. BlkNum(p) = w.num
  <2>1. wblk[0].num \in Nat /\ wblk[1].num = wblk[0].num + 1
    BY <1>1 DEF NumberInv, TypeOK
  <2>2. BlkNum(p) = wblk[0].num + k
    <3>1. BlkNum(p) \in Int
      <4>1. p \in [pktidx : Nat, slot : 0 .. nslots - 1] /\ pktidx_per_block \in Nat \ {0}
        BY <1>6, <1>7, BlockAssumption DEF Packets
      <4>2. p.pktidx \in Nat
        BY <4>1
      <4> QED BY <4>1, <4>2, DivMod DEF BlkNum
    <3> QED BY <1>2, <2>1, <3>1
  <2> QED BY <1>3, <2>1, <2>2
<1>14. \A num : \A o \in OutBlocks : o # w.idx => Holding(o, num)' = Holding(o, num)
  BY <1>10 DEF Holding
<1>15. c \notin Holding(w.idx, w.num) /\ Holding(w.idx, w.num)' = Holding(w.idx, w.num) \cup {c}
  <2>1. ASSUME c \in Holding(w.idx, w.num) PROVE FALSE
    <3>1. /\ data[w.idx][c] \in Packets /\ CellOf(data[w.idx][c]) = CellOf(p)
          /\ BlkNum(data[w.idx][c]) = BlkNum(p)
      BY <1>6, <1>7, <1>8, <1>9, <1>13, <2>1 DEF Holding
    <3>2. data[w.idx][c] = p
      BY <1>6, <1>7, <3>1, CellOfPacket
    <3> QED BY <1>6, <1>9, <3>2
  <2>2. Holding(w.idx, w.num)' = Holding(w.idx, w.num) \cup {c}
    BY <1>5, <1>10, <1>13 DEF Holding
  <2> QED BY <2>1, <2>2
<1>16. Cardinality(Holding(w.idx, w.num)') = Cardinality(Holding(w.idx, w.num)) + 1
  BY <1>15, HoldingSize, FS_AddElement
<1>17. Counting(wblk[k])' /\ Counting(wblk[1 - k])'
  <2>1. Counting(w) /\ Counting(v)
    BY <1>3, <1>k DEF CountInv
  <2>2. w.npacket \in Nat /\ Cardinality(Holding(w.idx, w.num)) \in Nat
    BY HoldingSize DEF BlockInfos
  <2>3. Counting(wblk[k])'
    BY <1>12, <1>16, <2>1, <2>2 DEF Counting
  <2>4. Counting(wblk[1 - k])'
    BY <1>9, <1>12, <1>14, <2>1 DEF Counting
  <2> QED BY <2>3, <2>4
<1>18. Counting(wblk[0])' /\ Counting(wblk[1])'
  BY <1>17, <1>k
<1>19. \A b \in OutBlocks : filled'[b] /\ hdr'[b].NPKT > 0 =>
         /\ hdr'[b].NPKT <= Cardinality(Holding(b, hdr[b].num)')
         /\ hdr'[b].NDROP = Short(hdr'[b].NPKT)
  BY <1>4, <1>9, <1>14 DEF CountInv
<1> QED BY <1>11, <1>18, <1>19 DEF CountInv

LEMMA InitCountInv == Init => CountInv
<1> SUFFICES ASSUME Init PROVE CountInv
  OBVIOUS
<1>1. \A b \in InBlocks : ~inFilled[b]
  BY DEF Init, InBlocks
<1>2. \A o \in OutBlocks, c \in Cells : data[o][c] = Bad
  BY DEF Init, OutBlocks
<1>3. Fresh
  BY <1>1, <1>2 DEF Fresh, Unread
<1>4. \A k \in 0 .. 1 : wblk[k].npacket = 0 /\ wblk[k].ndrop = 0
  BY DEF Init
<1>5. \A b \in OutBlocks : ~filled[b]
  BY DEF Init, OutBlocks
<1> QED BY <1>3, <1>4, <1>5, NoneCounted DEF CountInv

LEMMA NextCountInv ==
    ASSUME NoDuplicates, OuterInv, CountInv, [Next]_vars
    PROVE  CountInv'
<1>1. CASE UNCHANGED vars
  <2>1. UNCHANGED <<inFilled, inPkts, producer, opc, block_idx_in, i, data, wblk, hdr, filled>>
    BY <1>1 DEF vars, inRing, outRing
  <2>2. Fresh'
    BY <2>1, FreshShrinks DEF CountInv, Unread, Processing
  <2> QED BY <2>1, <2>2, CountFrame
<1>2. CASE Next
  BY <1>2, ReadingSteps, BlockSteps, FillCounts, StoreCounts DEF Next, Outer
<1> QED BY <1>1, <1>2

\* If no packet comes twice, a block handed downstream has the packets its
\* header counts, each in a cell of its own, and NDROP is what the thread's check
\* makes of that count, whatever pkts_per_block is: no jump, late packet, reused
\* block or uninitialised size spoils them.
THEOREM HeaderCounts ==
    ASSUME NoDuplicates
    PROVE  Spec => []HeaderCountsPackets
<1>1. OuterInv /\ CountInv => HeaderCountsPackets
  <2> SUFFICES ASSUME OuterInv, CountInv,
                      NEW b \in DOMAIN Handed, Handed[b].hdr.NPKT > 0
               PROVE  /\ Handed[b].hdr.NPKT <= Cardinality(PacketsOf(Handed[b]))
                      /\ Handed[b].hdr.NDROP = Short(Handed[b].hdr.NPKT)
    BY DEF HeaderCountsPackets
  <2>1. /\ b \in OutBlocks /\ filled[b]
        /\ Handed[b].hdr = hdr[b] /\ Handed[b].data = data[b]
    BY DEF Handed, OutBlocks
  <2>2. PacketsOf(Handed[b]) = Holding(b, hdr[b].num)
    BY <2>1 DEF PacketsOf, Holding
  <2> QED BY <2>1, <2>2 DEF CountInv
<1>2. Init => OuterInv /\ CountInv
  BY InitOuterInv, InitCountInv
<1>3. OuterInv /\ CountInv /\ [Next]_vars => (OuterInv /\ CountInv)'
  BY NextOuterInv, NextCountInv
<1> QED BY <1>1, <1>2, <1>3, PTL DEF Spec

------------------------------------------------------------------------------
\* No drop is lost

\* t lists the sums of f[1], f[2], ... up to f[m].
IsSum(t, f, m) == t = [k \in 0 .. m |-> IF k = 0 THEN 0 ELSE t[k - 1] + f[k]]

LEMMA SumExists ==
    ASSUME NEW f, NEW n \in Nat
    PROVE  \E t : IsSum(t, f, n)
<1> DEFINE G == {m \in Nat : \E t : IsSum(t, f, m)}
<1>1. 0 \in G
  <2>1. IsSum([k \in 0 .. 0 |-> 0], f, 0)
    BY DEF IsSum
  <2> QED BY <2>1
<1>2. ASSUME NEW m \in G PROVE m + 1 \in G
  <2>1. PICK t : IsSum(t, f, m)
    OBVIOUS
  <2> DEFINE u == [k \in 0 .. m + 1 |-> IF k = m + 1 THEN t[m] + f[m + 1] ELSE t[k]]
  <2>2. ASSUME NEW k \in 0 .. m + 1
        PROVE  u[k] = IF k = 0 THEN 0 ELSE u[k - 1] + f[k]
    <3>1. CASE k = m + 1
      BY <3>1
    <3>2. CASE k # m + 1
      <4>1. k \in 0 .. m /\ (k # 0 => k - 1 \in 0 .. m + 1 /\ k - 1 # m + 1)
        BY <3>2
      <4> QED BY <2>1, <3>2, <4>1 DEF IsSum
    <3> QED BY <3>1, <3>2
  <2>3. IsSum(u, f, m + 1)
    <3>1. u = [k \in 0 .. m + 1 |-> u[k]]
      OBVIOUS
    <3> HIDE DEF u
    <3> QED BY <2>2, <3>1 DEF IsSum
  <2> QED BY <2>3
<1>3. G = Nat
  <2> HIDE DEF G
  <2>1. G \in SUBSET Nat
    BY DEF G
  <2> QED BY <1>1, <1>2, <2>1, NatSetInduction
<1> QED BY <1>3

\* The sums of a function do not depend on how far they go.
LEMMA SumUnique ==
    ASSUME NEW f, NEW m \in Nat, NEW n \in Nat, m <= n, NEW t, NEW u,
           IsSum(t, f, m), IsSum(u, f, n)
    PROVE  t[m] = u[m]
<1> DEFINE G == {k \in Nat : k <= m => t[k] = u[k]}
<1>1. 0 \in G
  BY DEF IsSum
<1>2. ASSUME NEW k \in G PROVE k + 1 \in G
  <2> SUFFICES ASSUME k + 1 <= m PROVE t[k + 1] = u[k + 1]
    OBVIOUS
  <2>1. k + 1 \in 0 .. m /\ k + 1 \in 0 .. n /\ k + 1 # 0 /\ (k + 1) - 1 = k
    OBVIOUS
  <2>2. t[k + 1] = t[k] + f[k + 1] /\ u[k + 1] = u[k] + f[k + 1]
    BY <2>1 DEF IsSum
  <2>3. t[k] = u[k]
    OBVIOUS
  <2> QED BY <2>2, <2>3
<1>3. G = Nat
  <2> HIDE DEF G
  <2>1. G \in SUBSET Nat
    BY DEF G
  <2> QED BY <1>1, <1>2, <2>1, NatSetInduction
<1> QED BY <1>3

LEMMA SumSteps ==
    ASSUME NEW f
    PROVE  /\ SumTo(f, 0) = 0
           /\ \A n \in Nat : SumTo(f, n + 1) = SumTo(f, n) + f[n + 1]
<1> DEFINE S(n) == CHOOSE t : IsSum(t, f, n)
<1>1. \A n \in Nat : IsSum(S(n), f, n)
  BY SumExists
<1>2. \A n \in Nat : SumTo(f, n) = S(n)[n]
  BY DEF SumTo, IsSum
<1> HIDE DEF S
<1>3. SumTo(f, 0) = 0
  BY <1>1, <1>2 DEF IsSum
<1>4. ASSUME NEW n \in Nat PROVE SumTo(f, n + 1) = SumTo(f, n) + f[n + 1]
  <2>1. n + 1 \in Nat /\ n + 1 \in 0 .. n + 1 /\ n + 1 # 0 /\ (n + 1) - 1 = n /\ n <= n + 1
    OBVIOUS
  <2>2. IsSum(S(n), f, n) /\ IsSum(S(n + 1), f, n + 1)
    BY <1>1, <2>1
  <2>3. S(n + 1)[n + 1] = S(n + 1)[n] + f[n + 1]
    BY <2>1, <2>2 DEF IsSum
  <2>4. S(n)[n] = S(n + 1)[n]
    BY <2>1, <2>2, SumUnique
  <2> QED BY <1>2, <2>1, <2>3, <2>4
<1> QED BY <1>3, <1>4

\* What two functions have in common they add up to: all but f[j] and g[j].
LEMMA SumChanges ==
    ASSUME NEW f, NEW g, NEW n \in Nat, NEW j \in Nat,
           \A k \in 1 .. n : f[k] \in Nat /\ g[k] \in Nat /\ (k # j => f[k] = g[k])
    PROVE  /\ SumTo(f, n) \in Nat /\ SumTo(g, n) \in Nat
           /\ j \notin 1 .. n => SumTo(g, n) = SumTo(f, n)
           /\ j \in 1 .. n => SumTo(g, n) + f[j] = SumTo(f, n) + g[j]
<1> DEFINE Facts(m) == /\ SumTo(f, m) \in Nat /\ SumTo(g, m) \in Nat
                       /\ j \notin 1 .. m => SumTo(g, m) = SumTo(f, m)
                       /\ j \in 1 .. m => SumTo(g, m) + f[j] = SumTo(f, m) + g[j]
           G == {m \in Nat : m <= n => Facts(m)}
<1>1. 0 \in G
  BY SumSteps
<1>2. ASSUME NEW m \in G PROVE m + 1 \in G
  <2> SUFFICES ASSUME m + 1 <= n PROVE Facts(m + 1)
    OBVIOUS
  <2>1. m + 1 \in 1 .. n /\ Facts(m)
    OBVIOUS
  <2>2. /\ SumTo(f, m + 1) = SumTo(f, m) + f[m + 1]
        /\ SumTo(g, m + 1) = SumTo(g, m) + g[m + 1]
    BY SumSteps
  <2>3. f[m + 1] \in Nat /\ g[m + 1] \in Nat /\ (m + 1 # j => f[m + 1] = g[m + 1])
    BY <2>1
  <2>4. CASE j = m + 1
    BY <2>1, <2>2, <2>3, <2>4
  <2>5. CASE j # m + 1
    <3>1. j \in 1 .. m + 1 <=> j \in 1 .. m
      BY <2>5
    <3>2. j \in 1 .. m => f[j] \in Nat /\ g[j] \in Nat
      BY <2>1
    <3> QED BY <2>1, <2>2, <2>3, <2>5, <3>1, <3>2
  <2> QED BY <2>4, <2>5
<1>3. G = Nat
  <2> HIDE DEF G
  <2>1. G \in SUBSET Nat
    BY DEF G
  <2> QED BY <1>1, <1>2, <2>1, NatSetInduction
<1>4. Facts(n)
  BY <1>3
<1> QED BY <1>4

LEMMA SumSame ==
    ASSUME NEW f, NEW g, NEW n \in Nat, \A k \in 1 .. n : f[k] \in Nat /\ f[k] = g[k]
    PROVE  SumTo(g, n) = SumTo(f, n) /\ SumTo(f, n) \in Nat
<1>1. PICK j \in Nat : j = 0
  OBVIOUS
<1>2. j \notin 1 .. n
  BY <1>1
<1>3. \A k \in 1 .. n : f[k] \in Nat /\ g[k] \in Nat /\ (k # j => f[k] = g[k])
  OBVIOUS
<1> QED BY <1>2, <1>3, SumChanges

LEMMA HeaderDrops ==
    ASSUME OuterInv
    PROVE  /\ taken \in Seq(FinalHeaders) /\ status \in Statuses /\ ndrop_total \in Nat
           /\ \A b \in OutBlocks : filled[b] => hdr[b].NDROP \in Nat
           /\ \A k \in 1 .. Len(taken) : DropsTaken[k] \in Nat
           /\ \A k \in 1 .. n_block : DropsHanded[k] \in Nat
<1>1. taken \in Seq(FinalHeaders) /\ status \in Statuses /\ ndrop_total \in Nat
  BY DEF OuterInv, MoreTypes, TypeOK
<1>2. \A b \in OutBlocks : filled[b] => hdr[b].NDROP \in Nat
  BY DEF OuterInv, HeaderInv, FinalHeaders
<1>3. ASSUME NEW k \in 1 .. Len(taken) PROVE DropsTaken[k] \in Nat
  <2>1. taken[k] \in FinalHeaders
    BY <1>1
  <2> QED BY <2>1 DEF DropsTaken, FinalHeaders
<1>4. ASSUME NEW k \in 1 .. n_block PROVE DropsHanded[k] \in Nat
  <2>1. k - 1 \in OutBlocks
    BY RingAssumption DEF OutBlocks
  <2> QED BY <1>2, <2>1 DEF DropsHanded
<1> QED BY <1>1, <1>2, <1>3, <1>4

LEMMA DropsFrame ==
    ASSUME OuterInv, DropsAccounted, UNCHANGED <<filled, taken>>,
           \A b \in OutBlocks : filled[b] => hdr'[b] = hdr[b],
           status'.NDROP + ndrop_total' = status.NDROP + ndrop_total
    PROVE  DropsAccounted'
<1>1. DropsTaken' = DropsTaken
  BY DEF DropsTaken
<1>2. ASSUME NEW k \in 1 .. n_block
      PROVE  (IF filled'[k - 1] THEN hdr'[k - 1].NDROP ELSE 0)
                = (IF filled[k - 1] THEN hdr[k - 1].NDROP ELSE 0)
  <2>1. k - 1 \in OutBlocks
    BY RingAssumption DEF OutBlocks
  <2> QED BY <2>1
<1>3. DropsHanded' = DropsHanded
  BY <1>2 DEF DropsHanded
<1> QED BY <1>1, <1>3 DEF DropsAccounted

\* The entry of a block among the drops handed over.
LEMMA HandedDrops ==
    ASSUME NEW b \in OutBlocks
    PROVE  /\ b + 1 \in 1 .. n_block /\ b + 1 \in Nat
           /\ DropsHanded[b + 1] = IF filled[b] THEN hdr[b].NDROP ELSE 0
           /\ DropsHanded'[b + 1] = IF filled'[b] THEN hdr'[b].NDROP ELSE 0
<1>1. b + 1 \in 1 .. n_block /\ b + 1 \in Nat /\ (b + 1) - 1 = b
  BY RingAssumption DEF OutBlocks
<1> QED BY <1>1 DEF DropsHanded

\* One block's entry changes.
LEMMA OneBlockDrops ==
    ASSUME OuterInv, OuterInv', NEW b \in OutBlocks, NEW before \in Nat, NEW after \in Nat,
           before = DropsHanded[b + 1], after = DropsHanded'[b + 1],
           \A o \in OutBlocks : o # b => filled'[o] = filled[o] /\ hdr'[o] = hdr[o]
    PROVE  /\ SumTo(DropsHanded, n_block) \in Nat /\ SumTo(DropsHanded', n_block) \in Nat
           /\ SumTo(DropsHanded', n_block) + before = SumTo(DropsHanded, n_block) + after
<1>1. ASSUME NEW k \in 1 .. n_block, k # b + 1 PROVE DropsHanded[k] = DropsHanded'[k]
  <2>1. k - 1 \in OutBlocks /\ k - 1 # b
    BY <1>1, RingAssumption DEF OutBlocks
  <2> QED BY <2>1 DEF DropsHanded
<1>2. \A k \in 1 .. n_block : DropsHanded[k] \in Nat /\ DropsHanded'[k] \in Nat
  <2>1. \A k \in 1 .. n_block : DropsHanded[k] \in Nat
    BY HeaderDrops
  <2>2. \A o \in OutBlocks : filled'[o] => hdr'[o].NDROP \in Nat
    BY DEF OuterInv, HeaderInv, FinalHeaders
  <2>3. ASSUME NEW k \in 1 .. n_block PROVE DropsHanded'[k] \in Nat
    <3>1. k - 1 \in OutBlocks
      BY RingAssumption DEF OutBlocks
    <3> QED BY <2>2, <3>1 DEF DropsHanded
  <2> QED BY <2>1, <2>3
<1>3. b + 1 \in 1 .. n_block /\ b + 1 \in Nat /\ n_block \in Nat
  BY HandedDrops, RingAssumption
<1>4. PICK f, g : f = DropsHanded /\ g = DropsHanded'
  OBVIOUS
<1>5. \A k \in 1 .. n_block : f[k] \in Nat /\ g[k] \in Nat /\ (k # b + 1 => f[k] = g[k])
  BY <1>1, <1>2, <1>4
<1>6. /\ SumTo(f, n_block) \in Nat /\ SumTo(g, n_block) \in Nat
      /\ SumTo(g, n_block) + f[b + 1] = SumTo(f, n_block) + g[b + 1]
  BY <1>3, <1>5, SumChanges
<1> QED BY <1>4, <1>6

LEMMA ConsumeDrops ==
    ASSUME OuterInv, OuterInv', DropsAccounted, Consume
    PROVE  DropsAccounted'
<1> DEFINE n == Len(taken)
           d == hdr[consumer].NDROP
<1>1. /\ filled[consumer] /\ filled' = [filled EXCEPT ![consumer] = FALSE]
      /\ taken' = Append(taken, hdr[consumer]) /\ consumer \in OutBlocks
      /\ filled \in [OutBlocks -> BOOLEAN]
      /\ UNCHANGED <<hdr, status, ndrop_total>>
  BY DEF Consume, OuterInv, TypeOK, OutBlocks, counts
<1>2. hdr[consumer] \in FinalHeaders /\ d \in Nat /\ n \in Nat /\ taken \in Seq(FinalHeaders)
  BY <1>1, HeaderDrops DEF OuterInv, HeaderInv
<1>3. SumTo(DropsTaken', Len(taken')) = SumTo(DropsTaken, n) + d /\ SumTo(DropsTaken, n) \in Nat
  <2>1. /\ Len(taken') = n + 1 /\ taken'[n + 1] = hdr[consumer]
        /\ \A k \in 1 .. n : taken'[k] = taken[k]
    BY <1>1, <1>2
  <2>2. /\ DropsTaken'[n + 1] = d
        /\ \A k \in 1 .. n : DropsTaken'[k] = DropsTaken[k]
    BY <1>2, <2>1 DEF DropsTaken
  <2>3. PICK f, g : f = DropsTaken /\ g = DropsTaken'
    OBVIOUS
  <2>4. \A k \in 1 .. n : f[k] \in Nat /\ g[k] \in Nat /\ f[k] = g[k]
    BY <2>2, <2>3, HeaderDrops
  <2>5. SumTo(g, n) = SumTo(f, n) /\ SumTo(f, n) \in Nat
    BY <1>2, <2>4, SumSame
  <2>6. SumTo(g, n + 1) = SumTo(g, n) + g[n + 1]
    BY <1>2, SumSteps
  <2> QED BY <2>1, <2>2, <2>3, <2>5, <2>6
<1>4. /\ SumTo(DropsHanded', n_block) + d = SumTo(DropsHanded, n_block) + 0
      /\ SumTo(DropsHanded', n_block) \in Nat /\ SumTo(DropsHanded, n_block) \in Nat
  <2>1. DropsHanded[consumer + 1] = d /\ DropsHanded'[consumer + 1] = 0
    BY <1>1, HandedDrops
  <2>2. \A o \in OutBlocks : o # consumer => filled'[o] = filled[o] /\ hdr'[o] = hdr[o]
    BY <1>1
  <2>3. PICK b \in OutBlocks, before \in Nat, after \in Nat :
          b = consumer /\ before = d /\ after = 0
    BY <1>1, <1>2
  <2>4. before = DropsHanded[b + 1] /\ after = DropsHanded'[b + 1]
    BY <2>1, <2>3
  <2>5. \A o \in OutBlocks : o # b => filled'[o] = filled[o] /\ hdr'[o] = hdr[o]
    BY <2>2, <2>3
  <2>6. /\ SumTo(DropsHanded, n_block) \in Nat /\ SumTo(DropsHanded', n_block) \in Nat
        /\ SumTo(DropsHanded', n_block) + before = SumTo(DropsHanded, n_block) + after
    BY <2>4, <2>5, OneBlockDrops
  <2> QED BY <2>3, <2>6
<1>5. status.NDROP \in Nat /\ ndrop_total \in Nat
  BY HeaderDrops DEF Statuses
<1> HIDE DEF n, d
<1>6. status.NDROP + ndrop_total = SumTo(DropsTaken, n) + SumTo(DropsHanded, n_block)
  BY DEF DropsAccounted, n
<1>7. status'.NDROP + ndrop_total' = SumTo(DropsTaken', Len(taken')) + SumTo(DropsHanded', n_block)
  BY <1>1, <1>2, <1>3, <1>4, <1>5, <1>6
<1> QED BY <1>7 DEF DropsAccounted

LEMMA AdvanceDrops ==
    ASSUME OuterInv, OuterInv', DropsAccounted, AdvanceBlocks
    PROVE  DropsAccounted'
<1>1. PICK w \in OutBlocks : w = wblk[0].idx /\ ~filled[w]
  BY WorkingBlocks
<1>2. PICK d \in Nat : d = Dropped(wblk[0])
  <2>1. wblk[0] \in BlockInfos
    BY DEF OuterInv, TypeOK, BlockInfos, OutBlocks
  <2> QED BY <2>1 DEF Dropped, BlockInfos
<1>3. /\ filled' = [filled EXCEPT ![w] = TRUE] /\ filled \in [OutBlocks -> BOOLEAN]
      /\ hdr' = [hdr EXCEPT ![w] = Finalized(wblk[0])] /\ hdr \in [OutBlocks -> Headers]
      /\ ndrop_total' = ndrop_total + d /\ taken' = taken
      /\ status' = check_start_stop(wblk[1].num * pktidx_per_block)
  BY <1>1, <1>2 DEF AdvanceBlocks, OuterInv, TypeOK, MoreTypes, OutBlocks
<1>4. status'.NDROP = status.NDROP /\ status.NDROP \in Nat /\ ndrop_total \in Nat
  BY <1>3, HeaderDrops DEF check_start_stop, Statuses
<1>5. /\ SumTo(DropsHanded', n_block) + 0 = SumTo(DropsHanded, n_block) + d
      /\ SumTo(DropsHanded', n_block) \in Nat /\ SumTo(DropsHanded, n_block) \in Nat
  <2>1. DropsHanded[w + 1] = 0 /\ DropsHanded'[w + 1] = d
    BY <1>1, <1>2, <1>3, HandedDrops DEF Finalized
  <2>2. \A o \in OutBlocks : o # w => filled'[o] = filled[o] /\ hdr'[o] = hdr[o]
    BY <1>3
  <2> QED BY <1>2, <2>1, <2>2, OneBlockDrops
<1>6. DropsTaken' = DropsTaken /\ Len(taken') = Len(taken) /\ ndrop_total' = ndrop_total + d
  BY <1>3 DEF DropsTaken
<1>7. SumTo(DropsTaken, Len(taken)) \in Nat
  <2>1. Len(taken) \in Nat /\ \A k \in 1 .. Len(taken) : DropsTaken[k] \in Nat
    BY HeaderDrops
  <2> QED BY <2>1, SumSame
<1>8. status.NDROP + ndrop_total = SumTo(DropsTaken, Len(taken)) + SumTo(DropsHanded, n_block)
  BY DEF DropsAccounted
<1>9. status'.NDROP + ndrop_total' = SumTo(DropsTaken', Len(taken')) + SumTo(DropsHanded', n_block)
  <2>1. SumTo(DropsTaken', Len(taken')) = SumTo(DropsTaken, Len(taken))
    BY <1>6
  <2>2. SumTo(DropsHanded', n_block) = SumTo(DropsHanded, n_block) + d
    BY <1>2, <1>5
  <2>3. status'.NDROP + ndrop_total' = (status.NDROP + ndrop_total) + d
    BY <1>2, <1>4, <1>6
  <2>4. PICK t \in Nat, h \in Nat : t = SumTo(DropsTaken, Len(taken))
                                  /\ h = SumTo(DropsHanded, n_block)
    BY <1>5, <1>7
  <2>5. status.NDROP + ndrop_total = t + h
    BY <1>8, <2>4
  <2>6. status'.NDROP + ndrop_total' = t + (h + d)
    BY <1>2, <2>3, <2>5
  <2> QED BY <2>1, <2>2, <2>4, <2>6
<1> QED BY <1>9 DEF DropsAccounted

LEMMA InitDrops == Init => DropsAccounted
<1> SUFFICES ASSUME Init PROVE DropsAccounted
  OBVIOUS
<1>1. status.NDROP = 0 /\ ndrop_total = 0 /\ Len(taken) = 0
  BY DEF Init
<1>2. SumTo(DropsTaken, 0) = 0
  BY SumSteps
<1> DEFINE G == {m \in Nat : m <= n_block => SumTo(DropsHanded, m) = 0}
<1>3. 0 \in G
  BY SumSteps
<1>4. ASSUME NEW m \in G PROVE m + 1 \in G
  <2> SUFFICES ASSUME m + 1 <= n_block PROVE SumTo(DropsHanded, m + 1) = 0
    OBVIOUS
  <2>1. m \in OutBlocks /\ m \in Nat /\ SumTo(DropsHanded, m) = 0
    BY RingAssumption DEF OutBlocks
  <2>2. DropsHanded[m + 1] = 0
    BY <2>1, HandedDrops DEF Init, OutBlocks
  <2> QED BY <2>1, <2>2, SumSteps
<1>5. G = Nat
  <2> HIDE DEF G
  <2>1. G \in SUBSET Nat
    BY DEF G
  <2> QED BY <1>3, <1>4, <2>1, NatSetInduction
<1>6. SumTo(DropsHanded, n_block) = 0
  BY <1>5, RingAssumption
<1> QED BY <1>1, <1>2, <1>6 DEF DropsAccounted

LEMMA NextDrops == OuterInv /\ OuterInv' /\ DropsAccounted /\ [Next]_vars => DropsAccounted'
<1> SUFFICES ASSUME OuterInv, OuterInv', DropsAccounted, [Next]_vars PROVE DropsAccounted'
  OBVIOUS
<1> USE DEF inRing, outRing, counts
<1>1. CASE \/ NextSecond \/ Leave \/ DropInput \/ TakeInput \/ EndInput \/ IgnorePacket
           \/ LatePacket \/ StorePacket \/ Fill \/ StopThreads \/ UNCHANGED vars
  <2>1. UNCHANGED <<filled, hdr, taken, status, ndrop_total>>
    BY <1>1 DEF NextSecond, Leave, DropInput, TakeInput, EndInput, IgnorePacket, LatePacket,
                StorePacket, Fill, StopThreads, vars
  <2> QED BY <2>1, DropsFrame
<1>2. CASE UpdateStatus
  <2>1. UNCHANGED <<filled, hdr, taken>>
    BY <1>2 DEF UpdateStatus
  <2>2. status \in Statuses /\ status.NDROP \in Nat /\ ndrop_total \in Nat
    BY HeaderDrops DEF Statuses
  <2>3. status'.NDROP + ndrop_total' = status.NDROP + ndrop_total
    <3>1. CASE StartsBlock(p_u8pkt)
      <4>1. status'.NDROP = status.NDROP + ndrop_total
        BY <1>2, <2>2, <3>1 DEF UpdateStatus, Statuses
      <4>2. ndrop_total' = 0
        BY <1>2, <3>1 DEF UpdateStatus, PendingDrops
      <4> QED BY <2>2, <4>1, <4>2
    <3>2. CASE ~StartsBlock(p_u8pkt)
      BY <1>2, <3>2 DEF UpdateStatus
    <3> QED BY <3>1, <3>2
  <2> QED BY <2>1, <2>3, DropsFrame
<1>3. CASE WaitForBlockFree
  <2>1. /\ UNCHANGED <<filled, taken, status, ndrop_total>> /\ ~filled[wblk[1].idx]
        /\ hdr' = [hdr EXCEPT ![wblk[1].idx] = status]
    BY <1>3 DEF WaitForBlockFree, BlockFree
  <2>2. \A b \in OutBlocks : filled[b] => hdr'[b] = hdr[b]
    BY <2>1 DEF OuterInv, MoreTypes
  <2> QED BY <2>1, <2>2, DropsFrame
<1>4. CASE ResetBlocks
  <2>1. UNCHANGED <<filled, hdr, taken, ndrop_total>>
    BY <1>4 DEF ResetBlocks
  <2>2. status'.NDROP = status.NDROP
    BY <1>4, HeaderDrops DEF ResetBlocks, ResetStatus, check_start_stop, Statuses
  <2> QED BY <2>1, <2>2, DropsFrame
<1> QED BY <1>1, <1>2, <1>3, <1>4, ConsumeDrops, AdvanceDrops DEF Next, Outer

\* No drop is lost between the headers and the status buffer, for any rings,
\* stream and uninitialised sizes: finalize_block counts each handed block's
\* drops once, and the status update moves them without losing any.
THEOREM DropsReported == Spec => []DropsAccounted
<1>1. Init => OuterInv /\ DropsAccounted
  BY InitOuterInv, InitDrops
<1>2. OuterInv /\ DropsAccounted /\ [Next]_vars => (OuterInv /\ DropsAccounted)'
  BY NextOuterInv, NextDrops
<1> QED BY <1>1, <1>2, PTL DEF Spec
==============================================================================

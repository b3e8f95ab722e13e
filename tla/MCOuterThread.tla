--------------------------- MODULE MCOuterThread ---------------------------
\* OuterThread for TLC.
EXTENDS OuterThread

P(pktidx, slot) == [pktidx |-> pktidx, slot |-> slot]

\* Blocks 1, then 0 and 2, 2 and 3, then a jump to block 8 and on from block 9:
\* packets of block 0 may come late, and a lost batch makes further jumps.
JumpStream ==
    <<{P(2, 0), P(2, 1)}, {P(1, 0), P(4, 0), P(4, 1)}, {P(5, 0), P(6, 0)}, {P(16, 0)},
      {P(18, 0), P(22, 0)}>>

\* Sizes smaller than a block and none; an index that arrives and one that does not.
Garbage == {[pktidxs |-> 7, pkts |-> 0, status_seq_num |-> 2],
            [pktidxs |-> 0, pkts |-> 3, status_seq_num |-> 9]}
=============================================================================

---------------------------- MODULE MCOuterWorkers ----------------------------
\* OuterWorkers for TLC.
EXTENDS OuterWorkers

P(pktidx, slot) == [pktidx |-> pktidx, slot |-> slot]

\* Two packets of block 0, one of block 2, one of block 9, two to an input block:
\* the first working block is handed over, and both are reset, with a job in
\* the queue, and a packet comes late.
ShortStream == <<{P(0, 0), P(1, 0), P(4, 0), P(18, 0)}>>

Garbage == {[pktidxs |-> 0, pkts |-> 0, status_seq_num |-> 9]}

\* Two addresses, one of them with more than MAXFLOWS allows, no address at
\* all, and INADDR_ANY.
Strings == {Zeros, EmptyString, [addr |-> 10, plus |-> -1], [addr |-> 20, plus |-> 2]}
==============================================================================

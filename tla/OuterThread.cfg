SPECIFICATION FairSpec
CONSTANTS
    n_block_in = 2
    n_block = 2
    npkts_per_block_in = 2
    pktidx_per_block = 2
    nslots = 2
    pkts_per_block = 3
    Starts = {3}
    dwell_blocks = 2
    StackGarbage <- Garbage
    Stream <- JumpStream
    MaxSeconds = 1
INVARIANTS NextBlockComes HandedInSequence HeaderCountsPackets DropsAccounted ValidOnlyInside
PROPERTIES HandedUntouched ThreadEnds
CHECK_DEADLOCK FALSE

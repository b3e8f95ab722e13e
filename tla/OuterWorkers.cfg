SPECIFICATION AllSpec
CONSTANTS
    n_block_in = 1
    n_block = 2
    npkts_per_block_in = 2
    pktidx_per_block = 2
    nslots = 1
    pkts_per_block = 3
    Starts = {3}
    dwell_blocks = 2
    StackGarbage <- Garbage
    Stream <- ShortStream
    MaxSeconds = 2
    Workers = {w1, w2}
    PJQ_NUM_ENTRIES = 2
    NoJob = NoJob
    Dests <- Strings
    MaxFlowsValues = {0, 2}
    MaxWrites = 2
    FlowsMayFail = TRUE
    Alignments = {TRUE, FALSE}
INVARIANTS JobsCounted JobsWithinBlocks FlowsInForce
CHECK_DEADLOCK FALSE
PROPERTY WaitEnds

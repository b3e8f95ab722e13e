SPECIFICATION MCSpec
CONSTANTS
    N_UDP_BUFFERS = 1
    N_FILE_BUFFERS = 5
    N_FILE_BUFFERS_AT_A_TIME = 4
    TIME_INT_PER_BUFFER = 3
    PCKT_NO_RANGE = 60
    nAnts = 2
    nchans = 1
    INT_MAX = 1000
    StackGarbage <- MCGarbage
    Batches <- AllBatches
    MaxBatches = 4
    FirstBlock = 0
    MAX_ORDER_MISSES = 2
    MaxBlocks = 5
    start = 9
INVARIANTS
    BlockContents OrdersOnce FlushHasReason WindowIsFound FullIsComplete
     BlocksIntact NothingLaterLost
CHECK_DEADLOCK FALSE

SPECIFICATION SortingSpec
CONSTANTS
    N_UDP_BUFFERS = 1
    N_FILE_BUFFERS = 5
    N_FILE_BUFFERS_AT_A_TIME = 4
    TIME_INT_PER_BUFFER = 3
    PCKT_NO_RANGE = 60
    nAnts = 2
    nchans = 1
    INT_MAX = 1000
    StackGarbage = {0}
    Batches <- AllBatches
    MaxBatches = 4
    FirstBlock = 16
INVARIANT FlushIsDownward
CHECK_DEADLOCK FALSE

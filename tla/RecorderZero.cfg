SPECIFICATION Spec
CONSTANTS
    N_UDP_BUFFERS = 2
    N_FILE_BUFFERS = 4
    N_FILE_BUFFERS_AT_A_TIME = 2
    TIME_INT_PER_BUFFER = 2
    PCKT_NO_RANGE = 60
    nAnts = 1
    nchans = 1
    INT_MAX = 1000
    StackGarbage = {0}
    MAX_ORDER_MISSES = 1
    N_READS_DEFAULT = 2
    Traffic <- Stream
    OddDatagrams = {"zero"}
    MaxInterrupts = 0
INVARIANT IntegrityHolds
CHECK_DEADLOCK FALSE

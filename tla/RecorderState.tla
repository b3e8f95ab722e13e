---------------------------- MODULE RecorderState ----------------------------
(***************************************************************************)
(* What the threads of the full_custom recorder share: the pool of         *)
(* datagram buffers (udp thread -> worker), the pool of block buffers      *)
(* (worker -> file thread) with the header fields kept beside it, the run  *)
(* flag, and the packet geometry of data_formats.h.                        *)
(*                                                                         *)
(* A pool call is one step here: UdpBuff, which has the mutexes, is proved *)
(* to implement OrderedPool, in which it is.  At this grain NReady is the  *)
(* number of ready buffers.                                                *)
(***************************************************************************)
EXTENDS PoolOps, Naturals, Sequences, FiniteSets

CONSTANTS
    N_UDP_BUFFERS,              \* datagram buffers
    N_FILE_BUFFERS,             \* block buffers
    N_FILE_BUFFERS_AT_A_TIME,   \* blocks the worker fills at a time
    TIME_INT_PER_BUFFER,        \* packet numbers per block
    PCKT_NO_RANGE,              \* PCKT_NO_MASK + 1: packet numbers wrap here
    nAnts, nchans,              \* antennas and channel groups of a recording
    INT_MAX

ASSUME PoolSizes ==
    /\ N_UDP_BUFFERS \in Nat \ {0}
    /\ N_FILE_BUFFERS_AT_A_TIME \in Nat \ {0}
    /\ N_FILE_BUFFERS \in Nat
    /\ N_FILE_BUFFERS > N_FILE_BUFFERS_AT_A_TIME
    /\ INT_MAX \in Nat
\* As in data_formats.h: an even window, the packet number range a whole
\* number of windows' halves, and a block longer than half a window's count.
ASSUME Geometry ==
    /\ nAnts \in Nat \ {0} /\ nchans \in Nat \ {0}
    /\ TIME_INT_PER_BUFFER \in Nat
    /\ TIME_INT_PER_BUFFER > N_FILE_BUFFERS_AT_A_TIME \div 2
    /\ N_FILE_BUFFERS_AT_A_TIME % 2 = 0
    /\ PCKT_NO_RANGE \in Nat
    /\ PCKT_NO_RANGE % TIME_INT_PER_BUFFER = 0
    /\ PCKT_NO_RANGE >= TIME_INT_PER_BUFFER * N_FILE_BUFFERS_AT_A_TIME

UdpBuffers  == 0 .. N_UDP_BUFFERS - 1
FileBuffers == 0 .. N_FILE_BUFFERS - 1

packetsPerBlock == nAnts * nchans * TIME_INT_PER_BUFFER
Cells == 0 .. packetsPerBlock - 1

\* A packet is its header: its number in time, the antenna, the channel group
\* relative to firstChan, and whether the version has the voltage bit.
\* A cell of a block holds the packet copied into it, or zeros.
Packets == [pckt : 0 .. PCKT_NO_RANGE - 1, ant : Int, chan : Int, volt : BOOLEAN]
NoData == [pckt |-> -1, ant |-> -1, chan |-> -1, volt |-> FALSE]
NoAnt == -1

GET_PACKET_FILTER(x) == x - (x % TIME_INT_PER_BUFFER)
GET_PACKET_REST(x)   == x % TIME_INT_PER_BUFFER
Masked(x)            == x % PCKT_NO_RANGE

\* The packet number the block of a given order number begins with, when the
\* recording begins with packet number start.
BlockStart(start, order) == Masked(start + (order - 1) * TIME_INT_PER_BUFFER)

VARIABLES
    udpOrder,       \* udpBuff.orderNo
    udpData,        \* the packets in each datagram buffer
    fileOrder,      \* fileBuff.udpBuff.orderNo
    fileData,       \* the cells of each block buffer
    packetStart,    \* fileBuff.packetStart
    antNumbers,     \* fileBuff.antNumbers
    keep_going,     \* the run flag
    died            \* "no", or why error() ended the process

pools == <<udpOrder, udpData, fileOrder, fileData>>
header == <<packetStart, antNumbers>>
sharedVars == <<udpOrder, udpData, fileOrder, fileData, packetStart, antNumbers,
                keep_going, died>>

Ready(no) == {b \in DOMAIN no : no[b] > 0}

\* init_udpBuff for both pools; the header fields are not initialised and not
\* read before the worker sets them.
SharedInit ==
    /\ udpOrder = [b \in UdpBuffers |-> Empty]
    /\ udpData = [b \in UdpBuffers |-> <<>>]
    /\ fileOrder = [b \in FileBuffers |-> Empty]
    /\ fileData = [b \in FileBuffers |-> [c \in Cells |-> NoData]]
    /\ packetStart = 0
    /\ antNumbers = [i \in 0 .. nAnts - 1 |-> NoAnt]
    /\ keep_going = TRUE
    /\ died = "no"

\* returnBuffer and returnEmptyBuffer, with the assertion that ends the
\* process when the buffer is not in use.
ReturnUdp(b, v) ==
    IF udpOrder[b] # InUse
    THEN died' = "integrity" /\ UNCHANGED udpOrder
    ELSE udpOrder' = [udpOrder EXCEPT ![b] = v] /\ UNCHANGED died

ReturnFile(b, v) ==
    IF fileOrder[b] # InUse
    THEN died' = "integrity" /\ UNCHANGED fileOrder
    ELSE fileOrder' = [fileOrder EXCEPT ![b] = v] /\ UNCHANGED died
==============================================================================

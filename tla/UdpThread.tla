------------------------------ MODULE UdpThread ------------------------------
(***************************************************************************)
(* udp_recv_work of full_custom/udp_thread.c: fills datagram buffers from  *)
(* the socket and publishes them in order.  The socket is external: each   *)
(* recvfrom gives a packet, a datagram of another size, an empty datagram, *)
(* or -1 (an error, or the half second of SO_RCVTIMEO without traffic).    *)
(***************************************************************************)
EXTENDS RecorderState

CONSTANTS
    N_READS_DEFAULT,    \* datagrams per buffer
    Traffic,            \* what arrives before silence: a sequence of sets of
                        \* packets, one of each set arriving (its length is a bound)
    OddDatagrams        \* which of "short" and "zero" may arrive instead

ASSUME ReceiverAssumption ==
    /\ N_READS_DEFAULT \in Nat \ {0}
    /\ Len(Traffic) \in Nat
    /\ \A n \in 1 .. Len(Traffic) : Traffic[n] \subseteq Packets
    /\ OddDatagrams \subseteq {"short", "zero"}

VARIABLES
    uPc,                \* where the udp thread is
    currentBuffNo,      \* the buffer it is filling
    uOrder,             \* its next order number
    uReads,             \* iK: datagrams read into the buffer
    received,           \* how many datagrams have arrived
    sigint              \* SIGINT is pending for the main thread

udpThreadVars == <<uPc, currentBuffNo, uOrder, uReads, received, sigint>>

UdpInit ==
    /\ uPc = "loop"
    /\ currentBuffNo = 0
    /\ uOrder = 1
    /\ uReads = 0
    /\ received = 0
    /\ sigint = FALSE

UdpGoto(from, to) == died = "no" /\ uPc = from /\ uPc' = to

UdpLoop ==
    /\ UdpGoto("loop", IF keep_going THEN "fetch" ELSE "done")
    /\ UNCHANGED <<sharedVars, currentBuffNo, uOrder, uReads, received, sigint>>

UdpFetch ==
    /\ UdpGoto("fetch", "recv")
    /\ findEmpty(udpOrder) # NotFound
    /\ currentBuffNo' = findEmpty(udpOrder)
    /\ udpOrder' = [udpOrder EXCEPT ![currentBuffNo'] = InUse]
    /\ udpData' = [udpData EXCEPT ![currentBuffNo'] = <<>>]
    /\ uReads' = 0
    /\ UNCHANGED <<fileOrder, fileData, header, keep_going, died, uOrder, received, sigint>>

\* No empty buffer: sleep and look at keep_going again.
UdpFetchFails ==
    /\ UdpGoto("fetch", "loop")
    /\ findEmpty(udpOrder) = NotFound
    /\ UNCHANGED <<sharedVars, currentBuffNo, uOrder, uReads, received, sigint>>

Arrives == /\ received < Len(Traffic)
           /\ received' = received + 1

\* A datagram of the right size; the buffer is full after N_READS_DEFAULT.
RecvPacket ==
    /\ UdpGoto("recv", IF uReads + 1 = N_READS_DEFAULT THEN "return" ELSE "recv")
    /\ Arrives
    /\ \E p \in Traffic[received'] :
         udpData' = [udpData EXCEPT ![currentBuffNo] = Append(@, p)]
    /\ uReads' = uReads + 1
    /\ UNCHANGED <<udpOrder, fileOrder, fileData, header, keep_going, died,
                   currentBuffNo, uOrder, sigint>>

\* A datagram of another size ends the run, and what the buffer holds is
\* published.
FirstDatagram == uOrder = 1 /\ uReads = 0

RecvShort ==
    /\ "short" \in OddDatagrams
    /\ ~FirstDatagram
    /\ UdpGoto("recv", "return")
    /\ Arrives
    /\ keep_going' = FALSE
    /\ UNCHANGED <<pools, header, died, currentBuffNo, uOrder, uReads, sigint>>

\* The size of the very first one is not checked: it is copied, and from then
\* on the RX_MSG_LEN bytes of each packet of that buffer straddle two
\* datagrams.  The buffer has one packet less than datagrams, and the headers
\* read from it are whatever bytes are there: any that Traffic has.
RecvShortFirst ==
    /\ "short" \in OddDatagrams
    /\ FirstDatagram
    /\ UdpGoto("recv", IF N_READS_DEFAULT = 1 THEN "return" ELSE "recv")
    /\ Arrives
    /\ uReads' = 1
    /\ UNCHANGED <<sharedVars, currentBuffNo, uOrder, sigint>>

\* An empty datagram: the buffer is published here, the run ended, and the
\* same buffer published once more after the loop.
RecvZero ==
    /\ "zero" \in OddDatagrams
    /\ UdpGoto("recv", "zero")
    /\ Arrives
    /\ ReturnUdp(currentBuffNo, uOrder)
    /\ UNCHANGED <<udpData, fileOrder, fileData, header, keep_going,
                   currentBuffNo, uOrder, uReads, sigint>>

RecvZeroStops ==
    /\ UdpGoto("zero", "return")
    /\ keep_going' = FALSE
    /\ UNCHANGED <<pools, header, died, currentBuffNo, uOrder, uReads, received, sigint>>

RecvError_Never == FALSE

\* recvfrom fails or times out: SIGINT for the whole process, which only the
\* main thread accepts, and what the buffer holds is published.  Bound: the
\* next one comes (half a second of silence later) after the pending SIGINT
\* has been delivered.
RecvError ==
    /\ UdpGoto("recv", "return")
    /\ ~sigint
    /\ sigint' = TRUE
    /\ UNCHANGED <<sharedVars, currentBuffNo, uOrder, uReads, received>>

UdpReturn ==
    /\ UdpGoto("return", "loop")
    /\ ReturnUdp(currentBuffNo, uOrder)
    /\ uOrder' = uOrder + 1
    /\ UNCHANGED <<udpData, fileOrder, fileData, header, keep_going,
                   currentBuffNo, uReads, received, sigint>>

Recv == RecvPacket \/ RecvShort \/ RecvShortFirst \/ RecvZero \/ RecvError

UdpNext == \/ UdpLoop \/ UdpFetch \/ UdpFetchFails
           \/ Recv \/ RecvZeroStops \/ UdpReturn
==============================================================================

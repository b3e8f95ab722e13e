-------------------------------- MODULE Worker --------------------------------
(***************************************************************************)
(* worker_work between two neighbours reduced to what they do to the       *)
(* pools: a receiver that publishes batches of packets, each packet at     *)
(* most once (the assumption stated at processing_thread.c:134), and a     *)
(* file thread that takes published blocks, lowest order first, and        *)
(* empties them.                                                           *)
(***************************************************************************)
EXTENDS ProcessingThread

CONSTANTS Batches,      \* the sequences of packets a datagram buffer may hold
          MaxBatches    \* bound: how many batches are received

VARIABLES nFed,         \* batches received so far
          fed           \* the packets they held

workerSysVars == <<sharedVars, workerVars, nFed, fed>>

PacketsOf(batch) == {batch[k] : k \in DOMAIN batch}

Feed == \E batch \in Batches :
    LET b == findEmpty(udpOrder) IN
    /\ died = "no"
    /\ keep_going
    /\ nFed < MaxBatches
    /\ PacketsOf(batch) \cap fed = {}
    /\ b # NotFound
    /\ udpOrder' = [udpOrder EXCEPT ![b] = nFed + 1]
    /\ udpData' = [udpData EXCEPT ![b] = batch]
    /\ nFed' = nFed + 1
    /\ fed' = fed \cup PacketsOf(batch)
    /\ UNCHANGED <<fileOrder, fileData, header, keep_going, died, workerVars>>

Drain ==
    /\ died = "no"
    /\ Ready(fileOrder) # {}
    /\ fileOrder' = [fileOrder EXCEPT ![findLowest(fileOrder, INT_MAX)] = Empty]
    /\ UNCHANGED <<udpOrder, udpData, fileData, header, keep_going, died, workerVars,
                   nFed, fed>>

SortingStop ==
    /\ keep_going
    /\ keep_going' = FALSE
    /\ UNCHANGED <<pools, header, died, workerVars, nFed, fed>>

SortingInit == SharedInit /\ WorkerInit /\ nFed = 0 /\ fed = {}

SortingNext == \/ WorkerNext /\ UNCHANGED <<nFed, fed>>
               \/ Feed \/ Drain \/ SortingStop

SortingSpec == SortingInit /\ [][SortingNext]_workerSysVars

------------------------------------------------------------------------------
\* Properties

\* "now we are sending all earlier data" (processing_thread.c:176): a block
\* is given up as incomplete only if a later one was sent, or most of the
\* window is started, or nothing was sent yet and what was on the stack
\* (lastSentPacketNo is not initialised) says so.  False at the wrap of packet
\* numbers, as FlushIsDownward is.
FlushHasReason ==
    wPc = "pass2" /\ iK = 0 => \A i \in Window : Earlier(i) =>
        \/ MostStarted
        \/ \E o \in wSent : o > localStruct[i].order
        \/ wSent = {} /\ lastSentPacketNo \in StackGarbage

\* "sending all that are full, and all earlier" (processing_thread.c:149): no
\* block is given up as earlier while one before it is kept.
FlushIsDownward ==
    wPc = "pass2" /\ iK = 0 => \A i, j \in Window :
        Earlier(i) /\ localStruct[j].order < localStruct[i].order => Earlier(j)

\* "packet does not exist in local Struct, either too old or too new"
\* (processing_thread.c:137): the packet numbers of every block of the window
\* are found in it.
WindowIsFound ==
    first_loop_done /\ wPc \notin {"refill1", "refill2"} => \A i \in Window :
        findStructIndex(localStruct, BlockStart(packetStart, localStruct[i].order)) = i
==============================================================================

--------------------------- MODULE ProcessingThread ---------------------------
(***************************************************************************)
(* worker_work of full_custom/processing_thread.c: the thread that sorts   *)
(* packets by time into a window of blocks, publishes a block when it is   *)
(* full, and gives up earlier ones.  What the thread does between two pool *)
(* calls touches only buffers it has, so it is one step.                   *)
(***************************************************************************)
EXTENDS RecorderState, SequencesExt

CONSTANTS StackGarbage    \* the values the uninitialised lastSentPacketNo may have

ASSUME GarbageAssumption == StackGarbage \subseteq Int /\ StackGarbage # {}

Window == 0 .. N_FILE_BUFFERS_AT_A_TIME - 1

VARIABLES
    wPc,                \* where the worker is
    localStruct,        \* Window -> [packetNo, index, order, nToFull]
    next_order,
    nextStructPacketNo,
    lastSentPacketNo,
    first_loop_done,
    wAnts,              \* the worker's own antNumbers
    indexIn,            \* the datagram buffer it is reading
    iK,                 \* the window position of the current pass
    wSent               \* history: the order numbers it has published

workerVars == <<wPc, localStruct, next_order, nextStructPacketNo, lastSentPacketNo,
                first_loop_done, wAnts, indexIn, iK, wSent>>
workerLocals == <<next_order, nextStructPacketNo, lastSentPacketNo, first_loop_done, wAnts>>

\* The buffers of the initial window are the first ones: the file pool has
\* more than the window needs and nobody else takes an empty buffer from it.
WorkerInit ==
    /\ wPc = "start"
    /\ localStruct = [i \in Window |-> [packetNo |-> -1, index |-> i, order |-> i + 1,
                                        nToFull |-> packetsPerBlock]]
    /\ next_order = N_FILE_BUFFERS_AT_A_TIME + 1
    /\ nextStructPacketNo = -1
    /\ lastSentPacketNo \in StackGarbage
    /\ first_loop_done = FALSE
    /\ wAnts = [i \in 0 .. nAnts - 1 |-> NoAnt]
    /\ indexIn = 0
    /\ iK = 0
    /\ wSent = {}

WorkerGoto(from, to) == died = "no" /\ wPc = from /\ wPc' = to

\* Taking the window's empty buffers, and clearing them.
WorkerStart ==
    /\ WorkerGoto("start", "loop")
    /\ fileOrder' = [b \in FileBuffers |-> IF b \in Window THEN InUse ELSE fileOrder[b]]
    /\ UNCHANGED <<udpOrder, udpData, fileData, header, keep_going, died,
                   workerLocals, localStruct, indexIn, iK, wSent>>

WorkerLoop ==
    /\ WorkerGoto("loop", IF keep_going THEN "fetch" ELSE "exit")
    /\ UNCHANGED <<sharedVars, workerLocals, localStruct, indexIn, iK, wSent>>

WorkerFetch ==
    /\ WorkerGoto("fetch", "sort")
    /\ Ready(udpOrder) # {}
    /\ indexIn' = findLowest(udpOrder, INT_MAX)
    /\ udpOrder' = [udpOrder EXCEPT ![indexIn'] = InUse]
    /\ UNCHANGED <<udpData, fileOrder, fileData, header, keep_going, died,
                   workerLocals, localStruct, iK, wSent>>

WorkerFetchFails_Never == FALSE

\* fetchBuffer gives up when there is nothing and the run is over.
WorkerFetchFails ==
    /\ WorkerGoto("fetch", "loop")
    /\ Ready(udpOrder) = {}
    /\ ~keep_going
    /\ UNCHANGED <<sharedVars, workerLocals, localStruct, indexIn, iK, wSent>>

------------------------------------------------------------------------------
\* Sorting a batch

\* updateAntenna: the first entry that is the antenna or free becomes it.
updateAntenna(ants, a) ==
    LET S == {i \in DOMAIN ants : ants[i] = a \/ ants[i] = NoAnt}
    IN  IF S = {} THEN ants
        ELSE [ants EXCEPT ![CHOOSE i \in S : \A j \in S : i <= j] = a]

getAntIndex(ants, a) ==
    LET S == {i \in DOMAIN ants : ants[i] = a}
    IN  IF S = {} THEN -1 ELSE CHOOSE i \in S : \A j \in S : i <= j

findStructIndex(slots, no) ==
    LET S == {i \in Window : slots[i].packetNo = no}
    IN  IF S = {} THEN -1 ELSE CHOOSE i \in S : \A j \in S : i <= j

Offset_NoAnt(rest, ant, chan) == rest * nAnts * nchans + chan

\* Where in its block a packet goes, in packets.
Offset(rest, ant, chan) == rest * nAnts * nchans + ant * nchans + chan

\* Where a packet of a batch goes: its window position, -1 if it is dropped,
\* and its cell.
Place(ants, slots, p) ==
    LET a == getAntIndex(ants, p.ant)
    IN  [slot |-> IF p.volt /\ a # -1 /\ p.chan \in 0 .. nchans - 1
                  THEN findStructIndex(slots, GET_PACKET_FILTER(p.pckt)) ELSE -1,
         cell |-> Offset(GET_PACKET_REST(p.pckt), a, p.chan)]

Places(ants, slots, batch) == [k \in DOMAIN batch |-> Place(ants, slots, batch[k])]

\* The loop over a batch.  What it tests does not change while it runs, so each
\* position counts down by the packets that go there, and a cell ends up with
\* the last packet copied to it.
SortedSlots(slots, place) ==
    [i \in Window |-> [slots[i] EXCEPT
        !.nToFull = @ - Cardinality({k \in DOMAIN place : place[k].slot = i})]]

SortedData(slots, place, batch) ==
    [b \in FileBuffers |-> [c \in Cells |->
        LET S == {k \in DOMAIN place : /\ place[k].slot # -1 /\ place[k].cell = c
                                       /\ slots[place[k].slot].index = b}
        IN  IF S = {} THEN fileData[b][c] ELSE batch[Max(S)]]]

\* The table after the first packets of a batch.
AntennasOf(batch) ==
    LET table[n \in 0 .. Len(batch)] ==
          IF n = 0 THEN wAnts ELSE updateAntenna(table[n - 1], batch[n].ant)
    IN  table[Len(batch)]

LowestPacket(batch) ==
    LET S == {batch[k].pckt : k \in DOMAIN batch}
    IN  GET_PACKET_FILTER(CHOOSE x \in S : \A y \in S : x <= y)

\* The packet numbers of the first window are not masked, unlike
\* nextStructPacketNo.
FirstWindow(lowest) ==
    [i \in Window |-> [localStruct[i] EXCEPT !.packetNo = lowest + i * TIME_INT_PER_BUFFER]]

\* The first batch sets the antenna table, the recording's first packet
\* number and the packet numbers of the window.  Every batch is then sorted into the window and its
\* buffer returned.
WorkerSort ==
    LET batch == udpData[indexIn]
        lowest == LowestPacket(batch)
        ants  == IF first_loop_done THEN wAnts ELSE AntennasOf(batch)
        slots == IF first_loop_done THEN localStruct ELSE FirstWindow(lowest)
        place == Places(ants, slots, batch)
    IN  /\ WorkerGoto("sort", "pass1")
        /\ batch # <<>>
        /\ wAnts' = ants
        /\ first_loop_done' = TRUE
        /\ IF first_loop_done
           THEN UNCHANGED <<packetStart, antNumbers, nextStructPacketNo>>
           ELSE /\ packetStart' = lowest
                /\ antNumbers' = ants
                /\ nextStructPacketNo' =
                     Masked(lowest + N_FILE_BUFFERS_AT_A_TIME * TIME_INT_PER_BUFFER)
        /\ localStruct' = SortedSlots(slots, place)
        /\ fileData' = SortedData(slots, place, batch)
        /\ ReturnUdp(indexIn, Empty)
        /\ iK' = 0
        /\ UNCHANGED <<udpData, fileOrder, keep_going, next_order, lastSentPacketNo,
                       indexIn, wSent>>

WorkerSortNothing ==
    /\ WorkerGoto("sort", "loop")
    /\ udpData[indexIn] = <<>>
    /\ ReturnUdp(indexIn, Empty)
    /\ UNCHANGED <<udpData, fileOrder, fileData, header, keep_going, workerLocals,
                   localStruct, indexIn, iK, wSent>>

------------------------------------------------------------------------------
\* Publishing.  Each pass walks the window; a published position is refilled
\* with an empty buffer, spinning until there is one.

Full(i) == localStruct[i].nToFull = 0

Earlier_Later(i) == localStruct[i].packetNo > lastSentPacketNo

\* The test of the second pass.  packetNo is unsigned: a negative right-hand
\* side is converted to a huge number.
Earlier(i) ==
    LET half == N_FILE_BUFFERS_AT_A_TIME \div 2
        no   == localStruct[i].packetNo
        top  == PCKT_NO_RANGE - 1 + lastSentPacketNo - half
    IN  \/ lastSentPacketNo > half /\ no < lastSentPacketNo
        \/ /\ lastSentPacketNo <= half
           /\ no > (PCKT_NO_RANGE - 1) \div 2
           /\ top < 0 \/ no < top

\* The next position of a pass that satisfies what the pass is looking for.
NextInPass(Test(_), i) == /\ i \in Window /\ i >= iK /\ Test(i)
                          /\ \A j \in Window : iK <= j /\ j < i => ~Test(j)
NoneInPass(Test(_)) == \A i \in Window : i >= iK => ~Test(i)

Publish(i, from, to) ==
    /\ WorkerGoto(from, to)
    /\ ReturnFile(localStruct[i].index, localStruct[i].order)
    /\ wSent' = wSent \cup {localStruct[i].order}
    /\ iK' = i
    /\ UNCHANGED <<udpOrder, udpData, fileData, header, keep_going, next_order,
                   nextStructPacketNo, first_loop_done, wAnts, localStruct, indexIn>>

\* What a refilled position is given: a zeroed buffer, the next order number
\* and the next packet number.
Cleared_Not(b) == fileData
Cleared(b) == [fileData EXCEPT ![b] = [c \in Cells |-> NoData]]

NewSlot_SameOrder(b) == [packetNo |-> nextStructPacketNo, index |-> b,
                         order |-> next_order - 1, nToFull |-> packetsPerBlock]
NewSlot(b) == [packetNo |-> nextStructPacketNo, index |-> b,
               order |-> next_order, nToFull |-> packetsPerBlock]

NextPacketNo_Kept == nextStructPacketNo
NextPacketNo == Masked(nextStructPacketNo + TIME_INT_PER_BUFFER)

Refill(from, to) ==
    LET b == findEmpty(fileOrder) IN
    /\ WorkerGoto(from, to)
    /\ b # NotFound
    /\ fileOrder' = [fileOrder EXCEPT ![b] = InUse]
    /\ fileData' = Cleared(b)
    /\ localStruct' = [localStruct EXCEPT ![iK] = NewSlot(b)]
    /\ next_order' = next_order + 1
    /\ nextStructPacketNo' = NextPacketNo
    /\ iK' = iK + 1
    /\ UNCHANGED <<udpOrder, udpData, header, keep_going, died, lastSentPacketNo,
                   first_loop_done, wAnts, indexIn, wSent>>

\* First pass: the full blocks.
Pass1Publish == \E i \in Window :
    /\ NextInPass(Full, i)
    /\ Publish(i, "pass1", "refill1")
    /\ lastSentPacketNo' = localStruct[i].packetNo

Pass1Refill == Refill("refill1", "pass1")

\* With all but one of the window started, the first half counts as sent.
nStarted == Cardinality({i \in Window : localStruct[i].nToFull < packetsPerBlock})
MostStarted == nStarted > N_FILE_BUFFERS_AT_A_TIME - 2

Pass1End ==
    /\ WorkerGoto("pass1", "pass2")
    /\ NoneInPass(Full)
    /\ lastSentPacketNo' =
         IF MostStarted
         THEN Masked(nextStructPacketNo
                       - (TIME_INT_PER_BUFFER * N_FILE_BUFFERS_AT_A_TIME) \div 2)
         ELSE lastSentPacketNo
    /\ iK' = 0
    /\ UNCHANGED <<sharedVars, next_order, nextStructPacketNo, first_loop_done, wAnts,
                   localStruct, indexIn, wSent>>

\* Second pass: what is earlier than the last block sent.
Pass2Publish == \E i \in Window :
    /\ NextInPass(Earlier, i)
    /\ Publish(i, "pass2", "refill2")
    /\ UNCHANGED lastSentPacketNo

Pass2Refill == Refill("refill2", "pass2")

Pass2End ==
    /\ WorkerGoto("pass2", "loop")
    /\ NoneInPass(Earlier)
    /\ iK' = 0
    /\ UNCHANGED <<sharedVars, workerLocals, localStruct, indexIn, wSent>>

\* The run is over: the window's blocks go back unpublished.
WorkerExit ==
    LET mine == {localStruct[i].index : i \in Window} IN
    /\ WorkerGoto("exit", "done")
    /\ IF \E b \in mine : fileOrder[b] # InUse
       THEN died' = "integrity" /\ UNCHANGED fileOrder
       ELSE /\ fileOrder' = [b \in FileBuffers |-> IF b \in mine THEN Empty ELSE fileOrder[b]]
            /\ UNCHANGED died
    /\ UNCHANGED <<udpOrder, udpData, fileData, header, keep_going, workerLocals,
                   localStruct, indexIn, iK, wSent>>

WorkerNext == \/ WorkerStart \/ WorkerLoop \/ WorkerFetch \/ WorkerFetchFails
              \/ WorkerSort \/ WorkerSortNothing
              \/ Pass1Publish \/ Pass1Refill \/ Pass1End
              \/ Pass2Publish \/ Pass2Refill \/ Pass2End
              \/ WorkerExit

------------------------------------------------------------------------------
\* Order numbers are handed out once and in full: those published and those
\* of the window are distinct and make up 1 .. next_order - 1, so a gap the
\* file thread sees is a block the worker still has.
Unsent == {i \in Window : ~(wPc \in {"refill1", "refill2"} /\ i = iK)}
OrdersOnce ==
    /\ \A i, j \in Unsent : i # j => localStruct[i].order # localStruct[j].order
    /\ wSent \cap {localStruct[i].order : i \in Unsent} = {}
    /\ wSent \cup {localStruct[i].order : i \in Unsent} = 1 .. next_order - 1

\* Every packet found in a block that the worker published is where its header
\* says: the block's order number gives its packet numbers, the cell gives the
\* packet, the antenna and the channel (processing_thread.c:141,
\* file_thread.c:55).  Nothing is left of what the buffer held before.
BlockContents ==
    \A b \in Ready(fileOrder), c \in Cells :
        LET p == fileData[b][c] IN
        fileOrder[b] \in wSent /\ p # NoData =>
            /\ GET_PACKET_FILTER(p.pckt) = BlockStart(packetStart, fileOrder[b])
            /\ c = (p.pckt % TIME_INT_PER_BUFFER) * nAnts * nchans
                     + getAntIndex(antNumbers, p.ant) * nchans + p.chan

\* A block sent as full has every packet: counting nToFull down is enough
\* as long as no header comes twice.
FullIsComplete ==
    wPc = "pass1" => \A i \in Window : Full(i) =>
        \A c \in Cells : fileData[localStruct[i].index][c] # NoData
==============================================================================

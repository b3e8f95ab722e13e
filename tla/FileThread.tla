------------------------------ MODULE FileThread ------------------------------
(***************************************************************************)
(* file_writer_work of full_custom/file_thread.c: takes blocks, lowest     *)
(* order number first, writes consecutive ones, puts back one that is too  *)
(* early and starts a new file when the gap does not close.                *)
(***************************************************************************)
EXTENDS RecorderState

CONSTANTS MAX_ORDER_MISSES

ASSUME MissesAssumption == MAX_ORDER_MISSES \in Nat

VARIABLES
    fPc,            \* where the file thread is
    fIn, fOrd,      \* the block it has: its buffer and order number
    lastOrd,        \* order number of the last block written, 0 at first
    nMisses,        \* puts back since the last write
    files           \* the files: a header and the blocks after it

fileThreadVars == <<fPc, fIn, fOrd, lastOrd, nMisses, files>>

FileInit ==
    /\ fPc = "loop"
    /\ fIn = 0 /\ fOrd = 0
    /\ lastOrd = 0
    /\ nMisses = 0
    /\ files = <<>>

FileGoto(from, to) == died = "no" /\ fPc = from /\ fPc' = to

\* while (keep_going || anyBufFull(...))
FileLoop ==
    /\ FileGoto("loop", IF keep_going \/ Ready(fileOrder) # {} THEN "fetch" ELSE "done")
    /\ UNCHANGED <<sharedVars, fIn, fOrd, lastOrd, nMisses, files>>

\* anyBufFull locks a copy of NReadyMutex; a copy made while the worker held
\* the mutex inside returnBuffer is never unlocked (UdpBuff has the details).
FileHang(publishing) ==
    /\ FileGoto("loop", "hung")
    /\ ~keep_going
    /\ publishing
    /\ UNCHANGED <<sharedVars, fIn, fOrd, lastOrd, nMisses, files>>

FileFetch ==
    /\ FileGoto("fetch", "have")
    /\ Ready(fileOrder) # {}
    /\ fIn' = findLowest(fileOrder, INT_MAX)
    /\ fOrd' = fileOrder[fIn']
    /\ fileOrder' = [fileOrder EXCEPT ![fIn'] = InUse]
    /\ UNCHANGED <<udpOrder, udpData, fileData, header, keep_going, died,
                   lastOrd, nMisses, files>>

FileFetchFails_Never == FALSE
FileFetchFails ==
    /\ FileGoto("fetch", "loop")
    /\ Ready(fileOrder) = {}
    /\ ~keep_going
    /\ UNCHANGED <<sharedVars, fIn, fOrd, lastOrd, nMisses, files>>

\* How the block compares with the last one written.
TooLate_NotNext == fOrd # lastOrd + 1
TooLate == fOrd <= lastOrd

Expected_NotPast == fOrd > lastOrd
Expected == fOrd = lastOrd + 1

TooEarly == fOrd > lastOrd + 1

\* A block earlier than the last one written is dropped.
FileDiscard ==
    /\ FileGoto("have", "loop")
    /\ TooLate
    /\ ReturnFile(fIn, Empty)
    /\ UNCHANGED <<udpOrder, udpData, fileData, header, keep_going,
                   fIn, fOrd, lastOrd, nMisses, files>>

\* nMisses only matters up to MAX_ORDER_MISSES + 1.
Missed == IF nMisses > MAX_ORDER_MISSES THEN nMisses ELSE nMisses + 1
GiveUpGap == lastOrd # 0 /\ Missed > MAX_ORDER_MISSES

FilePutBack ==
    /\ FileGoto("have", "loop")
    /\ TooEarly
    /\ ~GiveUpGap
    /\ nMisses' = Missed
    /\ ReturnFile(fIn, fOrd)
    /\ UNCHANGED <<udpOrder, udpData, fileData, header, keep_going,
                   fIn, fOrd, lastOrd, files>>

Block == [order |-> fOrd, cells |-> fileData[fIn]]

\* Too many misses: the next file begins with this block.
FileNewFile ==
    /\ FileGoto("have", "loop")
    /\ TooEarly
    /\ GiveUpGap
    /\ nMisses' = 0
    /\ packetStart' = fOrd * TIME_INT_PER_BUFFER + packetStart - 1
    /\ files' = Append(files, [packetStart |-> packetStart', ants |-> antNumbers,
                               blocks |-> <<Block>>])
    /\ lastOrd' = fOrd
    /\ ReturnFile(fIn, Empty)
    /\ UNCHANGED <<udpOrder, udpData, fileData, antNumbers, keep_going, fIn, fOrd>>

\* The block that was expected: the first one opens the first file.
FileWrite ==
    /\ FileGoto("have", "loop")
    /\ Expected
    /\ nMisses' = 0
    /\ files' = IF lastOrd = 0
                THEN <<[packetStart |-> packetStart, ants |-> antNumbers,
                        blocks |-> <<Block>>]>>
                ELSE [files EXCEPT ![Len(files)].blocks = Append(@, Block)]
    /\ lastOrd' = fOrd
    /\ ReturnFile(fIn, Empty)
    /\ UNCHANGED <<udpOrder, udpData, fileData, header, keep_going, fIn, fOrd>>

\* open or write fails: error() ends the process.
FileError ==
    /\ died = "no"
    /\ fPc = "have"
    /\ Expected \/ (TooEarly /\ GiveUpGap)
    /\ died' = "io"
    /\ UNCHANGED <<pools, header, keep_going, fileThreadVars>>

FileNext(publishing) ==
    \/ FileLoop \/ FileHang(publishing) \/ FileFetch \/ FileFetchFails
    \/ FileDiscard \/ FilePutBack \/ FileNewFile \/ FileWrite
    \/ FileError
==============================================================================

-------------------------------- MODULE Writer --------------------------------
(***************************************************************************)
(* file_writer_work beside a worker reduced to what it does to the block   *)
(* pool: it publishes each order number once, in any order that its window *)
(* allows, and may stop for good before it has published them all.         *)
(***************************************************************************)
EXTENDS FileThread

CONSTANTS MaxBlocks,    \* bound: how many blocks there are
          start         \* the first packet number of the recording

\* Order numbers are ints, and findLowest does not see INT_MAX itself;
\* GET_PCKT_NO masks packet numbers.
ASSUME WriterAssumption ==
    /\ INT_MAX \in Nat /\ MaxBlocks \in Nat /\ MaxBlocks < INT_MAX
    /\ start \in 0 .. PCKT_NO_RANGE - 1

VARIABLES published,    \* the order numbers published so far
          filling       \* the block buffer the worker is about to publish, or -1

writerSysVars == <<sharedVars, fileThreadVars, published, filling>>

\* The worker has the window of the order numbers not yet published.
InWindow(o) == /\ o \in 1 .. MaxBlocks \ published
               /\ Cardinality({k \in 1 .. o : k \notin published})
                    <= N_FILE_BUFFERS_AT_A_TIME

\* The worker has set packetStart before it publishes anything.
Take ==
    /\ died = "no"
    /\ filling = -1
    /\ findEmpty(fileOrder) # NotFound
    /\ filling' = findEmpty(fileOrder)
    /\ fileOrder' = [fileOrder EXCEPT ![filling'] = InUse]
    /\ packetStart' = IF published = {} THEN start ELSE packetStart
    /\ UNCHANGED <<udpOrder, udpData, fileData, antNumbers, keep_going, died,
                   fileThreadVars, published>>

\* Publishing order number o, whose cells name the packets it stands for.
PublishBlock == \E o \in 1 .. MaxBlocks :
    /\ died = "no"
    /\ filling # -1
    /\ InWindow(o)
    /\ fileData' = [fileData EXCEPT ![filling] =
          [c \in Cells |-> [NoData EXCEPT !.pckt = BlockStart(start, o) + c]]]
    /\ ReturnFile(filling, o)
    /\ published' = published \cup {o}
    /\ filling' = -1
    /\ UNCHANGED <<udpOrder, udpData, header, keep_going, fileThreadVars>>

Stop ==
    /\ keep_going
    /\ keep_going' = FALSE
    /\ UNCHANGED <<pools, header, died, fileThreadVars, published, filling>>

Init == SharedInit /\ FileInit /\ published = {} /\ filling = -1

Next == \/ FileNext(filling # -1) /\ UNCHANGED <<published, filling>>
        \/ Take \/ PublishBlock \/ Stop

Spec == Init /\ [][Next]_writerSysVars

------------------------------------------------------------------------------
\* Properties

\* The blocks of a file are consecutive, and the files follow each other in
\* order: a put-back, a late block or a new file never reorders or repeats.  The
\* header of the first file names the first packet of its first block ("uint64
\* first packet number", full_custom/README.md).
FilesInOrder ==
    /\ \A f \in DOMAIN files : \A k \in 1 .. Len(files[f].blocks) - 1 :
          files[f].blocks[k + 1].order = files[f].blocks[k].order + 1
    /\ \A f \in 1 .. Len(files) - 1 :
          files[f + 1].blocks[1].order > files[f].blocks[Len(files[f].blocks)].order + 1
    /\ files # <<>> => files[1].packetStart = BlockStart(start, files[1].blocks[1].order)

\* Every block in a file is the one that was published under its order
\* number: no buffer is written after it was given back and filled again.
BlocksIntact ==
    \A f \in DOMAIN files : \A k \in DOMAIN files[f].blocks : \A c \in Cells :
        files[f].blocks[k].cells[c].pckt = BlockStart(start, files[f].blocks[k].order) + c

\* A published block that is later than the last one written is still in the
\* pool or in the file thread's hands: a put-back loses nothing, and only
\* blocks overtaken by a new file are dropped.
NothingLaterLost ==
    died = "no" => \A o \in published : o > lastOrd =>
        \/ \E b \in FileBuffers : fileOrder[b] = o
        \/ fPc = "have" /\ fOrd = o

\* "order should follow packet number 1:1. since we are creating new file we
\* need to update the packet start information here" (file_thread.c:55): so
\* does the header of every file.
EveryHeaderRight ==
    \A f \in DOMAIN files :
        files[f].packetStart = BlockStart(start, files[f].blocks[1].order)
==============================================================================

----------------------------- MODULE WriterProofs -----------------------------
(***************************************************************************)
(* The files of full_custom/file_thread.c, for any pool size, any number   *)
(* of blocks and any order in which the worker publishes them: WriterInv   *)
(* is inductive and implies that the files are in order, that their blocks *)
(* are the ones published, and that no later block is lost.                *)
(***************************************************************************)
EXTENDS Writer, PoolOpsTheorems

------------------------------------------------------------------------------
\* The inductive invariant

CellTypes == [pckt : Int, ant : Int, chan : Int, volt : BOOLEAN]
BlockCells == [Cells -> CellTypes]
FileBlocks == [order : 1 .. MaxBlocks, cells : BlockCells]
Files == [packetStart : Int, ants : [0 .. nAnts - 1 -> Int], blocks : Seq(FileBlocks)]

TypeOK ==
    /\ fileOrder \in [FileBuffers -> -1 .. MaxBlocks]
    /\ fileData \in [FileBuffers -> BlockCells]
    /\ packetStart \in Int /\ antNumbers \in [0 .. nAnts - 1 -> Int]
    /\ died \in {"no", "io"}
    /\ fPc \in {"loop", "fetch", "have", "done", "hung"}
    /\ fIn \in FileBuffers /\ fOrd \in 0 .. MaxBlocks /\ lastOrd \in 0 .. MaxBlocks
    /\ nMisses \in Nat
    /\ files \in Seq(Files)
    /\ published \subseteq 1 .. MaxBlocks
    /\ filling \in FileBuffers \cup {-1}

\* The buffer that the worker fills and the one that the file thread has are
\* in use, and are not the same.
HandsInv ==
    /\ filling # -1 => fileOrder[filling] = InUse
    /\ fPc = "have" => fileOrder[fIn] = InUse /\ fIn # filling

\* The cells are those of the block with order number o.
Stands(cells, o) == \A c \in Cells : cells[c].pckt = BlockStart(start, o) + c

\* A ready buffer, and the one in the file thread's hands, holds the block
\* published with its order number.
ContentInv ==
    /\ \A b \in FileBuffers : fileOrder[b] > 0 =>
         fileOrder[b] \in published /\ Stands(fileData[b], fileOrder[b])
    /\ fPc = "have" => fOrd \in published /\ Stands(fileData[fIn], fOrd)

\* packetStart is the recording's until a second file is opened.
StartInv == lastOrd = 0 /\ (published # {} \/ filling # -1) => packetStart = start

\* Files fs are in order and their blocks are the ones published.
LastOrder(fs) == fs[Len(fs)].blocks[Len(fs[Len(fs)].blocks)].order

Consecutive(blocks) ==
    \A k \in 1 .. Len(blocks) - 1 : blocks[k + 1].order = blocks[k].order + 1

InOrder(fs) ==
    /\ \A f \in 1 .. Len(fs) :
         /\ fs[f].blocks # <<>> /\ Consecutive(fs[f].blocks)
         /\ \A k \in 1 .. Len(fs[f].blocks) :
              Stands(fs[f].blocks[k].cells, fs[f].blocks[k].order)
    /\ \A f \in 1 .. Len(fs) - 1 :
         fs[f + 1].blocks[1].order > fs[f].blocks[Len(fs[f].blocks)].order + 1

\* The last block of the last file is the last one written; the first file
\* begins with the first block of the recording.
FilesInv ==
    /\ InOrder(files)
    /\ lastOrd = 0 <=> files = <<>>
    /\ files # <<>> => /\ LastOrder(files) = lastOrd
                       /\ files[1].packetStart = start /\ files[1].blocks[1].order = 1

WriterInv == /\ TypeOK /\ HandsInv /\ ContentInv /\ StartInv /\ FilesInv
             /\ NothingLaterLost

------------------------------------------------------------------------------
\* Files

\* The first block, or the first after a gap, opens a file.
LEMMA FileAdded ==
    ASSUME NEW fs \in Seq(Files), InOrder(fs), NEW blk \in FileBlocks,
           Stands(blk.cells, blk.order), NEW ps \in Int, NEW an \in [0 .. nAnts - 1 -> Int],
           fs # <<>> => blk.order > LastOrder(fs) + 1
    PROVE  LET gs == Append(fs, [packetStart |-> ps, ants |-> an, blocks |-> <<blk>>])
           IN  /\ gs \in Seq(Files) /\ gs # <<>> /\ InOrder(gs) /\ LastOrder(gs) = blk.order
               /\ fs # <<>> => gs[1] = fs[1]
<1> DEFINE new == [packetStart |-> ps, ants |-> an, blocks |-> <<blk>>]
           gs == Append(fs, new)
           L == Len(fs)
<1>1. new \in Files /\ new.blocks = <<blk>>
  BY DEF Files
<1> HIDE DEF new
<1>2. /\ gs \in Seq(Files) /\ Len(gs) = L + 1 /\ L \in Nat /\ gs[L + 1] = new
      /\ \A f \in 1 .. L : gs[f] = fs[f]
  BY <1>1
<1>3. gs # <<>> /\ (fs # <<>> => gs[1] = fs[1])
  BY <1>2
<1> HIDE DEF gs
<1>4. /\ Len(new.blocks) = 1 /\ new.blocks[1] = blk /\ new.blocks # <<>>
  BY <1>1
<1>5. LastOrder(gs) = blk.order
  BY <1>2, <1>4 DEF LastOrder
<1>6. ASSUME NEW f \in 1 .. Len(gs)
      PROVE  /\ gs[f].blocks # <<>> /\ Consecutive(gs[f].blocks)
             /\ \A k \in 1 .. Len(gs[f].blocks) :
                  Stands(gs[f].blocks[k].cells, gs[f].blocks[k].order)
  <2>1. CASE f \in 1 .. L
    BY <1>2, <2>1 DEF InOrder
  <2>2. CASE f = L + 1
    <3>1. Consecutive(new.blocks)
      BY <1>4 DEF Consecutive
    <3>2. \A k \in 1 .. Len(new.blocks) : k = 1
      BY <1>4
    <3> QED BY <1>2, <1>4, <2>2, <3>1, <3>2
  <2> QED BY <1>2, <2>1, <2>2
<1>7. ASSUME NEW f \in 1 .. Len(gs) - 1
      PROVE  gs[f + 1].blocks[1].order > gs[f].blocks[Len(gs[f].blocks)].order + 1
  <2>1. CASE f \in 1 .. L - 1
    <3>1. f \in 1 .. L /\ f + 1 \in 1 .. L
      BY <1>2, <2>1
    <3>2. gs[f] = fs[f] /\ gs[f + 1] = fs[f + 1]
      BY <1>2, <3>1
    <3> QED BY <2>1, <3>2 DEF InOrder
  <2>2. CASE f = L
    <3>1. L \in 1 .. L /\ fs # <<>>
      BY <1>2, <2>2
    <3> QED BY <1>2, <1>4, <2>2, <3>1 DEF LastOrder
  <2> QED BY <1>2, <2>1, <2>2
<1>8. InOrder(gs)
  BY <1>6, <1>7 DEF InOrder
<1> QED BY <1>2, <1>3, <1>5, <1>8 DEF gs, new

\* The expected block goes to the end of the last file.
LEMMA BlockAdded ==
    ASSUME NEW fs \in Seq(Files), InOrder(fs), fs # <<>>, NEW blk \in FileBlocks,
           Stands(blk.cells, blk.order), blk.order = LastOrder(fs) + 1
    PROVE  LET gs == [fs EXCEPT ![Len(fs)].blocks = Append(@, blk)]
           IN  /\ gs \in Seq(Files) /\ gs # <<>> /\ InOrder(gs) /\ LastOrder(gs) = blk.order
               /\ gs[1].packetStart = fs[1].packetStart
               /\ gs[1].blocks[1] = fs[1].blocks[1]
<1> DEFINE L == Len(fs)
           gs == [fs EXCEPT ![L].blocks = Append(@, blk)]
<1>1. L \in Nat /\ L > 0 /\ L \in 1 .. L /\ 1 \in 1 .. L /\ \A f \in 1 .. L : fs[f] \in Files
  OBVIOUS
<1>2. PICK old \in Seq(FileBlocks) : old = fs[L].blocks
  BY <1>1 DEF Files
<1>3. PICK new \in Seq(FileBlocks) : new = Append(old, blk)
  <2>1. Append(old, blk) \in Seq(FileBlocks)
    OBVIOUS
  <2> QED BY <2>1
<1>4. PICK last \in Files : last = [fs[L] EXCEPT !.blocks = new]
  <2>1. fs[L] \in Files
    BY <1>1
  <2> QED BY <2>1 DEF Files
<1>5. last.blocks = new /\ last.packetStart = fs[L].packetStart
  <2>1. fs[L] \in Files
    BY <1>1
  <2> QED BY <1>4, <2>1 DEF Files
<1>6. gs = [fs EXCEPT ![L] = last]
  BY <1>2, <1>3, <1>4
<1> HIDE DEF gs
<1>7. /\ gs \in Seq(Files) /\ Len(gs) = L
      /\ \A f \in 1 .. L : gs[f] = IF f = L THEN last ELSE fs[f]
  <2> HIDE DEF L
  <2>1. fs \in [1 .. L -> Files]
    BY DEF L
  <2>2. gs \in [1 .. L -> Files] /\ \A f \in 1 .. L : gs[f] = IF f = L THEN last ELSE fs[f]
    BY <1>6, <2>1
  <2> QED BY <1>1, <2>2
<1>8. old # <<>> /\ Consecutive(old)
      /\ \A k \in 1 .. Len(old) : Stands(old[k].cells, old[k].order)
  BY <1>1, <1>2 DEF InOrder
<1>9. Len(old) \in Nat \ {0} /\ blk.order = old[Len(old)].order + 1
  BY <1>2, <1>8 DEF LastOrder
<1>10. /\ Len(new) = Len(old) + 1 /\ new[Len(old) + 1] = blk /\ new # <<>>
       /\ \A k \in 1 .. Len(old) : new[k] = old[k]
  BY <1>3
<1>11. Consecutive(new)
  <2>1. ASSUME NEW k \in 1 .. Len(new) - 1 PROVE new[k + 1].order = new[k].order + 1
    <3>1. CASE k \in 1 .. Len(old) - 1
      <4>1. k \in 1 .. Len(old) /\ k + 1 \in 1 .. Len(old)
        BY <1>9, <3>1
      <4> QED BY <1>8, <1>10, <3>1, <4>1 DEF Consecutive
    <3>2. CASE k = Len(old)
      BY <1>9, <1>10, <3>2
    <3> QED BY <1>9, <1>10, <3>1, <3>2
  <2> QED BY <2>1 DEF Consecutive
<1>12. \A k \in 1 .. Len(new) : Stands(new[k].cells, new[k].order)
  <2>1. \A k \in 1 .. Len(new) : k \in 1 .. Len(old) \/ k = Len(old) + 1
    BY <1>9, <1>10
  <2> QED BY <1>8, <1>10, <2>1
<1>13. new[1] = old[1]
  BY <1>9, <1>10
<1>14. LastOrder(gs) = blk.order /\ gs # <<>>
  <2>1. gs[L] = last /\ Len(gs) = L
    BY <1>1, <1>7
  <2> QED BY <1>1, <1>5, <1>7, <1>10, <2>1 DEF LastOrder
<1>15. gs[1].packetStart = fs[1].packetStart /\ gs[1].blocks[1] = fs[1].blocks[1]
  BY <1>1, <1>2, <1>5, <1>7, <1>13
<1>16. ASSUME NEW f \in 1 .. L
       PROVE  /\ gs[f].blocks # <<>> /\ Consecutive(gs[f].blocks)
              /\ \A k \in 1 .. Len(gs[f].blocks) :
                   Stands(gs[f].blocks[k].cells, gs[f].blocks[k].order)
  <2>1. CASE f = L
    BY <1>5, <1>7, <1>10, <1>11, <1>12, <2>1
  <2>2. CASE f # L
    BY <1>7, <2>2 DEF InOrder
  <2> QED BY <2>1, <2>2
<1>17. ASSUME NEW f \in 1 .. L - 1
       PROVE  gs[f + 1].blocks[1].order > gs[f].blocks[Len(gs[f].blocks)].order + 1
  <2>1. f \in 1 .. L /\ f + 1 \in 1 .. L /\ f # L
    BY <1>1
  <2>2. gs[f] = fs[f] /\ gs[f + 1].blocks[1] = fs[f + 1].blocks[1]
    BY <1>2, <1>5, <1>7, <1>13, <2>1
  <2> QED BY <2>2 DEF InOrder
<1>18. InOrder(gs)
  BY <1>7, <1>16, <1>17 DEF InOrder
<1> QED BY <1>7, <1>14, <1>15, <1>18 DEF gs

\* The properties follow.
LEMMA InvImpliesFiles == WriterInv => FilesInOrder /\ BlocksIntact /\ NothingLaterLost
<1> SUFFICES ASSUME WriterInv PROVE FilesInOrder /\ BlocksIntact
  BY DEF WriterInv
<1>1. files \in Seq(Files) /\ FilesInv
  BY DEF WriterInv, TypeOK
<1>2. DOMAIN files = 1 .. Len(files) /\ \A f \in 1 .. Len(files) : files[f] \in Files
  BY <1>1
<1>3. \A f \in 1 .. Len(files) : DOMAIN files[f].blocks = 1 .. Len(files[f].blocks)
  BY <1>2 DEF Files
<1>4. InOrder(files)
  BY <1>1 DEF FilesInv
<1>5. BlocksIntact
  BY <1>2, <1>3, <1>4 DEF BlocksIntact, InOrder, Stands
<1>6. BlockStart(start, 1) = start
  <2>1. TIME_INT_PER_BUFFER \in Nat /\ PCKT_NO_RANGE \in Nat /\ start \in 0 .. PCKT_NO_RANGE - 1
    BY Geometry, WriterAssumption
  <2>2. (1 - 1) * TIME_INT_PER_BUFFER = 0
    BY <2>1
  <2>3. start + (1 - 1) * TIME_INT_PER_BUFFER = start
    BY <2>1, <2>2
  <2>4. start % PCKT_NO_RANGE = start
    BY <2>1
  <2> QED BY <2>3, <2>4 DEF BlockStart, Masked
<1>7. FilesInOrder
  BY <1>1, <1>2, <1>4, <1>6 DEF FilesInOrder, InOrder, Consecutive, FilesInv
<1> QED BY <1>5, <1>7

------------------------------------------------------------------------------
\* The pool

LEMMA BufferRange == N_FILE_BUFFERS \in Nat /\ N_FILE_BUFFERS > 1 /\ 0 \in FileBuffers
BY PoolSizes DEF FileBuffers

\* getOldestFilledBuffer finds a ready buffer, and getEmptyBuffer an empty one.
LEMMA LowestReady ==
    ASSUME TypeOK, Ready(fileOrder) # {}
    PROVE  LET b == findLowest(fileOrder, INT_MAX)
           IN  b \in FileBuffers /\ fileOrder[b] \in 1 .. MaxBlocks
<1>1. /\ fileOrder \in [0 .. N_FILE_BUFFERS - 1 -> Int] /\ INT_MAX \in Int
      /\ \A b \in FileBuffers : fileOrder[b] \in -1 .. MaxBlocks
      /\ DOMAIN fileOrder = FileBuffers
  BY WriterAssumption DEF TypeOK, FileBuffers
<1>2. ReadyBelow(fileOrder, INT_MAX) # {}
  BY <1>1, WriterAssumption DEF ReadyBelow, Ready
<1>3. findLowest(fileOrder, INT_MAX) \in ReadyBelow(fileOrder, INT_MAX)
  BY <1>1, <1>2, BufferRange, FindLowestResult
<1> QED BY <1>1, <1>3, WriterAssumption DEF ReadyBelow

LEMMA EmptyFound ==
    ASSUME TypeOK, findEmpty(fileOrder) # NotFound
    PROVE  findEmpty(fileOrder) \in FileBuffers /\ fileOrder[findEmpty(fileOrder)] = Empty
<1>1. fileOrder \in [0 .. N_FILE_BUFFERS - 1 -> Int]
  BY WriterAssumption DEF TypeOK, FileBuffers
<1> QED BY <1>1, BufferRange, FindEmptyResult DEF FileBuffers

------------------------------------------------------------------------------
\* The steps

LEMMA WriterInit == Init => WriterInv
<1> SUFFICES ASSUME Init PROVE WriterInv
  OBVIOUS
<1> USE DEF Init, SharedInit, FileInit
<1>1. /\ NoData \in CellTypes /\ 0 \in 0 .. MaxBlocks /\ Empty \in -1 .. MaxBlocks
      /\ NoAnt \in Int
  BY WriterAssumption DEF NoData, CellTypes, Empty, NoAnt
<1>2. fileData \in [FileBuffers -> BlockCells]
  BY <1>1 DEF BlockCells
<1>3. TypeOK
  BY <1>1, <1>2, BufferRange DEF TypeOK
<1>4. HandsInv /\ StartInv /\ NothingLaterLost
  BY DEF HandsInv, StartInv, NothingLaterLost
<1>5. ContentInv
  BY DEF ContentInv, Empty
<1>6. FilesInv
  <2>1. InOrder(<<>>)
    BY DEF InOrder
  <2> QED BY <2>1 DEF FilesInv
<1> QED BY <1>3, <1>4, <1>5, <1>6 DEF WriterInv

\* The file thread moves without a block in its hands.
LEMMA MoveSteps ==
    ASSUME WriterInv, UNCHANGED <<published, filling>>,
           FileLoop \/ FileHang(filling # -1) \/ FileFetchFails
    PROVE  WriterInv'
<1>1. /\ fPc # "have" /\ fPc' \in {"loop", "fetch", "done", "hung"}
      /\ UNCHANGED <<sharedVars, fIn, fOrd, lastOrd, nMisses, files, published, filling>>
  BY DEF FileLoop, FileHang, FileFetchFails, FileGoto
<1>2. TypeOK'
  BY <1>1 DEF WriterInv, TypeOK, sharedVars
<1>3. HandsInv' /\ StartInv' /\ FilesInv'
  BY <1>1 DEF WriterInv, HandsInv, StartInv, FilesInv, sharedVars
<1>4. ContentInv' /\ NothingLaterLost'
  BY <1>1 DEF WriterInv, ContentInv, NothingLaterLost, sharedVars
<1> QED BY <1>2, <1>3, <1>4 DEF WriterInv

LEMMA FetchStep ==
    ASSUME WriterInv, UNCHANGED <<published, filling>>, FileFetch
    PROVE  WriterInv'
<1>1. TypeOK /\ HandsInv /\ ContentInv /\ StartInv /\ FilesInv /\ NothingLaterLost
  BY DEF WriterInv
<1>2. PICK b \in FileBuffers : b = findLowest(fileOrder, INT_MAX)
                               /\ fileOrder[b] \in 1 .. MaxBlocks
  BY <1>1, LowestReady DEF FileFetch
<1>3. /\ fPc = "fetch" /\ fPc' = "have" /\ fIn' = b /\ fOrd' = fileOrder[b]
      /\ fileOrder' = [fileOrder EXCEPT ![b] = InUse]
      /\ UNCHANGED <<fileData, packetStart, antNumbers, died, lastOrd, nMisses, files,
                     published, filling>>
  BY <1>2 DEF FileFetch, FileGoto, header
<1>4. fileOrder[b] > 0 /\ fileOrder[b] # InUse /\ fileOrder[b] \in published
      /\ Stands(fileData[b], fileOrder[b])
  BY <1>1, <1>2 DEF ContentInv, InUse
<1>5. \A c \in FileBuffers : fileOrder'[c] = IF c = b THEN InUse ELSE fileOrder[c]
  BY <1>1, <1>3 DEF TypeOK
<1>6. TypeOK'
  <2>1. InUse \in -1 .. MaxBlocks /\ fileOrder[b] \in 0 .. MaxBlocks
    BY <1>2, WriterAssumption DEF InUse
  <2> QED BY <1>1, <1>2, <1>3, <2>1 DEF TypeOK
<1>7. HandsInv'
  <2>1. filling # -1 => filling \in FileBuffers /\ fileOrder[filling] = InUse
    BY <1>1 DEF HandsInv, TypeOK
  <2>2. b # filling
    <3>1. b # -1
      BY DEF FileBuffers
    <3> QED BY <1>4, <2>1, <3>1
  <2> QED BY <1>3, <1>5, <2>1, <2>2 DEF HandsInv
<1>8. ContentInv'
  BY <1>1, <1>3, <1>4, <1>5 DEF ContentInv, InUse
<1>9. StartInv' /\ FilesInv'
  BY <1>1, <1>3 DEF StartInv, FilesInv
<1>10. NothingLaterLost'
  BY <1>1, <1>3, <1>5 DEF NothingLaterLost
<1> QED BY <1>6, <1>7, <1>8, <1>9, <1>10 DEF WriterInv

\* The file thread gives its buffer back with order number v: returnBuffer's
\* assertion holds, and what is not put back is not later than lastOrd.
LEMMA GivenBack ==
    ASSUME WriterInv, fPc = "have", died = "no", fPc' = "loop", NEW v \in {Empty, fOrd},
           ReturnFile(fIn, v),
           UNCHANGED <<fileData, published, filling>>,
           lastOrd' \in 0 .. MaxBlocks, lastOrd' >= lastOrd, v = fOrd \/ fOrd <= lastOrd'
    PROVE  /\ fileOrder' \in [FileBuffers -> -1 .. MaxBlocks] /\ died' = "no"
           /\ HandsInv' /\ ContentInv' /\ NothingLaterLost'
<1>1. TypeOK /\ HandsInv /\ ContentInv /\ NothingLaterLost
  BY DEF WriterInv
<1>2. fileOrder[fIn] = InUse /\ fIn # filling /\ fIn \in FileBuffers
  BY <1>1 DEF HandsInv, TypeOK
<1>3. fileOrder' = [fileOrder EXCEPT ![fIn] = v] /\ died' = "no"
  BY <1>2 DEF ReturnFile
<1>4. v \in -1 .. MaxBlocks
  BY <1>1, WriterAssumption DEF TypeOK, Empty
<1>5. /\ fileOrder' \in [FileBuffers -> -1 .. MaxBlocks]
      /\ \A c \in FileBuffers : fileOrder'[c] = IF c = fIn THEN v ELSE fileOrder[c]
  BY <1>1, <1>3, <1>4 DEF TypeOK
<1>6. HandsInv'
  BY <1>1, <1>2, <1>5 DEF HandsInv, TypeOK
<1>7. ContentInv'
  <2>1. ASSUME NEW b \in FileBuffers, fileOrder'[b] > 0
        PROVE  fileOrder'[b] \in published /\ Stands(fileData[b], fileOrder'[b])
    <3>1. CASE b = fIn
      <4>1. fileOrder'[b] = fOrd
        BY <1>5, <2>1, <3>1 DEF Empty
      <4> QED BY <1>1, <3>1, <4>1 DEF ContentInv
    <3>2. CASE b # fIn
      BY <1>1, <1>5, <2>1, <3>2 DEF ContentInv
    <3> QED BY <3>1, <3>2
  <2> QED BY <2>1 DEF ContentInv
<1>8. NothingLaterLost'
  <2> SUFFICES ASSUME NEW o \in published, o > lastOrd'
               PROVE  \E b \in FileBuffers : fileOrder'[b] = o
    BY DEF NothingLaterLost
  <2>1. o > lastOrd /\ o \in Int /\ o > 0
    <3>1. o \in Int /\ lastOrd \in Nat /\ lastOrd' \in Nat
      BY <1>1 DEF TypeOK
    <3> QED BY <3>1
  <2>2. CASE fOrd = o
    <3>1. v = o
      BY <1>1, <2>1, <2>2 DEF TypeOK
    <3> QED BY <1>2, <1>5, <3>1
  <2>3. CASE fOrd # o
    <3>1. PICK b \in FileBuffers : fileOrder[b] = o
      BY <1>1, <2>1, <2>3 DEF NothingLaterLost
    <3>2. b # fIn
      BY <1>2, <2>1, <3>1 DEF InUse
    <3> QED BY <1>5, <3>1, <3>2
  <2> QED BY <2>2, <2>3
<1> QED BY <1>3, <1>5, <1>6, <1>7, <1>8

LEMMA ReturnSteps ==
    ASSUME WriterInv, UNCHANGED <<published, filling>>, FileDiscard \/ FilePutBack
    PROVE  WriterInv'
<1>1. TypeOK /\ StartInv /\ FilesInv
  BY DEF WriterInv
<1>2. /\ fPc = "have" /\ died = "no" /\ fPc' = "loop"
      /\ UNCHANGED <<fileData, packetStart, antNumbers, fIn, fOrd, lastOrd, files>>
  BY DEF FileDiscard, FilePutBack, FileGoto, header
<1>3. PICK v \in {Empty, fOrd} : ReturnFile(fIn, v) /\ (v = fOrd \/ fOrd <= lastOrd')
  BY <1>2 DEF FileDiscard, FilePutBack, TooLate
<1>4. lastOrd' \in 0 .. MaxBlocks /\ lastOrd' >= lastOrd
  BY <1>1, <1>2 DEF TypeOK
<1>5. /\ fileOrder' \in [FileBuffers -> -1 .. MaxBlocks] /\ died' = "no"
      /\ HandsInv' /\ ContentInv' /\ NothingLaterLost'
  BY <1>2, <1>3, <1>4, GivenBack
<1>6. nMisses' \in Nat
  <2>1. nMisses \in Nat
    BY <1>1 DEF TypeOK
  <2> QED BY <2>1 DEF FileDiscard, FilePutBack, Missed
<1>7. TypeOK'
  BY <1>1, <1>2, <1>5, <1>6 DEF TypeOK
<1>8. StartInv' /\ FilesInv'
  BY <1>1, <1>2 DEF StartInv, FilesInv
<1> QED BY <1>5, <1>7, <1>8 DEF WriterInv

LEMMA WriteSteps ==
    ASSUME WriterInv, UNCHANGED <<published, filling>>, FileWrite \/ FileNewFile
    PROVE  WriterInv'
<1>1. TypeOK /\ StartInv /\ FilesInv /\ ContentInv
  BY DEF WriterInv
<1>2. /\ fPc = "have" /\ died = "no" /\ fPc' = "loop" /\ ReturnFile(fIn, Empty)
      /\ nMisses' = 0 /\ lastOrd' = fOrd
      /\ UNCHANGED <<fileData, antNumbers, fIn, fOrd>>
  BY DEF FileWrite, FileNewFile, FileGoto, header
<1>3. fOrd \in published /\ fOrd \in 1 .. MaxBlocks /\ Stands(fileData[fIn], fOrd)
      /\ lastOrd \in Nat
  BY <1>1, <1>2 DEF ContentInv, TypeOK
<1>4. lastOrd' >= lastOrd
  BY <1>2, <1>3 DEF FileWrite, FileNewFile, Expected, TooEarly
<1>5. /\ fileOrder' \in [FileBuffers -> -1 .. MaxBlocks] /\ died' = "no"
      /\ HandsInv' /\ ContentInv' /\ NothingLaterLost'
  <2>1. lastOrd' \in 0 .. MaxBlocks /\ fOrd <= lastOrd'
    BY <1>2, <1>3, WriterAssumption
  <2> QED BY <1>2, <1>4, <2>1, GivenBack
<1>6. PICK blk \in FileBlocks : /\ blk = [order |-> fOrd, cells |-> fileData[fIn]]
                                /\ blk.order = fOrd /\ Stands(blk.cells, blk.order)
  <2>1. fileData[fIn] \in BlockCells
    BY <1>1 DEF TypeOK
  <2>2. [order |-> fOrd, cells |-> fileData[fIn]] \in FileBlocks
    BY <1>3, <2>1 DEF FileBlocks
  <2> QED BY <1>3, <2>2
<1>7. /\ packetStart' \in Int /\ files' \in Seq(Files) /\ files' # <<>> /\ InOrder(files')
      /\ LastOrder(files') = fOrd
      /\ files'[1].packetStart = start /\ files'[1].blocks[1].order = 1
  <2>0. /\ files \in Seq(Files) /\ InOrder(files) /\ packetStart \in Int
        /\ antNumbers \in [0 .. nAnts - 1 -> Int]
    BY <1>1 DEF TypeOK, FilesInv
  <2>1. CASE FileWrite /\ lastOrd = 0
    <3>1. files = <<>> /\ packetStart = start /\ fOrd = 1
      BY <1>1, <1>3, <2>1 DEF FilesInv, StartInv, FileWrite, Expected
    <3>2. PICK new : new = [packetStart |-> packetStart, ants |-> antNumbers, blocks |-> <<blk>>]
      OBVIOUS
    <3>3. files' = Append(files, new) /\ packetStart' = packetStart /\ files'[1] = new
      BY <1>6, <2>1, <3>1, <3>2 DEF FileWrite, Block, header
    <3>4. /\ files' \in Seq(Files) /\ files' # <<>> /\ InOrder(files')
          /\ LastOrder(files') = blk.order
      <4>1. PICK ps \in Int, an \in [0 .. nAnts - 1 -> Int] : ps = packetStart /\ an = antNumbers
        BY <2>0
      <4>2. files' = Append(files, [packetStart |-> ps, ants |-> an, blocks |-> <<blk>>])
        BY <3>2, <3>3, <4>1
      <4>3. files \in Seq(Files) /\ InOrder(files) /\ Stands(blk.cells, blk.order)
            /\ (files # <<>> => blk.order > LastOrder(files) + 1)
        BY <1>6, <2>0, <3>1
      <4> QED BY <4>2, <4>3, FileAdded
    <3>5. new.packetStart = start /\ new.blocks[1] = blk
      BY <3>1, <3>2
    <3> QED BY <1>6, <2>0, <3>1, <3>3, <3>4, <3>5
  <2>2. ASSUME lastOrd # 0
        PROVE  /\ files # <<>> /\ LastOrder(files) = lastOrd
               /\ files[1].packetStart = start /\ files[1].blocks[1].order = 1
    BY <1>1, <2>2 DEF FilesInv
  <2>3. CASE FileWrite /\ lastOrd # 0
    <3>1. /\ files' = [files EXCEPT ![Len(files)].blocks = Append(@, blk)]
          /\ blk.order = LastOrder(files) + 1 /\ packetStart' = packetStart
      BY <1>6, <2>2, <2>3 DEF FileWrite, Block, Expected, header
    <3>2. /\ files' \in Seq(Files) /\ files' # <<>> /\ InOrder(files')
          /\ LastOrder(files') = blk.order
          /\ files'[1].packetStart = files[1].packetStart
          /\ files'[1].blocks[1] = files[1].blocks[1]
      BY <1>6, <2>0, <2>2, <2>3, <3>1, BlockAdded
    <3> QED BY <1>6, <2>0, <2>2, <2>3, <3>1, <3>2
  <2>4. CASE FileNewFile
    <3>1. lastOrd # 0 /\ fOrd > lastOrd + 1
      BY <2>4 DEF FileNewFile, GiveUpGap, TooEarly
    <3>2. packetStart' \in Int
      <4>1. TIME_INT_PER_BUFFER \in Nat /\ fOrd * TIME_INT_PER_BUFFER \in Int
        BY <1>3, Geometry
      <4> QED BY <2>0, <2>4, <4>1 DEF FileNewFile
    <3>3. files' = Append(files, [packetStart |-> packetStart', ants |-> antNumbers,
                                  blocks |-> <<blk>>])
      BY <1>6, <2>4 DEF FileNewFile, Block
    <3>4. /\ files' \in Seq(Files) /\ files' # <<>> /\ InOrder(files')
          /\ LastOrder(files') = blk.order /\ files'[1] = files[1]
      BY <1>6, <2>0, <2>2, <3>1, <3>2, <3>3, FileAdded
    <3> QED BY <1>6, <2>2, <3>1, <3>2, <3>4
  <2> QED BY <2>1, <2>3, <2>4
<1>8. lastOrd' \in 0 .. MaxBlocks /\ lastOrd' # 0
  BY <1>2, <1>3, WriterAssumption
<1>9. TypeOK'
  BY <1>1, <1>2, <1>5, <1>7, <1>8 DEF TypeOK
<1>10. StartInv' /\ FilesInv'
  BY <1>2, <1>7, <1>8 DEF StartInv, FilesInv
<1> QED BY <1>5, <1>9, <1>10 DEF WriterInv

LEMMA ErrorOrStop ==
    ASSUME WriterInv, (FileError /\ UNCHANGED <<published, filling>>) \/ Stop
    PROVE  WriterInv'
<1>1. /\ UNCHANGED <<fileOrder, fileData, packetStart, antNumbers, fPc, fIn, fOrd, lastOrd,
                     nMisses, files, published, filling>>
      /\ died' = died \/ died' = "io"
  BY DEF FileError, Stop, pools, header, fileThreadVars
<1>2. TypeOK'
  BY <1>1 DEF WriterInv, TypeOK
<1>3. HandsInv' /\ StartInv' /\ FilesInv'
  BY <1>1 DEF WriterInv, HandsInv, StartInv, FilesInv
<1>4. ContentInv' /\ NothingLaterLost'
  BY <1>1 DEF WriterInv, ContentInv, NothingLaterLost
<1> QED BY <1>2, <1>3, <1>4 DEF WriterInv

LEMMA TakeStep ==
    ASSUME WriterInv, Take
    PROVE  WriterInv'
<1>1. TypeOK /\ HandsInv /\ ContentInv /\ StartInv /\ FilesInv /\ NothingLaterLost
  BY DEF WriterInv
<1>2. PICK b \in FileBuffers : b = findEmpty(fileOrder) /\ fileOrder[b] = Empty
  BY <1>1, EmptyFound DEF Take
<1>3. /\ filling' = b /\ fileOrder' = [fileOrder EXCEPT ![b] = InUse]
      /\ packetStart' = IF published = {} THEN start ELSE packetStart
      /\ UNCHANGED <<fileData, antNumbers, died, fPc, fIn, fOrd, lastOrd, nMisses, files,
                     published>>
  BY <1>2 DEF Take, fileThreadVars
<1>4. \A c \in FileBuffers : fileOrder'[c] = IF c = b THEN InUse ELSE fileOrder[c]
  BY <1>1, <1>3 DEF TypeOK
<1>5. TypeOK'
  <2>1. InUse \in -1 .. MaxBlocks /\ start \in Int
    BY WriterAssumption, Geometry DEF InUse
  <2> QED BY <1>1, <1>3, <2>1 DEF TypeOK
<1>6. HandsInv'
  BY <1>1, <1>2, <1>3, <1>4 DEF HandsInv, TypeOK, Empty, InUse
<1>7. ContentInv'
  BY <1>1, <1>3, <1>4 DEF ContentInv, InUse
<1>8. StartInv' /\ FilesInv'
  BY <1>1, <1>3 DEF StartInv, FilesInv
<1>9. NothingLaterLost'
  <2> SUFFICES ASSUME died = "no", NEW o \in published, o > lastOrd
               PROVE  (\E c \in FileBuffers : fileOrder'[c] = o) \/ (fPc = "have" /\ fOrd = o)
    BY <1>3 DEF NothingLaterLost
  <2>1. o # 0
    BY <1>1 DEF TypeOK
  <2> QED BY <1>1, <1>2, <1>4, <2>1 DEF NothingLaterLost, Empty
<1> QED BY <1>5, <1>6, <1>7, <1>8, <1>9 DEF WriterInv

LEMMA PublishStep ==
    ASSUME WriterInv, PublishBlock
    PROVE  WriterInv'
<1>1. TypeOK /\ HandsInv /\ ContentInv /\ StartInv /\ FilesInv /\ NothingLaterLost
  BY DEF WriterInv
<1>2. PICK o \in 1 .. MaxBlocks :
        /\ died = "no" /\ filling # -1
        /\ fileData' = [fileData EXCEPT ![filling] =
             [c \in Cells |-> [NoData EXCEPT !.pckt = BlockStart(start, o) + c]]]
        /\ ReturnFile(filling, o)
        /\ published' = published \cup {o}
        /\ filling' = -1
        /\ UNCHANGED <<udpOrder, udpData, header, keep_going, fileThreadVars>>
  BY DEF PublishBlock
<1>3. PICK new : new = [c \in Cells |-> [NoData EXCEPT !.pckt = BlockStart(start, o) + c]]
  OBVIOUS
<1>4. filling \in FileBuffers /\ fileOrder[filling] = InUse
  BY <1>1, <1>2 DEF TypeOK, HandsInv
<1>5. new \in BlockCells /\ Stands(new, o)
  <2>1. BlockStart(start, o) \in Int
    <3>1. /\ TIME_INT_PER_BUFFER \in Nat /\ PCKT_NO_RANGE \in Nat \ {0} /\ start \in Nat
      BY Geometry, WriterAssumption
    <3>2. (o - 1) * TIME_INT_PER_BUFFER \in Nat
      BY <3>1
    <3>3. start + (o - 1) * TIME_INT_PER_BUFFER \in Nat
      BY <3>1, <3>2
    <3> QED BY <3>1, <3>3 DEF BlockStart, Masked
  <2>2. \A c \in Cells : c \in Int
    BY DEF Cells
  <2>3. ASSUME NEW c \in Cells
        PROVE  /\ new[c] = [NoData EXCEPT !.pckt = BlockStart(start, o) + c]
               /\ new[c] \in CellTypes /\ new[c].pckt = BlockStart(start, o) + c
    <3>1. new[c] = [NoData EXCEPT !.pckt = BlockStart(start, o) + c]
      BY <1>3
    <3>2. BlockStart(start, o) + c \in Int
      BY <2>1, <2>2
    <3>3. PICK x \in Int : x = BlockStart(start, o) + c
      BY <3>2
    <3>4. NoData \in CellTypes
      BY DEF NoData, CellTypes
    <3>5. [NoData EXCEPT !.pckt = x] \in CellTypes /\ [NoData EXCEPT !.pckt = x].pckt = x
      BY <3>4 DEF CellTypes
    <3> QED BY <3>1, <3>3, <3>5
  <2> QED BY <1>3, <2>3 DEF BlockCells, Stands
<1>6. /\ fileOrder' = [fileOrder EXCEPT ![filling] = o] /\ died' = "no"
      /\ fileData' = [fileData EXCEPT ![filling] = new]
      /\ UNCHANGED <<packetStart, antNumbers, fPc, fIn, fOrd, lastOrd, nMisses, files>>
  BY <1>2, <1>3, <1>4 DEF ReturnFile, header, fileThreadVars
<1>7. \A c \in FileBuffers : /\ fileOrder'[c] = IF c = filling THEN o ELSE fileOrder[c]
                             /\ fileData'[c] = IF c = filling THEN new ELSE fileData[c]
  BY <1>1, <1>6 DEF TypeOK
<1>8. TypeOK'
  <2>1. o \in -1 .. MaxBlocks
    BY WriterAssumption
  <2> QED BY <1>1, <1>2, <1>5, <1>6, <2>1 DEF TypeOK
<1>9. HandsInv'
  <2>1. fIn \in FileBuffers /\ fIn # -1
    BY <1>1 DEF TypeOK, FileBuffers
  <2> QED BY <1>1, <1>2, <1>6, <1>7, <2>1 DEF HandsInv
<1>10. ContentInv'
  <2>1. ASSUME NEW b \in FileBuffers, fileOrder'[b] > 0
        PROVE  fileOrder'[b] \in published' /\ Stands(fileData'[b], fileOrder'[b])
    BY <1>1, <1>2, <1>5, <1>7, <2>1 DEF ContentInv
  <2>2. ASSUME fPc' = "have"
        PROVE  fOrd' \in published' /\ Stands(fileData'[fIn'], fOrd')
    <3>1. fIn # filling /\ fIn \in FileBuffers /\ fIn' = fIn /\ fOrd' = fOrd /\ fPc = "have"
      BY <1>1, <1>6, <2>2 DEF HandsInv, TypeOK
    <3> QED BY <1>1, <1>2, <1>7, <3>1 DEF ContentInv
  <2> QED BY <2>1, <2>2 DEF ContentInv
<1>11. StartInv' /\ FilesInv'
  BY <1>1, <1>2, <1>6 DEF StartInv, FilesInv
<1>12. NothingLaterLost'
  <2> SUFFICES ASSUME NEW q \in published', q > lastOrd
               PROVE  (\E c \in FileBuffers : fileOrder'[c] = q) \/ (fPc = "have" /\ fOrd = q)
    BY <1>6 DEF NothingLaterLost
  <2>1. CASE q = o
    BY <1>4, <1>7, <2>1
  <2>2. CASE q # o
    <3>1. q \in published /\ q # InUse
      BY <1>1, <1>2, <2>2 DEF TypeOK, InUse
    <3>2. (\E c \in FileBuffers : fileOrder[c] = q) \/ (fPc = "have" /\ fOrd = q)
      BY <1>1, <1>2, <3>1 DEF NothingLaterLost
    <3> QED BY <1>4, <1>7, <3>1, <3>2
  <2> QED BY <2>1, <2>2
<1> QED BY <1>8, <1>9, <1>10, <1>11, <1>12 DEF WriterInv

LEMMA WriterNext == WriterInv /\ [Next]_writerSysVars => WriterInv'
<1> SUFFICES ASSUME WriterInv, [Next]_writerSysVars PROVE WriterInv'
  OBVIOUS
<1>1. CASE UNCHANGED writerSysVars
  <2>1. TypeOK'
    BY <1>1 DEF WriterInv, TypeOK, writerSysVars, sharedVars, fileThreadVars
  <2>2. HandsInv' /\ StartInv' /\ FilesInv'
    BY <1>1 DEF WriterInv, HandsInv, StartInv, FilesInv, writerSysVars, sharedVars,
                fileThreadVars
  <2>3. ContentInv' /\ NothingLaterLost'
    BY <1>1 DEF WriterInv, ContentInv, NothingLaterLost, writerSysVars, sharedVars,
                fileThreadVars
  <2> QED BY <2>1, <2>2, <2>3 DEF WriterInv
<1>2. CASE FileNext(filling # -1) /\ UNCHANGED <<published, filling>>
  BY <1>2, MoveSteps, FetchStep, ReturnSteps, WriteSteps, ErrorOrStop DEF FileNext
<1>3. CASE Take \/ PublishBlock \/ Stop
  BY <1>3, TakeStep, PublishStep, ErrorOrStop
<1> QED BY <1>1, <1>2, <1>3 DEF Next

------------------------------------------------------------------------------
\* Files and blocks stay in order for any order of publication and any
\* MAX_ORDER_MISSES, and the first header is right.
THEOREM FilesStayInOrder == Spec => []FilesInOrder
BY WriterInit, WriterNext, InvImpliesFiles, PTL DEF Spec

\* What is written under an order number is what was published under it.
THEOREM BlocksStayIntact == Spec => []BlocksIntact
BY WriterInit, WriterNext, InvImpliesFiles, PTL DEF Spec

\* A put-back loses no block, and a new file only the earlier ones.
THEOREM NoLaterLoss == Spec => []NothingLaterLost
BY WriterInit, WriterNext, InvImpliesFiles, PTL DEF Spec

\* The assertion of returnBuffer never ends the process: the two threads only
\* give back buffers they hold.
THEOREM ReturnsHold == Spec => [](died # "integrity")
<1>1. WriterInv => died # "integrity"
  BY DEF WriterInv, TypeOK
<1> QED BY <1>1, WriterInit, WriterNext, PTL DEF Spec
==============================================================================

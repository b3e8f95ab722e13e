---------------------------- MODULE RecorderProofs ----------------------------
(***************************************************************************)
(* The recorder as a whole, for any pools, window, geometry and traffic:   *)
(* as long as order numbers stay below INT_MAX and no empty datagram       *)
(* comes, no buffer is in two threads' hands, order numbers are used once, *)
(* and published blocks and the first file hold what their headers say; if *)
(* no packet comes twice either, blocks sent as full are complete.         *)
(***************************************************************************)
EXTENDS Recorder, PoolOpsTheorems, FiniteSetTheorems

\* findLowest does not see an order number of INT_MAX.
OrdersFit == next_order <= INT_MAX /\ uOrder <= INT_MAX

------------------------------------------------------------------------------
\* The inductive invariant

Slots == [packetNo : Int, index : FileBuffers, order : Nat, nToFull : Int]
BlockCells == [Cells -> Packets \cup {NoData}]

UdpTypes ==
    /\ udpOrder \in [UdpBuffers -> Int]
    /\ udpData \in [UdpBuffers -> Seq(Packets)]
    /\ uPc \in {"loop", "fetch", "recv", "return", "done"}
    /\ currentBuffNo \in UdpBuffers /\ indexIn \in UdpBuffers
    /\ uOrder \in Nat \ {0} /\ received \in 0 .. Len(Traffic)

BlockTypes ==
    /\ fileOrder \in [FileBuffers -> Int]
    /\ fileData \in [FileBuffers -> BlockCells]
    /\ packetStart \in Int
    /\ wPc \in {"start", "loop", "fetch", "sort", "pass1", "refill1", "pass2", "refill2",
                "exit", "done"}
    /\ localStruct \in [Window -> Slots]
    /\ next_order \in Nat \ {0} /\ nextStructPacketNo \in Int /\ first_loop_done \in BOOLEAN
    /\ iK \in Nat /\ (wPc \in {"refill1", "refill2"} => iK \in Window)
    /\ fPc \in {"loop", "fetch", "have", "done", "hung"}
    /\ fIn \in FileBuffers /\ fOrd \in Nat /\ lastOrd \in Nat

\* The datagram buffers in use are the udp thread's and the worker's.
UdpHands ==
    /\ UdpHas \cap SorterHas = {}
    /\ \A b \in UdpBuffers : /\ udpOrder[b] = InUse <=> b \in UdpHas \cup SorterHas
                             /\ udpOrder[b] >= InUse /\ udpOrder[b] < uOrder

\* The block buffers in use are the worker's window and the file thread's; what
\* is ready was published.
Working == wPc \notin {"start", "done"}

BlockHands ==
    /\ \A i, j \in Unsent : i # j => localStruct[i].index # localStruct[j].index
    /\ Working => \A i \in Unsent : fileOrder[localStruct[i].index] = InUse
    /\ fPc = "have" => /\ fileOrder[fIn] = InUse
                       /\ Working => \A i \in Unsent : localStruct[i].index # fIn
    /\ \A b \in FileBuffers : fileOrder[b] = InUse =>
         \/ Working /\ \E i \in Unsent : localStruct[i].index = b
         \/ fPc = "have" /\ fIn = b
    /\ wPc = "start" => ~first_loop_done /\ \A i \in Window : localStruct[i].index = i

Published ==
    /\ \A b \in FileBuffers : fileOrder[b] \notin {Empty, InUse} => fileOrder[b] \in wSent
    /\ fPc = "have" => fOrd \in wSent

\* Before the first batch nothing has been sorted or published.
BeforeFirst ==
    ~first_loop_done =>
      /\ wSent = {} /\ lastOrd = 0 /\ next_order = N_FILE_BUFFERS_AT_A_TIME + 1
      /\ \A i \in Window : localStruct[i].order = i + 1
      /\ \A b \in FileBuffers, c \in Cells : fileData[b][c] = NoData
      /\ wPc \in {"start", "loop", "fetch", "sort", "exit", "done"}

\* Packet numbers follow order numbers from the recording's first one, s; those
\* of the first window are not masked.
Numbered(s) ==
    first_loop_done =>
      /\ nextStructPacketNo = BlockStart(s, next_order)
      /\ \A i \in Window :
           \/ localStruct[i].packetNo = s + (localStruct[i].order - 1) * TIME_INT_PER_BUFFER
           \/ localStruct[i].packetNo = BlockStart(s, localStruct[i].order)
      /\ antNumbers = wAnts
      /\ Len(files) < 2 => packetStart = s

\* The cells hold packets of block o, each in its place.
Holds(cells, o, s, ants) ==
    \A c \in Cells : cells[c] # NoData =>
      /\ GET_PACKET_FILTER(cells[c].pckt) = BlockStart(s, o)
      /\ c = Offset(GET_PACKET_REST(cells[c].pckt), getAntIndex(ants, cells[c].ant), cells[c].chan)

Contents(s) ==
    /\ \A i \in Unsent : Holds(fileData[localStruct[i].index], localStruct[i].order, s, wAnts)
    /\ \A b \in FileBuffers : fileOrder[b] \notin {Empty, InUse} =>
         Holds(fileData[b], fileOrder[b], s, wAnts)
    /\ fPc = "have" => Holds(fileData[fIn], fOrd, s, wAnts)

\* The first file has the first blocks; while it is the only one, the last
\* block written is its last.
IsSeq(x) == \E S : x \in Seq(S)
FirstFile(s) ==
    /\ IsSeq(files)
    /\ lastOrd = 0 <=> files = <<>>
    /\ files # <<>> => \E blocks :
         /\ files[1] = [packetStart |-> s, ants |-> wAnts, blocks |-> blocks]
         /\ IsSeq(blocks)
         /\ \A k \in 1 .. Len(blocks) : Holds(blocks[k].cells, k, s, wAnts)
         /\ Len(files) = 1 => Len(blocks) = lastOrd

RecordingFrom(s) == Numbered(s) /\ Contents(s) /\ FirstFile(s)

RecorderInv ==
    /\ UdpTypes /\ BlockTypes /\ died \in {"no", "io"}
    /\ UdpHands /\ BlockHands /\ Published /\ OrdersOnce /\ BeforeFirst
    /\ \E s \in 0 .. PCKT_NO_RANGE - 1 : RecordingFrom(s)

------------------------------------------------------------------------------
\* Packet numbers

\* Remainders of packet numbers.
LEMMA ModAdd ==
    ASSUME NEW R \in Nat \ {0}, NEW a \in Int, NEW t \in Int
    PROVE  ((a % R) + t) % R = (a + t) % R
<1>1. PICK q \in Int : q = a \div R
  OBVIOUS
<1>2. PICK r \in 0 .. R - 1 : r = a % R /\ a = R * q + r
  BY <1>1
<1>3. PICK p \in Int : p = (r + t) \div R
  OBVIOUS
<1>4. PICK u \in 0 .. R - 1 : u = (r + t) % R /\ r + t = R * p + u
  BY <1>3
<1>5. a + t = R * (q + p) + u
  <2>1. R * (q + p) = R * q + R * p
    OBVIOUS
  <2>2. PICK x \in Int, y \in Int : x = R * q /\ y = R * p
    OBVIOUS
  <2>3. a = x + r /\ r + t = y + u
    BY <1>2, <1>4, <2>2
  <2>4. a + t = x + y + u
    BY <2>3
  <2> QED BY <2>1, <2>2, <2>4
<1>6. q + p \in Int
  OBVIOUS
<1>7. (R * (q + p) + u) % R = u
  BY <1>6, ModUnique
<1> QED BY <1>2, <1>4, <1>5, <1>7

\* A filtered packet number is not negative and not above the packet number.
LEMMA FilterRange ==
    ASSUME NEW T \in Nat \ {0}, NEW x \in Nat
    PROVE  x - (x % T) \in 0 .. x
<1>1. PICK q \in Int : q = x \div T
  OBVIOUS
<1>2. PICK r \in 0 .. T - 1 : r = x % T /\ x = T * q + r
  BY <1>1
<1>3. q >= 0
  <2>1. CASE q < 0
    <3>1. q + 1 <= 0 
      BY <2>1
    <3>2. T * (q + 1) <= 0
      BY <3>1
    <3>3. T * q + T <= 0
      BY <3>2
    <3> QED BY <1>2, <3>3
  <2> QED BY <2>1
<1>4. T * q >= 0
  BY <1>3
<1> QED BY <1>2, <1>4

LEMMA SizesPositive ==
    /\ TIME_INT_PER_BUFFER \in Nat \ {0} /\ PCKT_NO_RANGE \in Nat \ {0}
    /\ N_FILE_BUFFERS_AT_A_TIME \in Nat \ {0} 
<1>1. TIME_INT_PER_BUFFER \in Nat /\ N_FILE_BUFFERS_AT_A_TIME \in Nat \ {0}
      /\ PCKT_NO_RANGE \in Nat /\ PCKT_NO_RANGE >= TIME_INT_PER_BUFFER * N_FILE_BUFFERS_AT_A_TIME
      /\ TIME_INT_PER_BUFFER > N_FILE_BUFFERS_AT_A_TIME \div 2
  BY Geometry, PoolSizes
<1>2. N_FILE_BUFFERS_AT_A_TIME \div 2 >= 0
  BY <1>1
<1>3. TIME_INT_PER_BUFFER >= 1
  BY <1>1, <1>2
<1>4. TIME_INT_PER_BUFFER * N_FILE_BUFFERS_AT_A_TIME >= 1
  BY <1>1, <1>3
<1> QED BY <1>1, <1>3, <1>4

\* The packet number of a refilled position is that of the next order number.
LEMMA NextStart ==
    ASSUME NEW s \in Nat, NEW o \in Nat \ {0}
    PROVE  /\ Masked(BlockStart(s, o) + TIME_INT_PER_BUFFER) = BlockStart(s, o + 1)
           /\ BlockStart(s, o) \in 0 .. PCKT_NO_RANGE - 1
<1>1. PICK T \in Nat \ {0}, R \in Nat \ {0} : T = TIME_INT_PER_BUFFER /\ R = PCKT_NO_RANGE
  BY SizesPositive
<1>2. (o + 1 - 1) * T = (o - 1) * T + T
  OBVIOUS
<1>3. PICK a \in Int : a = s + (o - 1) * T
  OBVIOUS
<1>4. s + (o + 1 - 1) * T = a + T
  <2>1. (o - 1) * T \in Int
    OBVIOUS
  <2> QED BY <1>2, <1>3, <2>1
<1>5. ((a % R) + T) % R = (a + T) % R
  <2>1. T \in Int
    OBVIOUS
  <2> QED BY <2>1, ModAdd
<1>6. a % R \in 0 .. R - 1
  OBVIOUS
<1> QED BY <1>1, <1>3, <1>4, <1>5, <1>6 DEF BlockStart, Masked

\* A packet that findStructIndex finds in the window belongs to the block of
\* the position it is found at, masked or not.
LEMMA FilterIsStart ==
    ASSUME NEW s \in Nat, NEW o \in Nat, NEW x \in 0 .. PCKT_NO_RANGE - 1,
           \/ GET_PACKET_FILTER(x) = s + (o - 1) * TIME_INT_PER_BUFFER
           \/ GET_PACKET_FILTER(x) = BlockStart(s, o)
    PROVE  GET_PACKET_FILTER(x) = BlockStart(s, o)
<1>1. PICK R \in Nat \ {0} : R = PCKT_NO_RANGE
  BY SizesPositive
<1>2. PICK y \in Int : y = GET_PACKET_FILTER(x) /\ y \in 0 .. x
  <2>1. x \in Nat /\ TIME_INT_PER_BUFFER \in Nat \ {0}
    BY SizesPositive
  <2> QED BY <2>1, FilterRange DEF GET_PACKET_FILTER
<1>3. y % R = y
  BY <1>1, <1>2
<1> QED BY <1>1, <1>2, <1>3 DEF BlockStart, Masked

\* The recording's first packet number.
LEMMA LowestInRange ==
    ASSUME NEW batch \in Seq(Packets), batch # <<>>
    PROVE  LowestPacket(batch) \in 0 .. PCKT_NO_RANGE - 1
<1> DEFINE S == {batch[k].pckt : k \in DOMAIN batch}
<1>1. \A k \in DOMAIN batch : batch[k].pckt \in 0 .. PCKT_NO_RANGE - 1
  <2>1. \A k \in DOMAIN batch : batch[k] \in Packets
    OBVIOUS
  <2> QED BY <2>1 DEF Packets
<1>2. S \in SUBSET Nat /\ S # {} /\ \A x \in S : x \in 0 .. PCKT_NO_RANGE - 1
  <2>1. 1 \in DOMAIN batch
    OBVIOUS
  <2> QED BY <1>1, <2>1
<1> HIDE DEF S
<1>3. PICK x \in S : x = CHOOSE z \in S : \A y \in S : z <= y
  BY <1>2, LeastNat
<1>4. x - (x % TIME_INT_PER_BUFFER) \in 0 .. x
  BY <1>2, SizesPositive, FilterRange
<1>5. LowestPacket(batch) = x - (x % TIME_INT_PER_BUFFER)
  BY <1>3 DEF LowestPacket, GET_PACKET_FILTER, S
<1>6. x \in 0 .. PCKT_NO_RANGE - 1 /\ PCKT_NO_RANGE \in Nat
  BY <1>2, SizesPositive
<1> QED BY <1>4, <1>5, <1>6

------------------------------------------------------------------------------
\* Sorting a batch

LEMMA LastOf ==
    ASSUME NEW n \in Nat, NEW S \in SUBSET (1 .. n), S # {}
    PROVE  Max(S) \in S
<1> DEFINE D == {n - k : k \in S}
<1>1. D \in SUBSET Nat /\ D # {}
  <2>1. \A k \in S : n - k \in Nat
    OBVIOUS
  <2> QED BY <2>1
<1>2. PICK d \in D : \A e \in D : d <= e
  BY <1>1, LeastNat
<1>3. PICK x \in S : d = n - x
  BY <1>2
<1>4. \A y \in S : x >= y
  <2> TAKE y \in S
  <2>1. n - x <= n - y
    BY <1>2, <1>3
  <2> QED BY <2>1
<1> QED BY <1>4 DEF Max

\* Where a packet lands, its block is the position's and its cell the one its
\* header asks for.
LEMMA PlaceFound ==
    ASSUME NEW slots \in [Window -> Slots], NEW ants, NEW p \in Packets,
           Place(ants, slots, p).slot # -1
    PROVE  /\ Place(ants, slots, p).slot \in Window
           /\ slots[Place(ants, slots, p).slot].packetNo = GET_PACKET_FILTER(p.pckt)
<1> DEFINE S == {i \in Window : slots[i].packetNo = GET_PACKET_FILTER(p.pckt)}
<1>1. Place(ants, slots, p).slot = findStructIndex(slots, GET_PACKET_FILTER(p.pckt))
  BY DEF Place
<1>2. S # {}
  BY <1>1 DEF findStructIndex
<1>3. S \in SUBSET Nat
  BY SizesPositive DEF Window
<1>4. \E i \in S : \A j \in S : i <= j
  BY <1>2, <1>3, LeastNat
<1>5. findStructIndex(slots, GET_PACKET_FILTER(p.pckt)) \in S
  BY <1>2, <1>4 DEF findStructIndex
<1> QED BY <1>1, <1>5

LEMMA SortedCells ==
    ASSUME NEW slots \in [Window -> Slots], NEW ants, NEW batch \in Seq(Packets), NEW s \in Nat,
           NEW place, place = Places(ants, slots, batch),
           \A i \in Window :
              \/ slots[i].packetNo = s + (slots[i].order - 1) * TIME_INT_PER_BUFFER
              \/ slots[i].packetNo = BlockStart(s, slots[i].order),
           NEW b \in FileBuffers, NEW o,
           \A i \in Window : slots[i].index = b => slots[i].order = o,
           Holds(fileData[b], o, s, ants)
    PROVE  Holds(SortedData(slots, place, batch)[b], o, s, ants)
<1> SUFFICES ASSUME NEW c \in Cells, NEW p, p = SortedData(slots, place, batch)[b][c], p # NoData
             PROVE  /\ GET_PACKET_FILTER(p.pckt) = BlockStart(s, o)
                    /\ c = Offset(GET_PACKET_REST(p.pckt), getAntIndex(ants, p.ant), p.chan)
  BY DEF Holds
<1> DEFINE S == {k \in DOMAIN place : /\ place[k].slot # -1 /\ place[k].cell = c
                                     /\ slots[place[k].slot].index = b}
<1>0. place = [k \in DOMAIN batch |-> Place(ants, slots, batch[k])]
  BY DEF Places
<1>1. p = IF S = {} THEN fileData[b][c] ELSE batch[Max(S)]
  BY DEF SortedData
<1>2. CASE S = {}
  BY <1>1, <1>2 DEF Holds
<1>3. CASE S # {}
  <2>1. Len(batch) \in Nat /\ S \in SUBSET (1 .. Len(batch))
    BY <1>0
  <2>2. PICK k \in S : k = Max(S)
    <3> HIDE DEF S
    <3> QED BY <1>3, <2>1, LastOf
  <2>3. p = batch[k] /\ p \in Packets /\ place[k] = Place(ants, slots, p)
    <3> HIDE DEF S
    <3>1. k \in 1 .. Len(batch) /\ DOMAIN batch = 1 .. Len(batch)
      BY <2>1, <2>2
    <3> QED BY <1>0, <1>1, <1>3, <2>2, <3>1
  <2>4. PICK i \in Window : /\ i = place[k].slot /\ slots[i].index = b
                           /\ slots[i].packetNo = GET_PACKET_FILTER(p.pckt)
    <3>1. place[k].slot # -1 /\ slots[place[k].slot].index = b
      BY <2>2
    <3>2. Place(ants, slots, p).slot # -1
      BY <2>3, <3>1
    <3> QED BY <2>3, <3>1, <3>2, PlaceFound
  <2>5. slots[i].order = o /\ o \in Nat /\ p.pckt \in 0 .. PCKT_NO_RANGE - 1
    BY <2>3, <2>4 DEF Slots, Packets
  <2>6. GET_PACKET_FILTER(p.pckt) = BlockStart(s, o)
    BY <2>4, <2>5, FilterIsStart
  <2>7. c = Offset(GET_PACKET_REST(p.pckt), getAntIndex(ants, p.ant), p.chan)
    <3>1. c = place[k].cell
      BY <2>2
    <3>2. Place(ants, slots, p).cell
            = Offset(GET_PACKET_REST(p.pckt), getAntIndex(ants, p.ant), p.chan)
      BY DEF Place
    <3> QED BY <2>3, <3>1, <3>2
  <2> QED BY <2>6, <2>7
<1> QED BY <1>2, <1>3

LEMMA SortedTypes ==
    ASSUME NEW slots \in [Window -> Slots], NEW ants, NEW batch \in Seq(Packets),
           NEW place, place = Places(ants, slots, batch),
           fileData \in [FileBuffers -> BlockCells]
    PROVE  /\ SortedData(slots, place, batch) \in [FileBuffers -> BlockCells]
           /\ SortedSlots(slots, place) \in [Window -> Slots]
           /\ \A i \in Window :
                /\ SortedSlots(slots, place)[i].packetNo = slots[i].packetNo
                /\ SortedSlots(slots, place)[i].index = slots[i].index
                /\ SortedSlots(slots, place)[i].order = slots[i].order
<1>1. DOMAIN place = 1 .. Len(batch) /\ Len(batch) \in Nat
  BY DEF Places
<1>2. ASSUME NEW b \in FileBuffers, NEW c \in Cells
      PROVE  SortedData(slots, place, batch)[b][c] \in Packets \cup {NoData}
  <2> DEFINE S == {k \in DOMAIN place : /\ place[k].slot # -1 /\ place[k].cell = c
                                       /\ slots[place[k].slot].index = b}
  <2>1. SortedData(slots, place, batch)[b][c] = IF S = {} THEN fileData[b][c] ELSE batch[Max(S)]
    BY DEF SortedData
  <2>2. CASE S = {}
    BY <2>1, <2>2 DEF BlockCells
  <2>3. CASE S # {}
    <3>1. S \in SUBSET (1 .. Len(batch))
      BY <1>1
    <3> HIDE DEF S
    <3>2. Max(S) \in 1 .. Len(batch)
      BY <1>1, <2>3, <3>1, LastOf
    <3> QED BY <1>1, <2>1, <2>3, <3>2
  <2> QED BY <2>2, <2>3
<1>3. SortedData(slots, place, batch) \in [FileBuffers -> BlockCells]
  <2>1. PICK d : d = SortedData(slots, place, batch)
    OBVIOUS
  <2>2. /\ d = [b \in FileBuffers |-> d[b]]
        /\ \A b \in FileBuffers : d[b] = [c \in Cells |-> d[b][c]]
    BY <2>1 DEF SortedData
  <2>3. \A b \in FileBuffers : d[b] \in BlockCells
    BY <1>2, <2>1, <2>2 DEF BlockCells
  <2> QED BY <2>1, <2>2, <2>3
<1>4. ASSUME NEW i \in Window
      PROVE  LET new == SortedSlots(slots, place)[i] IN
             /\ new \in Slots
             /\ new.packetNo = slots[i].packetNo /\ new.index = slots[i].index
             /\ new.order = slots[i].order
  <2> DEFINE K == {k \in DOMAIN place : place[k].slot = i}
  <2>1. IsFiniteSet(K)
    <3>1. IsFiniteSet(1 .. Len(batch))
      BY <1>1, FS_Interval
    <3>2. K \in SUBSET (1 .. Len(batch))
      BY <1>1
    <3> HIDE DEF K
    <3> QED BY <3>1, <3>2, FS_Subset
  <2>2. PICK n \in Nat : n = Cardinality(K)
    BY <2>1, FS_CardinalityType
  <2>3. PICK old \in Slots : old = slots[i]
    OBVIOUS
  <2>4. PICK m \in Int : m = old.nToFull - n
    BY <2>3 DEF Slots
  <2>5. SortedSlots(slots, place)[i] = [old EXCEPT !.nToFull = m]
    BY <2>2, <2>3, <2>4 DEF SortedSlots
  <2>6. LET new == [old EXCEPT !.nToFull = m]
        IN  new \in Slots /\ new.packetNo = old.packetNo /\ new.index = old.index
            /\ new.order = old.order
    BY DEF Slots
  <2> QED BY <2>3, <2>5, <2>6
<1>5. SortedSlots(slots, place) \in [Window -> Slots]
  <2>1. SortedSlots(slots, place) = [i \in Window |-> SortedSlots(slots, place)[i]]
    BY DEF SortedSlots
  <2> QED BY <1>4, <2>1
<1> QED BY <1>3, <1>4, <1>5

------------------------------------------------------------------------------
\* The datagram pool

UdpInv == UdpTypes /\ UdpHands

LEMMA PoolRanges ==
    /\ N_UDP_BUFFERS \in Nat /\ 0 \in UdpBuffers
    /\ N_FILE_BUFFERS \in Nat /\ 0 \in FileBuffers
    /\ Window \subseteq FileBuffers /\ INT_MAX \in Nat
BY PoolSizes DEF UdpBuffers, FileBuffers, Window

LEMMA UdpFrame ==
    ASSUME UdpInv, wPc' = "sort" <=> wPc = "sort",
           UNCHANGED <<udpOrder, udpData, uPc, currentBuffNo, indexIn, uOrder, received>>
    PROVE  UdpInv'
<1>1. UdpTypes'
  BY DEF UdpInv, UdpTypes
<1>2. UdpHas' = UdpHas /\ SorterHas' = SorterHas
  BY DEF UdpHas, SorterHas
<1>3. UdpHands'
  BY <1>2 DEF UdpInv, UdpHands
<1> QED BY <1>1, <1>3 DEF UdpInv

\* Steps of the udp thread that take and return nothing.
LEMMA UdpMoves ==
    ASSUME UdpInv, UNCHANGED <<udpOrder, udpData, currentBuffNo, indexIn, uOrder, wPc>>,
           received' \in 0 .. Len(Traffic), uPc' \in {"loop", "fetch", "recv", "return", "done"},
           uPc \in {"recv", "return"} <=> uPc' \in {"recv", "return"}
    PROVE  UdpInv'
<1>1. UdpTypes'
  BY DEF UdpInv, UdpTypes
<1>2. UdpHas' = UdpHas /\ SorterHas' = SorterHas
  BY DEF UdpInv, UdpTypes, UdpHas, SorterHas
<1>3. UdpHands'
  BY <1>2 DEF UdpInv, UdpHands
<1> QED BY <1>1, <1>3 DEF UdpInv

LEMMA UdpFetchStep ==
    ASSUME UdpInv, UdpFetch, UNCHANGED <<wPc, indexIn>>
    PROVE  UdpInv'
<1>1. UdpTypes /\ UdpHands
  BY DEF UdpInv
<1>2. PICK b \in UdpBuffers : b = findEmpty(udpOrder) /\ udpOrder[b] = Empty
  <2>1. udpOrder \in [0 .. N_UDP_BUFFERS - 1 -> Int]
    BY <1>1 DEF UdpTypes, UdpBuffers
  <2> QED BY <2>1, PoolRanges, FindEmptyResult DEF UdpFetch, UdpBuffers
<1>3. /\ currentBuffNo' = b /\ udpOrder' = [udpOrder EXCEPT ![b] = InUse]
      /\ udpData' = [udpData EXCEPT ![b] = <<>>]
      /\ uPc = "fetch" /\ uPc' = "recv" /\ UNCHANGED <<uOrder, received>>
  BY <1>2 DEF UdpFetch, UdpGoto
<1>4. \A c \in UdpBuffers : udpOrder'[c] = IF c = b THEN InUse ELSE udpOrder[c]
  BY <1>1, <1>3 DEF UdpTypes
<1>5. UdpTypes'
  <2>1. InUse \in Int /\ <<>> \in Seq(Packets)
    BY DEF InUse
  <2> QED BY <1>1, <1>3, <2>1 DEF UdpTypes
<1>6. UdpHas' = {b} /\ UdpHas = {} /\ SorterHas' = SorterHas
  BY <1>3 DEF UdpHas, SorterHas
<1>7. b \notin SorterHas
  BY <1>1, <1>2 DEF UdpHands, Empty, InUse
<1>8. uOrder > InUse
  BY <1>1 DEF UdpTypes, InUse
<1>9. UdpHands'
  BY <1>1, <1>3, <1>4, <1>6, <1>7, <1>8 DEF UdpHands, InUse
<1> QED BY <1>5, <1>9 DEF UdpInv

LEMMA UdpPacketStep ==
    ASSUME UdpInv, RecvPacket, UNCHANGED <<wPc, indexIn>>
    PROVE  UdpInv'
<1>1. UdpTypes /\ UdpHands
  BY DEF UdpInv
<1>2. /\ uPc = "recv" /\ uPc' \in {"recv", "return"} /\ received' \in 1 .. Len(Traffic)
      /\ UNCHANGED <<udpOrder, currentBuffNo, uOrder>>
  BY <1>1, ReceiverAssumption DEF RecvPacket, UdpGoto, Arrives, UdpTypes
<1>3. PICK p \in Packets : udpData' = [udpData EXCEPT ![currentBuffNo] = Append(@, p)]
  BY <1>2, ReceiverAssumption DEF RecvPacket
<1>4. udpData' \in [UdpBuffers -> Seq(Packets)]
  <2>1. Append(udpData[currentBuffNo], p) \in Seq(Packets)
    <3>1. udpData[currentBuffNo] \in Seq(Packets)
      BY <1>1 DEF UdpTypes
    <3> QED BY <3>1
  <2> QED BY <1>1, <1>3, <2>1 DEF UdpTypes
<1>5. UdpTypes'
  BY <1>1, <1>2, <1>4 DEF UdpTypes
<1>6. UdpHas' = UdpHas /\ SorterHas' = SorterHas
  BY <1>2 DEF UdpHas, SorterHas
<1>7. UdpHands'
  BY <1>1, <1>2, <1>6 DEF UdpHands
<1> QED BY <1>5, <1>7 DEF UdpInv

LEMMA UdpReturnStep ==
    ASSUME UdpInv, UdpReturn, UNCHANGED <<wPc, indexIn>>
    PROVE  UdpInv' /\ died' = died
<1>1. UdpTypes /\ UdpHands
  BY DEF UdpInv
<1>2. /\ uPc = "return" /\ uPc' = "loop" /\ uOrder' = uOrder + 1
      /\ ReturnUdp(currentBuffNo, uOrder) /\ UNCHANGED <<udpData, currentBuffNo, received>>
  BY DEF UdpReturn, UdpGoto
<1>3. currentBuffNo \in UdpBuffers /\ UdpHas = {currentBuffNo} /\ UdpHas' = {}
      /\ SorterHas' = SorterHas
  BY <1>1, <1>2 DEF UdpTypes, UdpHas, SorterHas
<1>4. udpOrder[currentBuffNo] = InUse
  BY <1>1, <1>3 DEF UdpHands
<1>5. udpOrder' = [udpOrder EXCEPT ![currentBuffNo] = uOrder] /\ died' = died
  BY <1>2, <1>4 DEF ReturnUdp
<1>6. uOrder \in Nat \ {0}
  BY <1>1 DEF UdpTypes
<1>7. UdpTypes'
  BY <1>1, <1>2, <1>5, <1>6 DEF UdpTypes
<1>8. \A c \in UdpBuffers : udpOrder'[c] = IF c = currentBuffNo THEN uOrder ELSE udpOrder[c]
  BY <1>1, <1>5 DEF UdpTypes
<1>9. \A c \in UdpBuffers : udpOrder[c] \in Int
  BY <1>1 DEF UdpTypes
<1>10. UdpHands'
  BY <1>1, <1>2, <1>3, <1>6, <1>8, <1>9 DEF UdpHands, InUse
<1> QED BY <1>5, <1>7, <1>10 DEF UdpInv

\* fetchBuffer hands the worker a buffer that was ready.
LEMMA SorterFetch ==
    ASSUME UdpInv, WorkerFetch, OrdersFit, UNCHANGED <<uPc, currentBuffNo, uOrder, received>>
    PROVE  UdpInv'
<1>1. UdpTypes /\ UdpHands
  BY DEF UdpInv
<1>2. PICK b \in UdpBuffers : b = findLowest(udpOrder, INT_MAX) /\ udpOrder[b] > 0
  <2>1. udpOrder \in [0 .. N_UDP_BUFFERS - 1 -> Int] /\ DOMAIN udpOrder = UdpBuffers
    BY <1>1 DEF UdpTypes, UdpBuffers
  <2>2. PICK c \in UdpBuffers : udpOrder[c] > 0
    BY <2>1 DEF WorkerFetch, Ready
  <2>3. udpOrder[c] < INT_MAX
    <3>1. udpOrder[c] < uOrder /\ udpOrder[c] \in Int /\ uOrder \in Int
      BY <1>1 DEF UdpHands, UdpTypes
    <3> QED BY <3>1, PoolRanges DEF OrdersFit
  <2>4. ReadyBelow(udpOrder, INT_MAX) # {}
    BY <2>1, <2>2, <2>3 DEF ReadyBelow
  <2>5. findLowest(udpOrder, INT_MAX) \in ReadyBelow(udpOrder, INT_MAX)
    BY <2>1, <2>4, PoolRanges, FindLowestResult
  <2> QED BY <2>1, <2>5 DEF ReadyBelow
<1>3. /\ indexIn' = b /\ udpOrder' = [udpOrder EXCEPT ![b] = InUse] /\ UNCHANGED udpData
      /\ wPc = "fetch" /\ wPc' = "sort"
  BY <1>2 DEF WorkerFetch, WorkerGoto
<1>4. \A c \in UdpBuffers : udpOrder'[c] = IF c = b THEN InUse ELSE udpOrder[c]
  BY <1>1, <1>3 DEF UdpTypes
<1>5. UdpTypes'
  <2>1. InUse \in Int
    BY DEF InUse
  <2> QED BY <1>1, <1>3, <2>1 DEF UdpTypes
<1>6. SorterHas' = {b} /\ SorterHas = {} /\ UdpHas' = UdpHas
  BY <1>3 DEF UdpHas, SorterHas
<1>7. b \notin UdpHas
  BY <1>1, <1>2 DEF UdpHands, InUse
<1>8. uOrder > InUse
  BY <1>1 DEF UdpTypes, InUse
<1>9. UdpHands'
  BY <1>1, <1>4, <1>6, <1>7, <1>8 DEF UdpHands, InUse
<1> QED BY <1>5, <1>9 DEF UdpInv

\* The sorted batch's buffer is empty again.
LEMMA SorterReturn ==
    ASSUME UdpInv, wPc = "sort", wPc' # "sort", ReturnUdp(indexIn, Empty),
           UNCHANGED <<udpData, uPc, currentBuffNo, indexIn, uOrder, received>>
    PROVE  UdpInv' /\ died' = died
<1>1. UdpTypes /\ UdpHands
  BY DEF UdpInv
<1>2. indexIn \in UdpBuffers /\ SorterHas = {indexIn} /\ SorterHas' = {} /\ UdpHas' = UdpHas
  BY <1>1 DEF UdpTypes, UdpHas, SorterHas
<1>3. udpOrder[indexIn] = InUse
  BY <1>1, <1>2 DEF UdpHands
<1>4. udpOrder' = [udpOrder EXCEPT ![indexIn] = Empty] /\ died' = died
  BY <1>3 DEF ReturnUdp
<1>5. \A c \in UdpBuffers : udpOrder'[c] = IF c = indexIn THEN Empty ELSE udpOrder[c]
  BY <1>1, <1>4 DEF UdpTypes
<1>6. UdpTypes'
  <2>1. Empty \in Int
    BY DEF Empty
  <2> QED BY <1>1, <1>4, <2>1 DEF UdpTypes
<1>7. uOrder > Empty
  BY <1>1 DEF UdpTypes, Empty
<1>8. UdpHands'
  BY <1>1, <1>2, <1>5, <1>7 DEF UdpHands, Empty, InUse
<1> QED BY <1>4, <1>6, <1>8 DEF UdpInv

------------------------------------------------------------------------------
\* The block pool: steps that move a thread and take and return nothing

BlockInv == /\ BlockTypes /\ BlockHands /\ Published /\ OrdersOnce /\ BeforeFirst
            /\ \E s \in 0 .. PCKT_NO_RANGE - 1 : RecordingFrom(s)

\* Steps of the main and the udp thread, and failing reads and writes.
LEMMA BlockFrame ==
    ASSUME BlockInv,
           UNCHANGED <<fileOrder, fileData, packetStart, antNumbers, wPc, localStruct,
                       next_order, nextStructPacketNo, first_loop_done, wAnts, iK, wSent,
                       fPc, fIn, fOrd, lastOrd, files>>
    PROVE  BlockInv'
<1>1. Unsent' = Unsent /\ Working' = Working
  BY DEF Unsent, Working
<1>2. BlockTypes'
  BY DEF BlockInv, BlockTypes
<1>3. BlockHands' /\ Published'
  BY <1>1 DEF BlockInv, BlockHands, Published
<1>4. OrdersOnce' /\ BeforeFirst'
  BY <1>1 DEF BlockInv, OrdersOnce, BeforeFirst
<1>5. PICK s \in 0 .. PCKT_NO_RANGE - 1 : RecordingFrom(s)
  BY DEF BlockInv
<1>6. RecordingFrom(s)'
  BY <1>1, <1>5 DEF RecordingFrom, Numbered, Contents, FirstFile
<1> QED BY <1>2, <1>3, <1>4, <1>6 DEF BlockInv

LEMMA WorkerMoves ==
    ASSUME BlockInv,
           UNCHANGED <<fileOrder, fileData, packetStart, antNumbers, localStruct,
                       next_order, nextStructPacketNo, first_loop_done, wAnts, wSent,
                       fPc, fIn, fOrd, lastOrd, files>>,
           iK' \in Nat,
           wPc \in {"loop", "fetch", "sort", "pass1", "pass2", "exit"},
           wPc' \in {"loop", "fetch", "sort", "pass2", "exit"},
           wPc' = "pass2" => wPc = "pass1"
    PROVE  BlockInv'
<1>1. Unsent' = Unsent /\ Working' = Working
  BY DEF Unsent, Working
<1>2. BlockTypes'
  BY DEF BlockInv, BlockTypes
<1>3. BlockHands' /\ Published'
  BY <1>1 DEF BlockInv, BlockHands, Published
<1>4. OrdersOnce' /\ BeforeFirst'
  BY <1>1 DEF BlockInv, OrdersOnce, BeforeFirst
<1>5. PICK s \in 0 .. PCKT_NO_RANGE - 1 : RecordingFrom(s)
  BY DEF BlockInv
<1>6. RecordingFrom(s)'
  BY <1>1, <1>5 DEF RecordingFrom, Numbered, Contents, FirstFile
<1> QED BY <1>2, <1>3, <1>4, <1>6 DEF BlockInv

LEMMA FileMoves ==
    ASSUME BlockInv,
           UNCHANGED <<fileOrder, fileData, packetStart, antNumbers, wPc, localStruct,
                       next_order, nextStructPacketNo, first_loop_done, wAnts, iK, wSent,
                       fIn, fOrd, lastOrd, files>>,
           fPc # "have", fPc' \in {"loop", "fetch", "done", "hung"}
    PROVE  BlockInv'
<1>1. Unsent' = Unsent /\ Working' = Working
  BY DEF Unsent, Working
<1>2. BlockTypes'
  BY DEF BlockInv, BlockTypes
<1>3. BlockHands' /\ Published'
  BY <1>1 DEF BlockInv, BlockHands, Published
<1>4. OrdersOnce' /\ BeforeFirst'
  BY <1>1 DEF BlockInv, OrdersOnce, BeforeFirst
<1>5. PICK s \in 0 .. PCKT_NO_RANGE - 1 : RecordingFrom(s)
  BY DEF BlockInv
<1>6. RecordingFrom(s)'
  BY <1>1, <1>5 DEF RecordingFrom, Numbered, Contents, FirstFile
<1> QED BY <1>2, <1>3, <1>4, <1>6 DEF BlockInv

------------------------------------------------------------------------------
\* The worker's steps

\* Before it starts nothing is in use or ready, and it takes its window.
LEMMA WorkerStartStep ==
    ASSUME BlockInv, WorkerStart, UNCHANGED fileThreadVars
    PROVE  BlockInv' /\ died' = died
<1>1. BlockTypes /\ BlockHands /\ Published /\ OrdersOnce /\ BeforeFirst
  BY DEF BlockInv
<1>2. /\ wPc = "start" /\ wPc' = "loop" /\ died' = died
      /\ fileOrder' = [b \in FileBuffers |-> IF b \in Window THEN InUse ELSE fileOrder[b]]
      /\ UNCHANGED <<fileData, packetStart, antNumbers, localStruct, next_order,
                     nextStructPacketNo, first_loop_done, wAnts, iK, wSent,
                     fPc, fIn, fOrd, lastOrd, files>>
  BY DEF WorkerStart, WorkerGoto, header, workerLocals, fileThreadVars
<1>3. ~first_loop_done /\ wSent = {} /\ fPc # "have"
      /\ \A i \in Window : localStruct[i].index = i
  BY <1>1, <1>2 DEF BlockHands, BeforeFirst, Published
<1>4. \A b \in FileBuffers : fileOrder[b] = Empty
  BY <1>1, <1>2, <1>3 DEF BlockHands, Published, Working
<1>5. /\ \A b \in FileBuffers : fileOrder'[b] = IF b \in Window THEN InUse ELSE Empty
      /\ fileOrder' \in [FileBuffers -> Int]
  BY <1>2, <1>4 DEF InUse, Empty
<1>6. Unsent' = Window /\ Unsent = Window
  BY <1>2 DEF Unsent
<1>7. BlockTypes'
  BY <1>1, <1>2, <1>5 DEF BlockTypes
<1>8. BlockHands'
  BY <1>2, <1>3, <1>5, <1>6, PoolRanges DEF BlockHands, Working, InUse, Empty
<1>9. Published' /\ OrdersOnce' /\ BeforeFirst'
  BY <1>1, <1>2, <1>3, <1>5, <1>6 DEF Published, OrdersOnce, BeforeFirst
<1>10. PICK s \in 0 .. PCKT_NO_RANGE - 1 : RecordingFrom(s)
  BY DEF BlockInv
<1>11. RecordingFrom(s)'
  BY <1>2, <1>3, <1>5, <1>6, <1>10 DEF RecordingFrom, Numbered, Contents, FirstFile
<1> QED BY <1>2, <1>7, <1>8, <1>9, <1>11 DEF BlockInv

\* A batch is sorted into a window numbered from s, by a table of antennas.
SortsFrom(s, slots, ants) ==
    /\ nextStructPacketNo' = BlockStart(s, next_order)
    /\ \A i \in Window :
         \/ slots[i].packetNo = s + (slots[i].order - 1) * TIME_INT_PER_BUFFER
         \/ slots[i].packetNo = BlockStart(s, slots[i].order)
    /\ antNumbers' = ants
    /\ Len(files) < 2 => packetStart' = s
    /\ \A i \in Unsent : Holds(fileData[localStruct[i].index], localStruct[i].order, s, ants)
    /\ \A b \in FileBuffers : fileOrder[b] \notin {Empty, InUse} =>
         Holds(fileData[b], fileOrder[b], s, ants)
    /\ fPc = "have" => Holds(fileData[fIn], fOrd, s, ants)
    /\ FirstFile(s)'

\* What the first batch fixes, and later ones keep: the packet numbers of the
\* window follow its order numbers from one start s.
LEMMA SortNumbers ==
    ASSUME BlockInv, NEW batch \in Seq(Packets), batch # <<>>, NEW start, NEW ants, NEW slots,
           start = LowestPacket(batch),
           ants = IF first_loop_done THEN wAnts ELSE AntennasOf(batch),
           slots = IF first_loop_done THEN localStruct ELSE FirstWindow(start),
           wAnts' = ants, first_loop_done' = TRUE,
           IF first_loop_done
           THEN UNCHANGED <<packetStart, antNumbers, nextStructPacketNo>>
           ELSE /\ packetStart' = start
                /\ antNumbers' = ants
                /\ nextStructPacketNo' =
                     Masked(start + N_FILE_BUFFERS_AT_A_TIME * TIME_INT_PER_BUFFER),
           UNCHANGED <<lastOrd, files, next_order>>
    PROVE  /\ slots \in [Window -> Slots]
           /\ \A i \in Window : /\ slots[i].index = localStruct[i].index
                                /\ slots[i].order = localStruct[i].order
           /\ packetStart' \in Int /\ nextStructPacketNo' \in Int
           /\ \E s \in 0 .. PCKT_NO_RANGE - 1 : SortsFrom(s, slots, ants)
<1>1. BlockTypes /\ BlockHands /\ Published /\ BeforeFirst
  BY DEF BlockInv
<1>2. CASE first_loop_done
  <2>1. slots = localStruct /\ ants = wAnts /\ wAnts' = wAnts
        /\ UNCHANGED <<packetStart, antNumbers, nextStructPacketNo>>
    BY <1>2
  <2>2. PICK s \in 0 .. PCKT_NO_RANGE - 1 : RecordingFrom(s)
    BY DEF BlockInv
  <2>3. Numbered(s) /\ Contents(s) /\ FirstFile(s)
    BY <2>2 DEF RecordingFrom
  <2>4. FirstFile(s)'
    BY <2>1, <2>3 DEF FirstFile
  <2>5. /\ nextStructPacketNo' = BlockStart(s, next_order)
        /\ \A i \in Window :
             \/ slots[i].packetNo = s + (slots[i].order - 1) * TIME_INT_PER_BUFFER
             \/ slots[i].packetNo = BlockStart(s, slots[i].order)
        /\ antNumbers' = ants
        /\ Len(files) < 2 => packetStart' = s
    BY <1>2, <2>1, <2>3 DEF Numbered
  <2>6. slots \in [Window -> Slots] /\ packetStart' \in Int /\ nextStructPacketNo' \in Int
    BY <1>1, <2>1 DEF BlockTypes
  <2>7. /\ \A i \in Unsent : Holds(fileData[localStruct[i].index], localStruct[i].order, s, ants)
        /\ \A b \in FileBuffers : fileOrder[b] \notin {Empty, InUse} =>
             Holds(fileData[b], fileOrder[b], s, ants)
        /\ fPc = "have" => Holds(fileData[fIn], fOrd, s, ants)
    BY <2>1, <2>3 DEF Contents
  <2> QED BY <2>1, <2>4, <2>5, <2>6, <2>7 DEF SortsFrom
<1>3. CASE ~first_loop_done
  <2>1. /\ packetStart' = start /\ antNumbers' = ants
        /\ nextStructPacketNo' = Masked(start + N_FILE_BUFFERS_AT_A_TIME * TIME_INT_PER_BUFFER)
        /\ slots = [i \in Window |->
                      [localStruct[i] EXCEPT !.packetNo = start + i * TIME_INT_PER_BUFFER]]
    BY <1>3 DEF FirstWindow
  <2>2. start \in 0 .. PCKT_NO_RANGE - 1 /\ start \in Int
    BY LowestInRange
  <2>3. /\ lastOrd = 0 /\ next_order = N_FILE_BUFFERS_AT_A_TIME + 1
        /\ \A i \in Window : localStruct[i].order = i + 1
        /\ \A b \in FileBuffers, c \in Cells : fileData[b][c] = NoData
    BY <1>1, <1>3 DEF BeforeFirst
  <2>4. ASSUME NEW i \in Window
        PROVE  /\ slots[i] \in Slots /\ slots[i].index = localStruct[i].index
               /\ slots[i].order = localStruct[i].order
               /\ slots[i].packetNo = start + (slots[i].order - 1) * TIME_INT_PER_BUFFER
    <3>1. PICK old \in Slots : old = localStruct[i]
      BY <1>1 DEF BlockTypes
    <3>2. PICK n \in Int : n = start + i * TIME_INT_PER_BUFFER
      <4>1. i \in Int /\ TIME_INT_PER_BUFFER \in Int
        BY SizesPositive DEF Window
      <4>2. i * TIME_INT_PER_BUFFER \in Int
        BY <4>1
      <4> QED BY <2>2, <4>2
    <3>3. slots[i] = [old EXCEPT !.packetNo = n]
      BY <2>1, <3>1, <3>2
    <3>4. /\ [old EXCEPT !.packetNo = n] \in Slots
          /\ [old EXCEPT !.packetNo = n].index = old.index
          /\ [old EXCEPT !.packetNo = n].order = old.order
          /\ [old EXCEPT !.packetNo = n].packetNo = n
      BY DEF Slots
    <3>5. slots[i].order - 1 = i
      <4>1. slots[i].order = i + 1
        BY <2>3, <3>1, <3>3, <3>4
      <4>2. i \in Int
        BY DEF Window
      <4> QED BY <4>1, <4>2
    <3> QED BY <3>1, <3>2, <3>3, <3>4, <3>5
  <2>5. slots \in [Window -> Slots]
    BY <2>1, <2>4
  <2>6. nextStructPacketNo' = BlockStart(start, next_order) /\ nextStructPacketNo' \in Int
    <3>1. next_order - 1 = N_FILE_BUFFERS_AT_A_TIME /\ next_order \in Nat \ {0}
      BY <2>3, SizesPositive
    <3>2. nextStructPacketNo' = BlockStart(start, next_order)
      BY <2>1, <3>1 DEF BlockStart
    <3>3. start \in Nat
      BY <2>2
    <3>4. BlockStart(start, next_order) \in 0 .. PCKT_NO_RANGE - 1
      BY <3>1, <3>3, NextStart
    <3> QED BY <3>2, <3>4
  <2>7. \A b \in FileBuffers : \A o : Holds(fileData[b], o, start, ants)
    BY <2>3 DEF Holds
  <2>8. \A i \in Unsent : localStruct[i].index \in FileBuffers
    BY <1>1 DEF BlockTypes, Slots, Unsent
  <2>9. fIn \in FileBuffers
    BY <1>1 DEF BlockTypes
  <2>10. FirstFile(start)'
    <3>1. files = <<>> /\ IsSeq(files)
      BY <2>3 DEF BlockInv, RecordingFrom, FirstFile
    <3> QED BY <2>3, <3>1 DEF FirstFile
  <2>11. SortsFrom(start, slots, ants)
    BY <2>1, <2>4, <2>6, <2>7, <2>8, <2>9, <2>10 DEF SortsFrom
  <2> QED BY <2>1, <2>2, <2>4, <2>5, <2>6, <2>11
<1> QED BY <1>1, <1>2, <1>3 DEF BlockTypes

\* A batch goes into the window's buffers only, each packet to its block.
LEMMA WorkerSortStep ==
    ASSUME BlockInv, UdpTypes, WorkerSort, UNCHANGED fileThreadVars
    PROVE  BlockInv'
<1>1. BlockTypes /\ BlockHands /\ Published /\ OrdersOnce
  BY DEF BlockInv
<1>2. PICK batch \in Seq(Packets) : batch = udpData[indexIn]
  BY DEF UdpTypes
<1>3. PICK start : start = LowestPacket(batch)
  OBVIOUS
<1>4. PICK ants : ants = IF first_loop_done THEN wAnts ELSE AntennasOf(batch)
  OBVIOUS
<1>5. PICK slots : slots = IF first_loop_done THEN localStruct ELSE FirstWindow(start)
  OBVIOUS
<1>6. PICK place : place = Places(ants, slots, batch)
  OBVIOUS
<1>7. /\ wPc = "sort" /\ wPc' = "pass1" /\ batch # <<>> /\ wAnts' = ants
      /\ first_loop_done' = TRUE
      /\ localStruct' = SortedSlots(slots, place)
      /\ fileData' = SortedData(slots, place, batch)
      /\ iK' = 0
      /\ UNCHANGED <<fileOrder, next_order, wSent, fPc, fIn, fOrd, lastOrd, files>>
  BY <1>2, <1>3, <1>4, <1>5, <1>6 DEF WorkerSort, WorkerGoto, fileThreadVars
<1>8. IF first_loop_done
      THEN UNCHANGED <<packetStart, antNumbers, nextStructPacketNo>>
      ELSE /\ packetStart' = start
           /\ antNumbers' = ants
           /\ nextStructPacketNo' =
                Masked(start + N_FILE_BUFFERS_AT_A_TIME * TIME_INT_PER_BUFFER)
  BY <1>2, <1>3, <1>4 DEF WorkerSort
<1>9. /\ slots \in [Window -> Slots]
      /\ \A i \in Window : /\ slots[i].index = localStruct[i].index
                           /\ slots[i].order = localStruct[i].order
      /\ packetStart' \in Int /\ nextStructPacketNo' \in Int
      /\ \E s \in 0 .. PCKT_NO_RANGE - 1 : SortsFrom(s, slots, ants)
  <2>1. UNCHANGED <<lastOrd, files, next_order>> /\ wAnts' = ants /\ first_loop_done' = TRUE
        /\ batch # <<>>
    BY <1>7
  <2> QED BY <1>3, <1>4, <1>5, <1>8, <2>1, SortNumbers
<1>10. PICK s \in 0 .. PCKT_NO_RANGE - 1 : SortsFrom(s, slots, ants)
  BY <1>9
<1>11. /\ fileData' \in [FileBuffers -> BlockCells] /\ localStruct' \in [Window -> Slots]
       /\ \A i \in Window : /\ localStruct'[i].packetNo = slots[i].packetNo
                            /\ localStruct'[i].index = slots[i].index
                            /\ localStruct'[i].order = slots[i].order
  <2>1. fileData \in [FileBuffers -> BlockCells]
    BY <1>1 DEF BlockTypes
  <2>2. /\ SortedData(slots, place, batch) \in [FileBuffers -> BlockCells]
        /\ SortedSlots(slots, place) \in [Window -> Slots]
        /\ \A i \in Window :
             /\ SortedSlots(slots, place)[i].packetNo = slots[i].packetNo
             /\ SortedSlots(slots, place)[i].index = slots[i].index
             /\ SortedSlots(slots, place)[i].order = slots[i].order
    BY <1>6, <1>9, <2>1, SortedTypes
  <2> QED BY <1>7, <2>2
<1>12. \A i \in Window : /\ localStruct'[i].index = localStruct[i].index
                         /\ localStruct'[i].order = localStruct[i].order
  BY <1>9, <1>11
<1>13. Unsent' = Window /\ Unsent = Window /\ Working' /\ Working
  BY <1>7 DEF Unsent, Working
<1>14. BlockTypes'
  BY <1>1, <1>7, <1>9, <1>11 DEF BlockTypes
<1>15. BlockHands'
  BY <1>1, <1>7, <1>12, <1>13 DEF BlockHands
<1>16. Published' /\ BeforeFirst'
  BY <1>1, <1>7 DEF Published, BeforeFirst
<1>17. OrdersOnce'
  <2>1. {localStruct'[i].order : i \in Window} = {localStruct[i].order : i \in Window}
    BY <1>12
  <2> QED BY <1>1, <1>7, <1>12, <1>13, <2>1 DEF OrdersOnce
<1>18. Numbered(s)'
  BY <1>7, <1>10, <1>11 DEF Numbered, SortsFrom
<1>19. ASSUME NEW b \in FileBuffers, NEW o, Holds(fileData[b], o, s, ants),
              \A i \in Window : slots[i].index = b => slots[i].order = o
       PROVE  Holds(fileData'[b], o, s, ants)
  <2>1. s \in Nat
    OBVIOUS
  <2>2. \A i \in Window :
          \/ slots[i].packetNo = s + (slots[i].order - 1) * TIME_INT_PER_BUFFER
          \/ slots[i].packetNo = BlockStart(s, slots[i].order)
    BY <1>10 DEF SortsFrom
  <2> QED BY <1>6, <1>7, <1>9, <1>19, <2>1, <2>2, SortedCells
<1>20. ASSUME NEW i \in Window
       PROVE  Holds(fileData'[localStruct'[i].index], localStruct'[i].order, s, ants)
  <2>1. PICK b \in FileBuffers : b = localStruct[i].index
    BY <1>1 DEF BlockTypes, Slots
  <2>2. \A j \in Window : slots[j].index = b => slots[j].order = localStruct[i].order
    BY <1>1, <1>9, <1>13, <2>1 DEF BlockHands
  <2>3. Holds(fileData[b], localStruct[i].order, s, ants)
    BY <1>10, <1>13, <2>1 DEF SortsFrom
  <2> QED BY <1>12, <1>19, <2>1, <2>2, <2>3
<1>21. ASSUME NEW b \in FileBuffers, fileOrder[b] \notin {Empty, InUse}
       PROVE  Holds(fileData'[b], fileOrder[b], s, ants)
  <2>1. \A j \in Window : slots[j].index # b
    BY <1>1, <1>9, <1>13, <1>21 DEF BlockHands
  <2> QED BY <1>10, <1>19, <1>21, <2>1 DEF SortsFrom
<1>22. ASSUME fPc = "have"
       PROVE  Holds(fileData'[fIn], fOrd, s, ants)
  <2>1. fIn \in FileBuffers /\ \A j \in Window : slots[j].index # fIn
    BY <1>1, <1>9, <1>13, <1>22 DEF BlockHands, BlockTypes
  <2> QED BY <1>10, <1>19, <1>22, <2>1 DEF SortsFrom
<1>23. Contents(s)'
  BY <1>7, <1>13, <1>20, <1>21, <1>22 DEF Contents
<1>24. RecordingFrom(s)'
  BY <1>10, <1>18, <1>23 DEF RecordingFrom, SortsFrom
<1> QED BY <1>14, <1>15, <1>16, <1>17, <1>24 DEF BlockInv

\* A published block leaves the window and is ready under its order number.
LEMMA PublishSteps ==
    ASSUME BlockInv, NEW i \in Window, NEW from \in {"pass1", "pass2"},
           NEW to \in {"refill1", "refill2"}, Publish(i, from, to), UNCHANGED fileThreadVars
    PROVE  BlockInv' /\ died' = died
<1>1. BlockTypes /\ BlockHands /\ Published /\ OrdersOnce /\ BeforeFirst
  BY DEF BlockInv
<1>2. PICK b \in FileBuffers : b = localStruct[i].index
  BY <1>1 DEF BlockTypes, Slots
<1>3. PICK o \in Nat : o = localStruct[i].order
  BY <1>1 DEF BlockTypes, Slots
<1>4. /\ wPc = from /\ wPc' = to /\ ReturnFile(b, o) /\ wSent' = wSent \cup {o} /\ iK' = i
      /\ UNCHANGED <<fileData, packetStart, antNumbers, next_order, nextStructPacketNo,
                     first_loop_done, wAnts, localStruct, fPc, fIn, fOrd, lastOrd, files>>
  BY <1>2, <1>3 DEF Publish, WorkerGoto, header, fileThreadVars
<1>5. Unsent = Window /\ Unsent' = Window \ {i} /\ Working /\ Working'
  BY <1>4 DEF Unsent, Working
<1>6. fileOrder' = [fileOrder EXCEPT ![b] = o] /\ died' = died /\ fileOrder[b] = InUse
  <2>1. fileOrder[b] = InUse
    BY <1>1, <1>2, <1>5 DEF BlockHands
  <2> QED BY <1>4, <2>1 DEF ReturnFile
<1>7. \A c \in FileBuffers : fileOrder'[c] = IF c = b THEN o ELSE fileOrder[c]
  BY <1>1, <1>6 DEF BlockTypes
<1>8. o \in 1 .. next_order - 1 /\ o # InUse /\ o # Empty
  BY <1>1, <1>3, <1>5 DEF OrdersOnce, InUse, Empty
<1>9. BlockTypes'
  <2>1. i \in Nat
    BY SizesPositive DEF Window
  <2>2. fileOrder' \in [FileBuffers -> Int]
    BY <1>1, <1>6 DEF BlockTypes
  <2> QED BY <1>1, <1>4, <2>1, <2>2 DEF BlockTypes
<1>10. first_loop_done
  BY <1>1, <1>4 DEF BeforeFirst
<1>11. BlockHands'
  <2>1. \A j \in Window : j # i => localStruct[j].index # b /\ localStruct[j].index \in FileBuffers
    BY <1>1, <1>2, <1>5 DEF BlockHands, BlockTypes, Slots
  <2>2. \A j, k \in Unsent' : j # k => localStruct[j].index # localStruct[k].index
    BY <1>1, <1>5 DEF BlockHands
  <2>3. \A j \in Unsent' : fileOrder'[localStruct[j].index] = InUse
    BY <1>1, <1>5, <1>7, <2>1 DEF BlockHands
  <2>4. fPc = "have" => /\ fileOrder'[fIn] = InUse
                        /\ \A j \in Unsent' : localStruct[j].index # fIn
    BY <1>1, <1>2, <1>5, <1>7 DEF BlockHands, BlockTypes
  <2>5. ASSUME NEW c \in FileBuffers, fileOrder'[c] = InUse
        PROVE  (\E j \in Unsent' : localStruct[j].index = c) \/ (fPc = "have" /\ fIn = c)
    <3>1. c # b /\ fileOrder[c] = InUse
      BY <1>7, <1>8, <2>5
    <3> QED BY <1>1, <1>2, <1>5, <3>1 DEF BlockHands
  <2> QED BY <1>4, <1>5, <2>2, <2>3, <2>4, <2>5 DEF BlockHands
<1>12. Published' /\ BeforeFirst'
  BY <1>1, <1>4, <1>7, <1>10 DEF Published, BeforeFirst
<1>13. OrdersOnce'
  <2>1. \A j, k \in Unsent' : j # k => localStruct[j].order # localStruct[k].order
    BY <1>1, <1>5 DEF OrdersOnce
  <2>2. wSent' \cap {localStruct[j].order : j \in Unsent'} = {}
    BY <1>1, <1>3, <1>4, <1>5 DEF OrdersOnce
  <2>3. wSent' \cup {localStruct[j].order : j \in Unsent'} = 
        wSent \cup {localStruct[j].order : j \in Unsent}
    BY <1>3, <1>4, <1>5
  <2> QED BY <1>1, <1>4, <2>1, <2>2, <2>3 DEF OrdersOnce
<1>14. PICK s \in 0 .. PCKT_NO_RANGE - 1 : Numbered(s) /\ Contents(s) /\ FirstFile(s)
  BY DEF BlockInv, RecordingFrom
<1>15. Numbered(s)' /\ FirstFile(s)'
  BY <1>4, <1>14 DEF Numbered, FirstFile
<1>16. Contents(s)'
  BY <1>2, <1>3, <1>4, <1>5, <1>7, <1>14 DEF Contents
<1> QED BY <1>6, <1>9, <1>11, <1>12, <1>13, <1>15, <1>16 DEF BlockInv, RecordingFrom

\* A refilled position gets an empty buffer, zeroed, and the next numbers.
LEMMA RefillSteps ==
    ASSUME BlockInv, NEW from \in {"refill1", "refill2"}, NEW to \in {"pass1", "pass2"},
           Refill(from, to), UNCHANGED fileThreadVars
    PROVE  BlockInv' /\ died' = died
<1>1. BlockTypes /\ BlockHands /\ Published /\ OrdersOnce /\ BeforeFirst
  BY DEF BlockInv
<1>2. PICK b \in FileBuffers : b = findEmpty(fileOrder) /\ fileOrder[b] = Empty
  <2>1. fileOrder \in [0 .. N_FILE_BUFFERS - 1 -> Int]
    BY <1>1 DEF BlockTypes, FileBuffers
  <2> QED BY <2>1, PoolRanges, FindEmptyResult DEF Refill, FileBuffers
<1>3. PICK zero : zero = [c \in Cells |-> NoData]
  OBVIOUS
<1>4. PICK new : new = [packetNo |-> nextStructPacketNo, index |-> b,
                        order |-> next_order, nToFull |-> packetsPerBlock]
  OBVIOUS
<1>5. /\ wPc = from /\ wPc' = to /\ died' = died
      /\ fileOrder' = [fileOrder EXCEPT ![b] = InUse]
      /\ fileData' = [fileData EXCEPT ![b] = zero]
      /\ localStruct' = [localStruct EXCEPT ![iK] = new]
      /\ next_order' = next_order + 1 /\ nextStructPacketNo' = NextPacketNo /\ iK' = iK + 1
      /\ UNCHANGED <<packetStart, antNumbers, first_loop_done, wAnts, wSent,
                     fPc, fIn, fOrd, lastOrd, files>>
  BY <1>2, <1>3, <1>4 DEF Refill, WorkerGoto, Cleared, NewSlot, header, fileThreadVars
<1>6. /\ iK \in Window /\ iK \in Nat /\ next_order \in Nat \ {0} /\ nextStructPacketNo \in Int
      /\ first_loop_done
  BY <1>1, <1>5 DEF BlockTypes, BeforeFirst
<1>7. /\ new \in Slots /\ new.packetNo = nextStructPacketNo /\ new.index = b
      /\ new.order = next_order
  <2>1. packetsPerBlock \in Int
    <3>1. nAnts * nchans \in Int
      BY Geometry
    <3> QED BY <3>1, Geometry DEF packetsPerBlock
  <2> QED BY <1>4, <1>6, <2>1 DEF Slots
<1>8. zero \in BlockCells /\ \A c \in Cells : zero[c] = NoData
  BY <1>3 DEF BlockCells
<1>9. /\ \A c \in FileBuffers : /\ fileOrder'[c] = IF c = b THEN InUse ELSE fileOrder[c]
                                /\ fileData'[c] = IF c = b THEN zero ELSE fileData[c]
      /\ \A j \in Window : localStruct'[j] = IF j = iK THEN new ELSE localStruct[j]
  BY <1>1, <1>5 DEF BlockTypes
<1>10. Unsent = Window \ {iK} /\ Unsent' = Window /\ Working /\ Working'
  BY <1>5 DEF Unsent, Working
<1>11. PICK s \in 0 .. PCKT_NO_RANGE - 1 : Numbered(s) /\ Contents(s) /\ FirstFile(s)
  BY DEF BlockInv, RecordingFrom
<1>12. nextStructPacketNo = BlockStart(s, next_order)
       /\ nextStructPacketNo' = BlockStart(s, next_order') /\ nextStructPacketNo' \in Int
  <2>1. nextStructPacketNo = BlockStart(s, next_order)
    BY <1>6, <1>11 DEF Numbered
  <2>2. s \in Nat /\ next_order + 1 \in Nat \ {0}
    BY <1>6
  <2>3. /\ Masked(BlockStart(s, next_order) + TIME_INT_PER_BUFFER) = BlockStart(s, next_order + 1)
        /\ BlockStart(s, next_order + 1) \in 0 .. PCKT_NO_RANGE - 1
    BY <1>6, <2>2, NextStart
  <2>4. BlockStart(s, next_order + 1) \in Int
    BY <2>3
  <2> QED BY <1>5, <2>1, <2>3, <2>4 DEF NextPacketNo
<1>13. BlockTypes'
  <2>1. /\ fileOrder' \in [FileBuffers -> Int] /\ fileData' \in [FileBuffers -> BlockCells]
        /\ localStruct' \in [Window -> Slots]
    <3>1. InUse \in Int
      BY DEF InUse
    <3> QED BY <1>1, <1>5, <1>7, <1>8, <3>1 DEF BlockTypes
  <2>2. iK' \in Nat /\ next_order' \in Nat \ {0}
    BY <1>5, <1>6
  <2> QED BY <1>1, <1>5, <1>12, <2>1, <2>2 DEF BlockTypes
<1>14. \A j \in Window \ {iK} : /\ localStruct[j].index # b /\ localStruct[j].index \in FileBuffers
                                /\ fileOrder[localStruct[j].index] = InUse
  BY <1>1, <1>2, <1>10 DEF BlockHands, BlockTypes, Slots, Empty, InUse
<1>15. fPc = "have" => fIn # b /\ fIn \in FileBuffers
  BY <1>1, <1>2 DEF BlockHands, BlockTypes, Empty, InUse
<1>16. BlockHands'
  <2>1. \A j, k \in Window : j # k => localStruct'[j].index # localStruct'[k].index
    BY <1>1, <1>7, <1>9, <1>10, <1>14 DEF BlockHands
  <2>2. \A j \in Window : fileOrder'[localStruct'[j].index] = InUse
    BY <1>7, <1>9, <1>14
  <2>3. fPc = "have" => /\ fileOrder'[fIn] = InUse
                        /\ \A j \in Window : localStruct'[j].index # fIn
    BY <1>1, <1>7, <1>9, <1>10, <1>15 DEF BlockHands
  <2>4. ASSUME NEW c \in FileBuffers, fileOrder'[c] = InUse
        PROVE  (\E j \in Window : localStruct'[j].index = c) \/ (fPc = "have" /\ fIn = c)
    <3>1. CASE c = b
      BY <1>6, <1>7, <1>9, <3>1
    <3>2. CASE c # b
      BY <1>1, <1>9, <1>10, <2>4, <3>2 DEF BlockHands
    <3> QED BY <3>1, <3>2
  <2> QED BY <1>5, <1>10, <2>1, <2>2, <2>3, <2>4 DEF BlockHands
<1>17. Published' /\ BeforeFirst'
  BY <1>1, <1>5, <1>6, <1>9 DEF Published, BeforeFirst
<1>18. OrdersOnce'
  <2>1. \A j \in Window \ {iK} : localStruct[j].order \in 1 .. next_order - 1
    BY <1>1, <1>10 DEF OrdersOnce
  <2>2. \A x \in wSent : x \in 1 .. next_order - 1
    BY <1>1 DEF OrdersOnce
  <2>3. \A j, k \in Window : j # k => localStruct'[j].order # localStruct'[k].order
    <3>1. \A j, k \in Window \ {iK} : j # k => localStruct[j].order # localStruct[k].order
      BY <1>1, <1>10 DEF OrdersOnce
    <3>2. \A j \in Window \ {iK} : localStruct[j].order # next_order
      BY <1>6, <2>1
    <3> QED BY <1>7, <1>9, <3>1, <3>2
  <2>4. PICK old : old = {localStruct[j].order : j \in Window \ {iK}}
    OBVIOUS
  <2>5. {localStruct'[j].order : j \in Window} = old \cup {next_order}
    BY <1>6, <1>7, <1>9, <2>4
  <2>6. wSent \cap old = {} /\ wSent \cup old = 1 .. next_order - 1
    BY <1>1, <1>10, <2>4 DEF OrdersOnce
  <2>7. next_order \notin wSent
    BY <1>6, <2>2
  <2>8. 1 .. next_order' - 1 = (1 .. next_order - 1) \cup {next_order}
    BY <1>5, <1>6
  <2> QED BY <1>5, <1>10, <2>3, <2>5, <2>6, <2>7, <2>8 DEF OrdersOnce
<1>19. Numbered(s)'
  <2>1. \A j \in Window :
          \/ localStruct'[j].packetNo = s + (localStruct'[j].order - 1) * TIME_INT_PER_BUFFER
          \/ localStruct'[j].packetNo = BlockStart(s, localStruct'[j].order)
    BY <1>6, <1>7, <1>9, <1>11, <1>12 DEF Numbered
  <2> QED BY <1>5, <1>6, <1>11, <1>12, <2>1 DEF Numbered
<1>20. Contents(s)'
  <2>1. \A o : Holds(zero, o, s, wAnts)
    BY <1>8 DEF Holds
  <2>2. ASSUME NEW j \in Window
        PROVE  Holds(fileData'[localStruct'[j].index], localStruct'[j].order, s, wAnts)
    BY <1>7, <1>9, <1>10, <1>11, <1>14, <2>1 DEF Contents
  <2>3. ASSUME NEW c \in FileBuffers, fileOrder'[c] \notin {Empty, InUse}
        PROVE  Holds(fileData'[c], fileOrder'[c], s, wAnts)
    BY <1>9, <1>11, <2>3 DEF Contents
  <2>4. fPc = "have" => Holds(fileData'[fIn], fOrd, s, wAnts)
    BY <1>9, <1>11, <1>15 DEF Contents
  <2> QED BY <1>5, <1>10, <2>2, <2>3, <2>4 DEF Contents
<1>21. FirstFile(s)'
  BY <1>5, <1>11 DEF FirstFile
<1> QED BY <1>5, <1>13, <1>16, <1>17, <1>18, <1>19, <1>20, <1>21 DEF BlockInv, RecordingFrom

\* At the end the window's buffers go back as empty ones.
LEMMA WorkerExitStep ==
    ASSUME BlockInv, WorkerExit, UNCHANGED fileThreadVars
    PROVE  BlockInv' /\ died' = died
<1>1. BlockTypes /\ BlockHands /\ Published /\ OrdersOnce /\ BeforeFirst
  BY DEF BlockInv
<1>2. PICK mine : mine = {localStruct[i].index : i \in Window}
  OBVIOUS
<1>3. /\ wPc = "exit" /\ wPc' = "done"
      /\ IF \E b \in mine : fileOrder[b] # InUse
         THEN died' = "integrity" /\ UNCHANGED fileOrder
         ELSE /\ fileOrder' = [b \in FileBuffers |-> IF b \in mine THEN Empty ELSE fileOrder[b]]
              /\ UNCHANGED died
      /\ UNCHANGED <<fileData, packetStart, antNumbers, localStruct, next_order,
                     nextStructPacketNo, first_loop_done, wAnts, iK, wSent,
                     fPc, fIn, fOrd, lastOrd, files>>
  BY <1>2 DEF WorkerExit, WorkerGoto, header, workerLocals, fileThreadVars
<1>4. Unsent' = Window /\ Unsent = Window /\ Working /\ ~Working'
  BY <1>3 DEF Unsent, Working
<1>5. \A b \in mine : fileOrder[b] = InUse
  BY <1>1, <1>2, <1>4 DEF BlockHands
<1>6. /\ died' = died
      /\ fileOrder' = [b \in FileBuffers |-> IF b \in mine THEN Empty ELSE fileOrder[b]]
  BY <1>3, <1>5
<1>7. /\ \A b \in FileBuffers : fileOrder'[b] = IF b \in mine THEN Empty ELSE fileOrder[b]
      /\ fileOrder' \in [FileBuffers -> Int]
  BY <1>1, <1>6 DEF BlockTypes, Empty
<1>8. BlockTypes'
  BY <1>1, <1>3, <1>7 DEF BlockTypes
<1>9. BlockHands'
  <2>1. fPc = "have" => fIn \notin mine /\ fIn \in FileBuffers /\ fileOrder[fIn] = InUse
    BY <1>1, <1>2, <1>4 DEF BlockHands, BlockTypes
  <2>2. ASSUME NEW b \in FileBuffers, fileOrder'[b] = InUse
        PROVE  fPc = "have" /\ fIn = b
    <3>1. b \notin mine /\ fileOrder[b] = InUse
      BY <1>7, <2>2 DEF Empty, InUse
    <3> QED BY <1>1, <1>2, <1>4, <3>1 DEF BlockHands
  <2>3. \A i, j \in Window : i # j => localStruct[i].index # localStruct[j].index
    BY <1>1, <1>4 DEF BlockHands
  <2> QED BY <1>3, <1>4, <1>7, <2>1, <2>2, <2>3 DEF BlockHands
<1>10. Published' /\ BeforeFirst'
  BY <1>1, <1>3, <1>7 DEF Published, BeforeFirst
<1>11. OrdersOnce'
  BY <1>1, <1>3, <1>4 DEF OrdersOnce
<1>12. PICK s \in 0 .. PCKT_NO_RANGE - 1 : Numbered(s) /\ Contents(s) /\ FirstFile(s)
  BY DEF BlockInv, RecordingFrom
<1>13. Numbered(s)' /\ FirstFile(s)'
  BY <1>3, <1>12 DEF Numbered, FirstFile
<1>14. Contents(s)'
  BY <1>3, <1>4, <1>7, <1>12 DEF Contents
<1> QED BY <1>6, <1>8, <1>9, <1>10, <1>11, <1>13, <1>14 DEF BlockInv, RecordingFrom

------------------------------------------------------------------------------
\* The file thread's steps

LEMMA SeqAppend ==
    ASSUME NEW x, IsSeq(x), NEW e
    PROVE  /\ IsSeq(Append(x, e)) /\ Append(x, e) # <<>>
           /\ Len(x) \in Nat /\ Len(Append(x, e)) = Len(x) + 1
           /\ Append(x, e)[Len(x) + 1] = e
           /\ \A k \in 1 .. Len(x) : Append(x, e)[k] = x[k]
<1>1. PICK S : x \in Seq(S)
  BY DEF IsSeq
<1>2. PICK U : U = S \cup {e}
  OBVIOUS
<1>3. x \in Seq(U) /\ e \in U
  <2>1. x \in [1 .. Len(x) -> S] /\ Len(x) \in Nat
    BY <1>1
  <2>2. x \in [1 .. Len(x) -> U]
    BY <1>2, <2>1
  <2> QED BY <1>2, <2>1, <2>2
<1>4. Append(x, e) \in Seq(U)
  BY <1>3
<1>5. IsSeq(Append(x, e))
  BY <1>4 DEF IsSeq
<1> QED BY <1>3, <1>5

\* fetchBuffer hands the file thread a block that was ready.
LEMMA FileFetchStep ==
    ASSUME BlockInv, OrdersFit, FileFetch, UNCHANGED workerVars
    PROVE  BlockInv' /\ died' = died
<1>1. BlockTypes /\ BlockHands /\ Published /\ OrdersOnce /\ BeforeFirst
  BY DEF BlockInv
<1>2. PICK b \in FileBuffers : b = findLowest(fileOrder, INT_MAX) /\ fileOrder[b] > 0
  <2>1. fileOrder \in [0 .. N_FILE_BUFFERS - 1 -> Int] /\ DOMAIN fileOrder = FileBuffers
    BY <1>1 DEF BlockTypes, FileBuffers
  <2>2. PICK c \in FileBuffers : fileOrder[c] > 0
    BY <2>1 DEF FileFetch, Ready
  <2>3. fileOrder[c] \in wSent
    BY <1>1, <2>2 DEF Published, Empty, InUse
  <2>4. fileOrder[c] \in 1 .. next_order - 1
    BY <1>1, <2>3 DEF OrdersOnce
  <2>5. fileOrder[c] < INT_MAX
    <3>1. next_order \in Int
      BY <1>1 DEF BlockTypes
    <3> QED BY <2>4, <3>1, PoolRanges DEF OrdersFit
  <2>6. ReadyBelow(fileOrder, INT_MAX) # {}
    BY <2>1, <2>2, <2>5 DEF ReadyBelow
  <2>7. findLowest(fileOrder, INT_MAX) \in ReadyBelow(fileOrder, INT_MAX)
    BY <2>1, <2>6, PoolRanges, FindLowestResult
  <2> QED BY <2>1, <2>7 DEF ReadyBelow
<1>3. /\ fPc = "fetch" /\ fPc' = "have" /\ fIn' = b /\ fOrd' = fileOrder[b] /\ died' = died
      /\ fileOrder' = [fileOrder EXCEPT ![b] = InUse]
      /\ UNCHANGED <<fileData, packetStart, antNumbers, wPc, localStruct, next_order,
                     nextStructPacketNo, first_loop_done, wAnts, iK, wSent, lastOrd, files>>
  BY <1>2 DEF FileFetch, FileGoto, header, workerVars
<1>4. \A c \in FileBuffers : fileOrder'[c] = IF c = b THEN InUse ELSE fileOrder[c]
  BY <1>1, <1>3 DEF BlockTypes
<1>5. fileOrder[b] \notin {Empty, InUse} /\ fileOrder[b] \in Nat
  BY <1>1, <1>2 DEF BlockTypes, Empty, InUse
<1>6. Unsent' = Unsent /\ Working' = Working /\ \A i \in Unsent : i \in Window
  BY <1>3 DEF Unsent, Working
<1>7. BlockTypes'
  <2>1. InUse \in Int
    BY DEF InUse
  <2> QED BY <1>1, <1>3, <1>5, <2>1 DEF BlockTypes
<1>8. BlockHands'
  <2>1. \A i \in Unsent : localStruct[i].index \in FileBuffers
    BY <1>1, <1>6 DEF BlockTypes, Slots
  <2>2. Working => \A i \in Unsent : localStruct[i].index # b
    BY <1>1, <1>5 DEF BlockHands
  <2>3. \A c \in FileBuffers : fileOrder'[c] = InUse =>
          \/ Working /\ \E i \in Unsent : localStruct[i].index = c
          \/ c = b
    BY <1>1, <1>3, <1>4 DEF BlockHands
  <2> QED BY <1>1, <1>3, <1>4, <1>6, <2>1, <2>2, <2>3 DEF BlockHands
<1>9. Published' /\ BeforeFirst' /\ OrdersOnce'
  BY <1>1, <1>3, <1>4, <1>5, <1>6 DEF Published, BeforeFirst, OrdersOnce
<1>10. PICK s \in 0 .. PCKT_NO_RANGE - 1 : Numbered(s) /\ Contents(s) /\ FirstFile(s)
  BY DEF BlockInv, RecordingFrom
<1>11. Numbered(s)' /\ FirstFile(s)'
  BY <1>3, <1>10 DEF Numbered, FirstFile
<1>12. Contents(s)'
  BY <1>3, <1>4, <1>5, <1>6, <1>10 DEF Contents
<1> QED BY <1>3, <1>7, <1>8, <1>9, <1>11, <1>12 DEF BlockInv, RecordingFrom

\* What the file thread gives back was its own; the block is in the pool again
\* or its buffer is empty.
LEMMA FileGivesBack ==
    ASSUME BlockInv, fPc = "have", fPc' = "loop", NEW v \in {Empty, fOrd}, ReturnFile(fIn, v),
           packetStart' \in Int, lastOrd' \in Nat,
           UNCHANGED <<fileData, antNumbers, workerVars, fIn, fOrd>>
    PROVE  /\ BlockTypes' /\ BlockHands' /\ Published' /\ OrdersOnce' /\ BeforeFirst'
           /\ first_loop_done /\ died' = died
           /\ \A s \in 0 .. PCKT_NO_RANGE - 1 : Contents(s) => Contents(s)'
<1>1. BlockTypes /\ BlockHands /\ Published /\ OrdersOnce /\ BeforeFirst
  BY DEF BlockInv
<1>2. fIn \in FileBuffers /\ fileOrder[fIn] = InUse /\ fOrd \in wSent
  BY <1>1 DEF BlockTypes, BlockHands, Published
<1>3. fileOrder' = [fileOrder EXCEPT ![fIn] = v] /\ died' = died
  BY <1>2 DEF ReturnFile
<1>4. /\ fOrd \in Nat \ {0} /\ v # InUse /\ v \in Int /\ (v # Empty => v = fOrd)
      /\ first_loop_done
  <2>1. fOrd \in 1 .. next_order - 1
    BY <1>1, <1>2 DEF OrdersOnce
  <2> QED BY <1>1, <1>2, <2>1 DEF BeforeFirst, Empty, InUse
<1>5. \A c \in FileBuffers : fileOrder'[c] = IF c = fIn THEN v ELSE fileOrder[c]
  BY <1>1, <1>3 DEF BlockTypes
<1>6. /\ Unsent' = Unsent /\ Working' = Working /\ \A i \in Unsent : i \in Window
      /\ UNCHANGED <<wPc, localStruct, next_order, nextStructPacketNo, first_loop_done,
                     wAnts, iK, wSent>>
  BY DEF Unsent, Working, workerVars
<1>7. BlockTypes'
  BY <1>1, <1>3, <1>4, <1>6 DEF BlockTypes
<1>8. BlockHands'
  <2>1. \A i \in Unsent : localStruct[i].index \in FileBuffers
    BY <1>1, <1>6 DEF BlockTypes, Slots
  <2>2. Working => \A i \in Unsent : fileOrder'[localStruct[i].index] = InUse
    BY <1>1, <1>5, <2>1 DEF BlockHands
  <2>3. ASSUME NEW c \in FileBuffers, fileOrder'[c] = InUse
        PROVE  Working /\ \E i \in Unsent : localStruct[i].index = c
    <3>1. c # fIn /\ fileOrder[c] = InUse
      BY <1>4, <1>5, <2>3
    <3> QED BY <1>1, <3>1 DEF BlockHands
  <2> QED BY <1>1, <1>6, <2>2, <2>3 DEF BlockHands
<1>9. Published'
  BY <1>1, <1>2, <1>4, <1>5, <1>6 DEF Published
<1>10. BeforeFirst' /\ OrdersOnce'
  BY <1>1, <1>4, <1>6 DEF BeforeFirst, OrdersOnce
<1>11. ASSUME NEW s \in 0 .. PCKT_NO_RANGE - 1, Contents(s)
       PROVE  Contents(s)'
  BY <1>2, <1>4, <1>5, <1>6, <1>11 DEF Contents
<1> QED BY <1>3, <1>4, <1>7, <1>8, <1>9, <1>10, <1>11

LEMMA FileReturnSteps ==
    ASSUME BlockInv, FileDiscard \/ FilePutBack, UNCHANGED workerVars
    PROVE  BlockInv' /\ died' = died
<1>1. /\ fPc = "have" /\ fPc' = "loop"
      /\ UNCHANGED <<fileData, packetStart, antNumbers, fIn, fOrd, lastOrd, files>>
  BY DEF FileDiscard, FilePutBack, FileGoto, header
<1>2. PICK v \in {Empty, fOrd} : ReturnFile(fIn, v)
  BY DEF FileDiscard, FilePutBack
<1>3. packetStart' \in Int /\ lastOrd' \in Nat
  BY <1>1 DEF BlockInv, BlockTypes
<1>4. /\ BlockTypes' /\ BlockHands' /\ Published' /\ OrdersOnce' /\ BeforeFirst'
      /\ died' = died
      /\ \A s \in 0 .. PCKT_NO_RANGE - 1 : Contents(s) => Contents(s)'
  BY <1>1, <1>2, <1>3, FileGivesBack
<1>5. PICK s \in 0 .. PCKT_NO_RANGE - 1 : Numbered(s) /\ Contents(s) /\ FirstFile(s)
  BY DEF BlockInv, RecordingFrom
<1>6. Numbered(s)' /\ FirstFile(s)'
  BY <1>1, <1>5 DEF Numbered, FirstFile, workerVars
<1> QED BY <1>4, <1>5, <1>6 DEF BlockInv, RecordingFrom

\* A block that is written is the one expected, or begins a later file.
LEMMA FileWriteSteps ==
    ASSUME BlockInv, FileWrite \/ FileNewFile, UNCHANGED workerVars
    PROVE  BlockInv' /\ died' = died
<1>1. BlockTypes /\ Published /\ OrdersOnce
  BY DEF BlockInv
<1>2. /\ fPc = "have" /\ fPc' = "loop" /\ ReturnFile(fIn, Empty) /\ lastOrd' = fOrd
      /\ UNCHANGED <<fileData, antNumbers, fIn, fOrd>>
  BY DEF FileWrite, FileNewFile, FileGoto, header
<1>3. fOrd \in Nat \ {0} /\ lastOrd \in Nat /\ packetStart \in Int /\ fIn \in FileBuffers
  <2>1. fOrd \in 1 .. next_order - 1
    BY <1>1, <1>2 DEF Published, OrdersOnce
  <2> QED BY <1>1, <2>1 DEF BlockTypes
<1>4. packetStart' \in Int
  <2>1. fOrd * TIME_INT_PER_BUFFER \in Int
    BY <1>3, SizesPositive
  <2> QED BY <1>3, <2>1 DEF FileWrite, FileNewFile, header
<1>5. /\ BlockTypes' /\ BlockHands' /\ Published' /\ OrdersOnce' /\ BeforeFirst'
      /\ first_loop_done /\ died' = died
      /\ \A s \in 0 .. PCKT_NO_RANGE - 1 : Contents(s) => Contents(s)'
  <2>1. Empty \in {Empty, fOrd} /\ lastOrd' \in Nat
    BY <1>2, <1>3
  <2> QED BY <1>2, <1>4, <2>1, FileGivesBack
<1>6. PICK s \in 0 .. PCKT_NO_RANGE - 1 : Numbered(s) /\ Contents(s) /\ FirstFile(s)
  BY DEF BlockInv, RecordingFrom
<1>7. ASSUME Len(files') < 2 => packetStart' = s
      PROVE  Numbered(s)'
  BY <1>2, <1>3, <1>5, <1>6, <1>7 DEF Numbered, workerVars
<1>8. PICK blk : /\ blk = [order |-> fOrd, cells |-> fileData[fIn]]
                 /\ Holds(blk.cells, fOrd, s, wAnts)
  <2>1. PICK blk : blk = [order |-> fOrd, cells |-> fileData[fIn]]
    OBVIOUS
  <2>2. blk.cells = fileData[fIn]
    BY <2>1
  <2>3. Holds(fileData[fIn], fOrd, s, wAnts)
    BY <1>2, <1>6 DEF Contents
  <2>4. Holds(blk.cells, fOrd, s, wAnts)
    BY <2>2, <2>3
  <2> QED BY <2>1, <2>4
<1>9. wAnts' = wAnts /\ antNumbers = wAnts /\ IsSeq(files)
      /\ (Len(files) < 2 => packetStart = s)
      /\ (lastOrd = 0 => files = <<>> /\ Len(files) = 0)
  BY <1>5, <1>6 DEF workerVars, Numbered, FirstFile
<1>10. CASE FileWrite /\ lastOrd = 0
  <2>1. PICK new : new = [packetStart |-> s, ants |-> wAnts, blocks |-> <<blk>>]
    OBVIOUS
  <2>2. files' = <<new>> /\ fOrd = 1
    BY <1>3, <1>8, <1>9, <1>10, <2>1 DEF FileWrite, Block, Expected
  <2>3. /\ IsSeq(<<new>>) /\ <<new>> # <<>> /\ <<new>>[1] = new
        /\ IsSeq(<<blk>>) /\ Len(<<blk>>) = 1 /\ <<blk>>[1] = blk
    <3>1. <<new>> \in Seq({new}) /\ <<blk>> \in Seq({blk})
      OBVIOUS
    <3> QED BY <3>1 DEF IsSeq
  <2>4. \A k \in 1 .. Len(<<blk>>) : k = 1
    BY <2>3
  <2>5. FirstFile(s)'
    BY <1>2, <1>3, <1>8, <1>9, <2>1, <2>2, <2>3, <2>4 DEF FirstFile
  <2>6. packetStart' = s
    BY <1>9, <1>10 DEF FileWrite, header
  <2> QED BY <1>5, <1>6, <1>7, <2>5, <2>6 DEF BlockInv, RecordingFrom
<1>11. ASSUME lastOrd # 0
       PROVE  /\ files # <<>> /\ Len(files) \in Nat \ {0}
              /\ \E blocks : /\ files[1] = [packetStart |-> s, ants |-> wAnts, blocks |-> blocks]
                             /\ IsSeq(blocks)
                             /\ \A k \in 1 .. Len(blocks) : Holds(blocks[k].cells, k, s, wAnts)
                             /\ Len(files) = 1 => Len(blocks) = lastOrd
  <2>1. files # <<>>
    BY <1>6, <1>11 DEF FirstFile
  <2>2. Len(files) \in Nat \ {0}
    <3>1. PICK S : files \in Seq(S)
      BY <1>9 DEF IsSeq
    <3> QED BY <2>1, <3>1
  <2> QED BY <1>6, <2>1, <2>2 DEF FirstFile
<1>12. CASE FileWrite /\ lastOrd # 0
  <2>1. PICK blocks : /\ files[1] = [packetStart |-> s, ants |-> wAnts, blocks |-> blocks]
                      /\ IsSeq(blocks)
                      /\ \A k \in 1 .. Len(blocks) : Holds(blocks[k].cells, k, s, wAnts)
                      /\ Len(files) = 1 => Len(blocks) = lastOrd
    BY <1>11, <1>12
  <2>2. PICK L \in Nat \ {0} : L = Len(files)
    BY <1>11, <1>12
  <2>3. PICK last : last = [files[L] EXCEPT !.blocks = Append(@, blk)]
    OBVIOUS
  <2>4. files' = [files EXCEPT ![L] = last] /\ fOrd = lastOrd + 1
    BY <1>8, <1>12, <2>2, <2>3 DEF FileWrite, Block, Expected
  <2>5. /\ IsSeq(files') /\ Len(files') = L /\ files' # <<>>
        /\ files'[1] = IF L = 1 THEN last ELSE files[1]
    <3>1. PICK S : files \in Seq(S)
      BY <1>9 DEF IsSeq
    <3>2. PICK U : U = S \cup {last}
      OBVIOUS
    <3>3. files \in [1 .. L -> S]
      BY <2>2, <3>1
    <3>4. files' \in [1 .. L -> U] /\ files'[1] = IF L = 1 THEN last ELSE files[1]
      BY <2>4, <3>2, <3>3
    <3>5. files' \in Seq(U) /\ Len(files') = L
      BY <2>2, <3>4
    <3> QED BY <3>4, <3>5 DEF IsSeq
  <2>6. Numbered(s)'
    <3>1. packetStart' = packetStart
      BY <1>12 DEF FileWrite, header
    <3> QED BY <1>7, <1>9, <2>2, <2>5, <3>1
  <2>7. CASE L = 1
    <3>1. PICK more : more = Append(blocks, blk)
      OBVIOUS
    <3>2. /\ IsSeq(more) /\ Len(blocks) \in Nat /\ Len(more) = Len(blocks) + 1
          /\ more[Len(blocks) + 1] = blk
          /\ \A k \in 1 .. Len(blocks) : more[k] = blocks[k]
      BY <2>1, <3>1, SeqAppend
    <3>3. last = [packetStart |-> s, ants |-> wAnts, blocks |-> more]
      <4>1. PICK r : r = files[1] /\ r = [packetStart |-> s, ants |-> wAnts, blocks |-> blocks]
        BY <2>1
      <4>2. r.blocks = blocks
        BY <4>1
      <4>3. last = [r EXCEPT !.blocks = more]
        BY <2>3, <2>7, <3>1, <4>1, <4>2
      <4> QED BY <4>1, <4>3
    <3>4. Len(blocks) + 1 = fOrd
      BY <2>1, <2>2, <2>4, <2>7
    <3>5. \A k \in 1 .. Len(more) : Holds(more[k].cells, k, s, wAnts)
      <4>1. \A k \in 1 .. Len(more) : k \in 1 .. Len(blocks) \/ k = Len(blocks) + 1
        BY <3>2
      <4> QED BY <1>8, <2>1, <3>2, <3>4, <4>1
    <3>6. FirstFile(s)'
      BY <1>2, <1>3, <1>9, <2>5, <2>7, <3>2, <3>3, <3>4, <3>5 DEF FirstFile
    <3> QED BY <1>5, <1>6, <2>6, <3>6 DEF BlockInv, RecordingFrom
  <2>8. CASE L # 1
    <3>1. FirstFile(s)'
      BY <1>2, <1>3, <1>9, <2>1, <2>5, <2>8 DEF FirstFile
    <3> QED BY <1>5, <1>6, <2>6, <3>1 DEF BlockInv, RecordingFrom
  <2> QED BY <2>7, <2>8
<1>13. CASE FileNewFile
  <2>1. lastOrd # 0
    BY <1>13 DEF FileNewFile, GiveUpGap
  <2>2. PICK blocks : /\ files[1] = [packetStart |-> s, ants |-> wAnts, blocks |-> blocks]
                      /\ IsSeq(blocks)
                      /\ \A k \in 1 .. Len(blocks) : Holds(blocks[k].cells, k, s, wAnts)
    BY <1>11, <2>1
  <2>3. PICK new : files' = Append(files, new)
    BY <1>13 DEF FileNewFile
  <2>4. /\ IsSeq(files') /\ files' # <<>> /\ Len(files') = Len(files) + 1
        /\ \A k \in 1 .. Len(files) : files'[k] = files[k]
    BY <1>9, <2>3, SeqAppend
  <2>5. Len(files') # 1 /\ ~(Len(files') < 2) /\ files'[1] = files[1]
    BY <1>11, <2>1, <2>4
  <2>6. FirstFile(s)'
    BY <1>2, <1>3, <1>9, <2>2, <2>4, <2>5 DEF FirstFile
  <2>7. Numbered(s)'
    BY <1>7, <2>5
  <2> QED BY <1>5, <1>6, <2>6, <2>7 DEF BlockInv, RecordingFrom
<1> QED BY <1>10, <1>12, <1>13

------------------------------------------------------------------------------
\* The recorder

LEMMA RecorderInit == Init => RecorderInv
<1> SUFFICES ASSUME Init PROVE RecorderInv
  OBVIOUS
<1> USE DEF Init, SharedInit, UdpInit, WorkerInit, FileInit
<1>1. PICK zero \in BlockCells : zero = [c \in Cells |-> NoData]
  BY DEF BlockCells
<1>2. UdpTypes
  <2>1. <<>> \in Seq(Packets) /\ Empty \in Int
    BY DEF Empty
  <2> QED BY <2>1, PoolRanges, ReceiverAssumption DEF UdpTypes
<1>3. UdpHands
  BY DEF UdpHands, UdpHas, SorterHas, Empty, InUse
<1>4. ASSUME NEW i \in Window
      PROVE  /\ localStruct[i] \in Slots /\ localStruct[i].index = i
             /\ localStruct[i].order = i + 1
  <2>1. packetsPerBlock \in Int
    <3>1. nAnts * nchans \in Int
      BY Geometry
    <3> QED BY <3>1, Geometry DEF packetsPerBlock
  <2>2. i \in FileBuffers /\ i + 1 \in Nat /\ -1 \in Int
    BY PoolRanges DEF Window
  <2>3. localStruct[i] = [packetNo |-> -1, index |-> i, order |-> i + 1,
                          nToFull |-> packetsPerBlock]
    OBVIOUS
  <2> QED BY <2>1, <2>2, <2>3 DEF Slots
<1>5. Unsent = Window /\ ~Working
  BY DEF Unsent, Working
<1>6. BlockTypes
  <2>1. localStruct \in [Window -> Slots]
    <3>1. localStruct = [i \in Window |-> localStruct[i]]
      OBVIOUS
    <3> QED BY <1>4, <3>1
  <2>2. fileOrder \in [FileBuffers -> Int] /\ fileData \in [FileBuffers -> BlockCells]
    BY <1>1 DEF Empty
  <2>3. /\ next_order \in Nat \ {0} /\ nextStructPacketNo \in Int /\ packetStart \in Int
        /\ iK \in Nat /\ fOrd \in Nat /\ lastOrd \in Nat
    BY SizesPositive
  <2>4. /\ wPc = "start" /\ fPc = "loop" /\ first_loop_done \in BOOLEAN
    OBVIOUS
  <2>5. fIn \in FileBuffers
    BY PoolRanges
  <2> HIDE DEF Init, SharedInit, UdpInit, WorkerInit, FileInit
  <2> QED BY <2>1, <2>2, <2>3, <2>4, <2>5 DEF BlockTypes
<1>7. BlockHands
  BY <1>4, <1>5 DEF BlockHands, Empty, InUse
<1>8. Published
  BY DEF Published
<1>9. OrdersOnce
  <2>1. \A i, j \in Unsent : i # j => localStruct[i].order # localStruct[j].order
    <3>1. \A i \in Window : i \in Int
      BY DEF Window
    <3> QED BY <1>4, <1>5, <3>1
  <2>2. {localStruct[i].order : i \in Unsent} = {i + 1 : i \in Window}
    BY <1>4, <1>5
  <2>3. {i + 1 : i \in Window} = 1 .. N_FILE_BUFFERS_AT_A_TIME
    <3>1. \A i \in Window : i + 1 \in 1 .. N_FILE_BUFFERS_AT_A_TIME
      BY SizesPositive DEF Window
    <3>2. ASSUME NEW k \in 1 .. N_FILE_BUFFERS_AT_A_TIME
          PROVE  k - 1 \in Window /\ k = (k - 1) + 1
      BY SizesPositive DEF Window
    <3> QED BY <3>1, <3>2
  <2>4. 1 .. next_order - 1 = 1 .. N_FILE_BUFFERS_AT_A_TIME
    BY SizesPositive
  <2> QED BY <2>1, <2>2, <2>3, <2>4 DEF OrdersOnce
<1>10. BeforeFirst
  BY <1>4 DEF BeforeFirst
<1>11. 0 \in 0 .. PCKT_NO_RANGE - 1
  BY SizesPositive
<1>12. RecordingFrom(0)
  <2>1. Numbered(0)
    BY DEF Numbered
  <2>2. \A b \in FileBuffers : \A o : Holds(fileData[b], o, 0, wAnts)
    BY DEF Holds
  <2>3. Contents(0)
    BY <1>4, <1>5, <2>2, PoolRanges DEF Contents
  <2>4. IsSeq(files)
    <3>1. <<>> \in Seq({})
      OBVIOUS
    <3> QED BY <3>1 DEF IsSeq
  <2>5. FirstFile(0)
    BY <2>4 DEF FirstFile
  <2> QED BY <2>1, <2>3, <2>5 DEF RecordingFrom
<1> QED BY <1>2, <1>3, <1>6, <1>7, <1>8, <1>9, <1>10, <1>11, <1>12 DEF RecorderInv

\* The receiver's steps change nothing of the blocks.
LEMMA UdpSteps ==
    ASSUME "zero" \notin OddDatagrams, UdpInv, BlockInv, UdpStep
    PROVE  UdpInv' /\ BlockInv' /\ died' = died
<1>1. UNCHANGED <<wPc, indexIn>> /\ UNCHANGED workerVars /\ UNCHANGED fileThreadVars
  BY DEF UdpStep, workerVars
<1>2. /\ uPc \in {"loop", "fetch", "recv", "return", "done"}
      /\ received \in 0 .. Len(Traffic) /\ Len(Traffic) \in Nat
  BY ReceiverAssumption DEF UdpInv, UdpTypes
<1>3. UNCHANGED <<fileOrder, fileData, packetStart, antNumbers>>
  BY DEF UdpStep, UdpNext, Recv, UdpLoop, UdpFetch, UdpFetchFails, RecvPacket, RecvShort,
         RecvShortFirst, RecvZero, RecvError, RecvZeroStops, UdpReturn, sharedVars, pools, header
<1>4. BlockInv'
  BY <1>1, <1>3, BlockFrame DEF workerVars, fileThreadVars
<1>5. CASE UdpLoop \/ UdpFetchFails \/ RecvShort \/ RecvShortFirst \/ RecvError
  <2>1. UNCHANGED <<udpOrder, udpData, currentBuffNo, indexIn, uOrder, wPc>> /\ died' = died
    BY <1>1, <1>5 DEF UdpLoop, UdpFetchFails, RecvShort, RecvShortFirst, RecvError, sharedVars,
                      pools
  <2>2. received' \in 0 .. Len(Traffic)
    BY <1>2, <1>5 DEF UdpLoop, UdpFetchFails, RecvShort, RecvShortFirst, RecvError, Arrives
  <2>3. /\ uPc' \in {"loop", "fetch", "recv", "return", "done"}
        /\ uPc \in {"recv", "return"} <=> uPc' \in {"recv", "return"}
    BY <1>5 DEF UdpLoop, UdpFetchFails, RecvShort, RecvShortFirst, RecvError, UdpGoto
  <2> QED BY <1>4, <2>1, <2>2, <2>3, UdpMoves
<1>6. CASE UdpFetch
  BY <1>1, <1>4, <1>6, UdpFetchStep DEF UdpFetch
<1>7. CASE RecvPacket
  BY <1>1, <1>4, <1>7, UdpPacketStep DEF RecvPacket
<1>8. CASE UdpReturn
  BY <1>1, <1>4, <1>8, UdpReturnStep
<1>9. ~RecvZero /\ ~RecvZeroStops
  BY <1>2 DEF RecvZero, RecvZeroStops, UdpGoto
<1> QED BY <1>5, <1>6, <1>7, <1>8, <1>9 DEF UdpStep, UdpNext, Recv

LEMMA WorkerSteps ==
    ASSUME OrdersFit, UdpInv, BlockInv, WorkerStep
    PROVE  UdpInv' /\ BlockInv' /\ died' = died
<1>1. UNCHANGED <<uPc, currentBuffNo, uOrder, received>> /\ UNCHANGED fileThreadVars
  BY DEF WorkerStep, udpThreadVars
<1>2. CASE WorkerStart
  <2>1. BlockInv' /\ died' = died
    BY <1>1, <1>2, WorkerStartStep
  <2>2. UdpInv'
    BY <1>1, <1>2, UdpFrame DEF WorkerStart, WorkerGoto
  <2> QED BY <2>1, <2>2
<1>3. iK \in Nat /\ 0 \in Nat
  BY DEF BlockInv, BlockTypes
<1>4. CASE WorkerLoop \/ WorkerFetchFails \/ Pass1End \/ Pass2End
  <2>1. /\ wPc \in {"loop", "fetch", "pass1", "pass2"} /\ wPc' \in {"loop", "fetch", "pass2", "exit"}
        /\ wPc' = "pass2" => wPc = "pass1"
    BY <1>4 DEF WorkerLoop, WorkerFetchFails, Pass1End, Pass2End, WorkerGoto
  <2>2. iK' \in Nat
    BY <1>3, <1>4 DEF WorkerLoop, WorkerFetchFails, Pass1End, Pass2End
  <2>3. /\ UNCHANGED sharedVars
        /\ UNCHANGED <<localStruct, next_order, nextStructPacketNo, first_loop_done, wAnts,
                       indexIn, wSent>>
    BY <1>4 DEF WorkerLoop, WorkerFetchFails, Pass1End, Pass2End, workerLocals
  <2>4. BlockInv'
    BY <1>1, <2>1, <2>2, <2>3, WorkerMoves DEF sharedVars, fileThreadVars
  <2>5. UdpInv'
    BY <1>1, <2>1, <2>3, UdpFrame DEF sharedVars
  <2> QED BY <2>3, <2>4, <2>5 DEF sharedVars
<1>5. CASE WorkerFetch
  <2>1. UdpInv'
    BY <1>1, <1>5, SorterFetch
  <2>2. BlockInv'
    BY <1>1, <1>3, <1>5, WorkerMoves
       DEF WorkerFetch, WorkerGoto, workerLocals, header, fileThreadVars
  <2> QED BY <1>5, <2>1, <2>2 DEF WorkerFetch
<1>6. CASE WorkerSort
  <2>1. BlockInv'
    BY <1>1, <1>6, WorkerSortStep DEF UdpInv
  <2>2. /\ wPc = "sort" /\ wPc' # "sort" /\ ReturnUdp(indexIn, Empty)
        /\ UNCHANGED <<udpData, indexIn>>
    BY <1>6 DEF WorkerSort, WorkerGoto
  <2> QED BY <1>1, <2>1, <2>2, SorterReturn
<1>7. CASE WorkerSortNothing
  <2>1. BlockInv'
    BY <1>1, <1>3, <1>7, WorkerMoves
       DEF WorkerSortNothing, WorkerGoto, workerLocals, header, fileThreadVars
  <2>2. /\ wPc = "sort" /\ wPc' # "sort" /\ ReturnUdp(indexIn, Empty)
        /\ UNCHANGED <<udpData, indexIn>>
    BY <1>7 DEF WorkerSortNothing, WorkerGoto
  <2> QED BY <1>1, <2>1, <2>2, SorterReturn
<1>8. CASE Pass1Publish \/ Pass2Publish
  <2>1. PICK i \in Window, from \in {"pass1", "pass2"}, to \in {"refill1", "refill2"} :
          Publish(i, from, to)
    BY <1>8 DEF Pass1Publish, Pass2Publish
  <2>2. BlockInv' /\ died' = died
    BY <1>1, <2>1, PublishSteps
  <2>3. UdpInv'
    BY <1>1, <2>1, UdpFrame DEF Publish, WorkerGoto
  <2> QED BY <2>2, <2>3
<1>9. CASE Pass1Refill \/ Pass2Refill
  <2>1. PICK from \in {"refill1", "refill2"}, to \in {"pass1", "pass2"} : Refill(from, to)
    BY <1>9 DEF Pass1Refill, Pass2Refill
  <2>2. BlockInv' /\ died' = died
    BY <1>1, <2>1, RefillSteps
  <2>3. UdpInv'
    BY <1>1, <2>1, UdpFrame DEF Refill, WorkerGoto
  <2> QED BY <2>2, <2>3
<1>10. CASE WorkerExit
  <2>1. BlockInv' /\ died' = died
    BY <1>1, <1>10, WorkerExitStep
  <2>2. UdpInv'
    BY <1>1, <1>10, UdpFrame DEF WorkerExit, WorkerGoto
  <2> QED BY <2>1, <2>2
<1> QED BY <1>2, <1>4, <1>5, <1>6, <1>7, <1>8, <1>9, <1>10 DEF WorkerStep, WorkerNext

\* A failed write ends the process and changes nothing else.
LEMMA FileSteps ==
    ASSUME OrdersFit, UdpInv, BlockInv, FileStep
    PROVE  UdpInv' /\ BlockInv' /\ died' \in {died, "io"}
<1>1. UNCHANGED workerVars /\ UNCHANGED <<uPc, currentBuffNo, uOrder, received>>
  BY DEF FileStep, udpThreadVars
<1>2. FileNext(Publishing)
  BY DEF FileStep
<1>3. UNCHANGED <<udpOrder, udpData>>
  BY <1>2 DEF FileNext, FileLoop, FileHang, FileFetch, FileFetchFails, FileDiscard,
              FilePutBack, FileNewFile, FileWrite, FileError, sharedVars, pools
<1>4. UdpInv'
  BY <1>1, <1>3, UdpFrame DEF workerVars
<1>5. CASE FileLoop \/ FileHang(Publishing) \/ FileFetchFails
  <2>1. UNCHANGED sharedVars /\ UNCHANGED <<fIn, fOrd, lastOrd, files>>
    BY <1>5 DEF FileLoop, FileHang, FileFetchFails
  <2>2. fPc # "have" /\ fPc' \in {"loop", "fetch", "done", "hung"}
    BY <1>5 DEF FileLoop, FileHang, FileFetchFails, FileGoto
  <2>3. BlockInv'
    BY <1>1, <2>1, <2>2, FileMoves DEF workerVars, sharedVars
  <2> QED BY <1>4, <2>1, <2>3 DEF sharedVars
<1>6. CASE FileFetch
  BY <1>1, <1>4, <1>6, FileFetchStep
<1>7. CASE FileDiscard \/ FilePutBack
  BY <1>1, <1>4, <1>7, FileReturnSteps
<1>8. CASE FileNewFile \/ FileWrite
  BY <1>1, <1>4, <1>8, FileWriteSteps
<1>9. CASE FileError
  <2>1. BlockInv'
    BY <1>1, <1>9, BlockFrame DEF FileError, pools, header, fileThreadVars, workerVars
  <2> QED BY <1>4, <1>9, <2>1 DEF FileError
<1> QED BY <1>2, <1>5, <1>6, <1>7, <1>8, <1>9 DEF FileNext

LEMMA RecorderNext ==
    ASSUME "zero" \notin OddDatagrams
    PROVE  RecorderInv /\ OrdersFit /\ [Next]_vars => RecorderInv'
<1> SUFFICES ASSUME RecorderInv, OrdersFit, [Next]_vars PROVE RecorderInv'
  OBVIOUS
<1>1. UdpInv /\ BlockInv /\ died \in {"no", "io"}
  BY DEF RecorderInv, UdpInv, BlockInv
<1>2. UdpInv' /\ BlockInv' /\ died' \in {died, "io"}
  <2>1. CASE UdpStep
    BY <1>1, <2>1, UdpSteps
  <2>2. CASE WorkerStep
    BY <1>1, <2>2, WorkerSteps
  <2>3. CASE FileStep
    BY <1>1, <2>3, FileSteps
  <2>4. CASE MainStep \/ Interrupt \/ UNCHANGED vars
    <3>1. /\ UNCHANGED <<udpOrder, udpData, fileOrder, fileData, packetStart, antNumbers, died,
                         uPc, currentBuffNo, uOrder, received>>
          /\ UNCHANGED workerVars /\ UNCHANGED fileThreadVars
      BY <2>4 DEF MainStep, MainTest, MainSleep, Deliver, MainJoin, Interrupt, MainOnly, vars,
                  sharedVars, pools, header, udpThreadVars, workerVars, fileThreadVars
    <3>2. UdpInv'
      BY <1>1, <3>1, UdpFrame DEF workerVars
    <3>3. BlockInv'
      BY <1>1, <3>1, BlockFrame DEF workerVars, fileThreadVars
    <3> QED BY <3>1, <3>2, <3>3
  <2> QED BY <2>1, <2>2, <2>3, <2>4 DEF Next
<1> QED BY <1>1, <1>2 DEF RecorderInv, UdpInv, BlockInv

\* What the invariant says of the properties.
LEMMA HandsDisjoint == RecorderInv => NoSharing
<1> SUFFICES ASSUME RecorderInv PROVE NoSharing
  OBVIOUS
<1>1. BlockHands /\ UdpHands /\ BlockTypes /\ died # "integrity"
  BY DEF RecorderInv
<1>2. \A b : b \in WorkerHas <=> Working /\ \E i \in Unsent : localStruct[i].index = b
  BY DEF WorkerHas, Working
<1>3. \A b : b \in FileHas <=> fPc = "have" /\ b = fIn
  BY DEF FileHas
<1>4. WorkerHas \subseteq FileBuffers /\ FileHas \subseteq FileBuffers
  <2>1. \A i \in Unsent : localStruct[i].index \in FileBuffers
    BY <1>1 DEF BlockTypes, Unsent, Slots
  <2> QED BY <1>1, <1>2, <1>3, <2>1 DEF BlockTypes
<1>5. \A b \in FileBuffers : fileOrder[b] = InUse <=> b \in WorkerHas \cup FileHas
  BY <1>1, <1>2, <1>3 DEF BlockHands
<1>6. WorkerHas \cap FileHas = {}
  BY <1>1, <1>2, <1>3 DEF BlockHands
<1>7. {b \in FileBuffers : fileOrder[b] = InUse} = WorkerHas \cup FileHas
  BY <1>4, <1>5
<1>8. UdpHas \cup SorterHas \subseteq UdpBuffers
  BY DEF RecorderInv, UdpTypes, UdpHas, SorterHas
<1>9. {b \in UdpBuffers : udpOrder[b] = InUse} = UdpHas \cup SorterHas
  BY <1>1, <1>8 DEF UdpHands
<1> QED BY <1>1, <1>6, <1>7, <1>9 DEF NoSharing, IntegrityHolds, UdpHands

LEMMA FirstFileHolds == RecorderInv => FirstFileIsRecording
<1> SUFFICES ASSUME RecorderInv, files # <<>>,
                    NEW k \in DOMAIN files[1].blocks, NEW c \in Cells, NEW p,
                    p = files[1].blocks[k].cells[c], p # NoData
             PROVE  /\ GET_PACKET_FILTER(p.pckt) = BlockStart(files[1].packetStart, k)
                    /\ c = Offset(GET_PACKET_REST(p.pckt), getAntIndex(files[1].ants, p.ant), p.chan)
  BY DEF FirstFileIsRecording
<1>1. PICK s \in 0 .. PCKT_NO_RANGE - 1 : FirstFile(s)
  BY DEF RecorderInv, RecordingFrom
<1>2. PICK blocks : /\ files[1] = [packetStart |-> s, ants |-> wAnts, blocks |-> blocks]
                    /\ IsSeq(blocks)
                    /\ \A n \in 1 .. Len(blocks) : Holds(blocks[n].cells, n, s, wAnts)
  BY <1>1 DEF FirstFile
<1>3. files[1].blocks = blocks /\ files[1].packetStart = s /\ files[1].ants = wAnts
  BY <1>2
<1>4. k \in 1 .. Len(blocks)
  <2>1. PICK S : blocks \in Seq(S)
    BY <1>2 DEF IsSeq
  <2> QED BY <1>3, <2>1
<1>5. Holds(blocks[k].cells, k, s, wAnts) /\ p = blocks[k].cells[c]
  BY <1>2, <1>3, <1>4
<1> QED BY <1>3, <1>5 DEF Holds

\* As long as the order numbers stay within findLowest's INT_MAX, and no empty
\* datagram arrives (RecvZero returns its buffer twice), the invariant holds of
\* every run of the recorder.
LEMMA RecorderInductive ==
    ASSUME "zero" \notin OddDatagrams
    PROVE  Spec /\ []OrdersFit => []RecorderInv
<1>1. RecorderInv /\ OrdersFit /\ [Next]_vars => RecorderInv'
  BY RecorderNext
<1> QED BY <1>1, RecorderInit, PTL DEF Spec

\* Each buffer of the two pools is in one thread's hands: the assertions of
\* returnBuffer and returnEmptyBuffer (common.c:110, common.c:123) hold whatever
\* the schedule.
THEOREM BuffersInOneHand ==
    ASSUME "zero" \notin OddDatagrams
    PROVE  Spec /\ []OrdersFit => []NoSharing
BY RecorderInductive, HandsDisjoint, PTL

\* Order numbers of blocks are handed out once and in full, whatever the window
\* publishes and refills.
THEOREM OrdersUsedOnce ==
    ASSUME "zero" \notin OddDatagrams
    PROVE  Spec /\ []OrdersFit => []OrdersOnce
<1>1. RecorderInv => OrdersOnce
  BY DEF RecorderInv
<1> QED BY <1>1, RecorderInductive, PTL

\* The first file is the recording: its blocks are the first ones sorted, in
\* order and from the packet number of its header on, and every packet is in the
\* place its own header asks for.
THEOREM FirstFileRecorded ==
    ASSUME "zero" \notin OddDatagrams
    PROVE  Spec /\ []OrdersFit => []FirstFileIsRecording
BY RecorderInductive, FirstFileHolds, PTL

\* What is published is where its header says while the header fields of the
\* pool are those of the first file.
LEMMA ContentsHold == RecorderInv => (Len(files) < 2 => BlockContents)
<1> SUFFICES ASSUME RecorderInv, Len(files) < 2, NEW b \in Ready(fileOrder), NEW c \in Cells,
                    NEW p, p = fileData[b][c], p # NoData
             PROVE  /\ GET_PACKET_FILTER(p.pckt) = BlockStart(packetStart, fileOrder[b])
                    /\ c = (p.pckt % TIME_INT_PER_BUFFER) * nAnts * nchans
                             + getAntIndex(antNumbers, p.ant) * nchans + p.chan
  BY DEF BlockContents
<1>1. BlockTypes /\ Published /\ BeforeFirst
  BY DEF RecorderInv
<1>2. PICK s \in 0 .. PCKT_NO_RANGE - 1 : Numbered(s) /\ Contents(s)
  BY DEF RecorderInv, RecordingFrom
<1>3. b \in FileBuffers /\ fileOrder[b] \notin {Empty, InUse}
  BY <1>1 DEF Ready, BlockTypes, Empty, InUse
<1>4. first_loop_done
  BY <1>1, <1>3 DEF Published, BeforeFirst
<1>5. packetStart = s /\ antNumbers = wAnts
  BY <1>2, <1>4 DEF Numbered
<1>6. Holds(fileData[b], fileOrder[b], s, wAnts)
  BY <1>2, <1>3 DEF Contents
<1> QED BY <1>5, <1>6 DEF Holds, Offset, GET_PACKET_REST

\* As long as there is one file, a published block's order number gives its
\* packet numbers, and every cell holds the packet it is for or nothing: nothing
\* is left of what the buffer held before it was refilled.  (FileNewFile moves
\* packetStart, which blocks already published are then not relative to.)
THEOREM BlocksAsPublished ==
    ASSUME "zero" \notin OddDatagrams
    PROVE  Spec /\ []OrdersFit => [](Len(files) < 2 => BlockContents)
BY RecorderInductive, ContentsHold, PTL

------------------------------------------------------------------------------
\* A block sent as full is complete

\* The antenna table: nAnts entries, whatever the batch that filled it.
Tables == [0 .. nAnts - 1 -> Int]

LEMMA UpdateKeepsTable ==
    ASSUME NEW t \in Tables, NEW a \in Int
    PROVE  updateAntenna(t, a) \in Tables
<1> DEFINE S == {i \in DOMAIN t : t[i] = a \/ t[i] = NoAnt}
<1>1. PICK m : m = CHOOSE i \in S : \A j \in S : i <= j
  OBVIOUS
<1>2. updateAntenna(t, a) = IF S = {} THEN t ELSE [t EXCEPT ![m] = a]
  BY <1>1 DEF updateAntenna
<1> HIDE DEF S
<1> QED BY <1>2 DEF Tables

\* The table a batch gives is one of nAnts entries.
LEMMA BatchTable ==
    ASSUME NEW batch \in Seq(Packets), wAnts \in Tables
    PROVE  AntennasOf(batch) \in Tables
<1> DEFINE Step(t, n) == IF n = 0 THEN wAnts ELSE updateAntenna(t[n - 1], batch[n].ant)
           IsTable(t, m) == t = [n \in 0 .. m |-> Step(t, n)]
           G == {m \in Nat : m <= Len(batch) => \E t : IsTable(t, m)}
           table == CHOOSE t : IsTable(t, Len(batch))
<1>0. Len(batch) \in Nat
  OBVIOUS
<1>1. 0 \in G
  <2>1. IsTable([n \in 0 .. 0 |-> wAnts], 0)
    OBVIOUS
  <2> QED BY <2>1
<1>2. ASSUME NEW m \in G PROVE m + 1 \in G
  <2> SUFFICES ASSUME m + 1 <= Len(batch) PROVE \E t : IsTable(t, m + 1)
    OBVIOUS
  <2>1. PICK t : IsTable(t, m)
    BY <1>0
  <2> DEFINE u == [n \in 0 .. m + 1 |-> IF n = m + 1 THEN Step(t, n) ELSE t[n]]
  <2>2. ASSUME NEW n \in 0 .. m + 1 PROVE u[n] = Step(u, n)
    <3>1. CASE n = 0
      BY <2>1, <3>1
    <3>2. CASE n # 0
      <4>1. n - 1 \in 0 .. m /\ n - 1 # m + 1
        BY <3>2
      <4>2. u[n - 1] = t[n - 1]
        BY <4>1
      <4>3. n # m + 1 => n \in 0 .. m
        OBVIOUS
      <4>4. u[n] = Step(t, n)
        BY <2>1, <4>3
      <4> QED BY <3>2, <4>2, <4>4
    <3> QED BY <3>1, <3>2
  <2>3. IsTable(u, m + 1)
    <3>1. u = [n \in 0 .. m + 1 |-> u[n]]
      OBVIOUS
    <3> HIDE DEF u
    <3> QED BY <2>2, <3>1
  <2> QED BY <2>3
<1>3. G = Nat
  <2> HIDE DEF G
  <2>1. G \in SUBSET Nat
    BY DEF G
  <2> QED BY <1>1, <1>2, <2>1, NatSetInduction
<1>4. IsTable(table, Len(batch))
  <2>1. \E t : IsTable(t, Len(batch))
    BY <1>0, <1>3
  <2> QED BY <2>1
<1>5. AntennasOf(batch) = table[Len(batch)]
  BY DEF AntennasOf
<1> HIDE DEF table
<1> DEFINE H == {m \in Nat : m <= Len(batch) => table[m] \in Tables}
<1>6. 0 \in H
  BY <1>0, <1>4
<1>7. ASSUME NEW m \in H PROVE m + 1 \in H
  <2> SUFFICES ASSUME m + 1 <= Len(batch) PROVE table[m + 1] \in Tables
    OBVIOUS
  <2>1. m + 1 \in 0 .. Len(batch) /\ m + 1 \in 1 .. Len(batch) /\ (m + 1) - 1 = m /\ m + 1 # 0
    BY <1>0
  <2>2. table[m] \in Tables
    BY <1>0
  <2>3. table[m + 1] = updateAntenna(table[m], batch[m + 1].ant)
    BY <1>4, <2>1
  <2>4. batch[m + 1].ant \in Int
    <3>1. batch[m + 1] \in Packets
      BY <2>1
    <3> QED BY <3>1 DEF Packets
  <2> QED BY <2>2, <2>3, <2>4, UpdateKeepsTable
<1>8. H = Nat
  <2> HIDE DEF H
  <2>1. H \in SUBSET Nat
    BY DEF H
  <2> QED BY <1>6, <1>7, <2>1, NatSetInduction
<1> QED BY <1>0, <1>5, <1>8

\* The cell of a packet: in the block, and no other packet's.
LEMMA OffsetSplit ==
    ASSUME NEW r \in 0 .. TIME_INT_PER_BUFFER - 1, NEW a \in 0 .. nAnts - 1,
           NEW c \in 0 .. nchans - 1
    PROVE  /\ Offset(r, a, c) = nchans * (nAnts * r + a) + c
           /\ nAnts * r + a \in 0 .. TIME_INT_PER_BUFFER * nAnts - 1
           /\ Offset(r, a, c) \in Cells
<1>1. PICK T \in Nat \ {0}, A \in Nat \ {0}, C \in Nat \ {0} :
        T = TIME_INT_PER_BUFFER /\ A = nAnts /\ C = nchans
  BY SizesPositive, Geometry
<1>2. r * A * C + a * C + c = C * (A * r + a) + c
  <2>1. PICK x \in Int : x = A * r /\ x = r * A
    BY <1>1
  <2>2. a \in Int /\ c \in Int
    BY <1>1
  <2>3. x * C + a * C = C * (x + a)
    BY <2>2
  <2> QED BY <2>1, <2>3
<1>3. A * r + a \in 0 .. T * A - 1
  BY <1>1, StrideBound
<1>4. PICK m \in Nat : m = T * A
  OBVIOUS
<1>5. C * (A * r + a) + c \in 0 .. m * C - 1
  BY <1>1, <1>3, <1>4, StrideBound
<1>6. packetsPerBlock = m * C
  BY <1>1, <1>4 DEF packetsPerBlock
<1> QED BY <1>1, <1>2, <1>3, <1>5, <1>6 DEF Offset, Cells

LEMMA OffsetInjective ==
    ASSUME NEW r \in 0 .. TIME_INT_PER_BUFFER - 1, NEW a \in 0 .. nAnts - 1,
           NEW c \in 0 .. nchans - 1, NEW q \in 0 .. TIME_INT_PER_BUFFER - 1,
           NEW b \in 0 .. nAnts - 1, NEW d \in 0 .. nchans - 1,
           Offset(r, a, c) = Offset(q, b, d)
    PROVE  r = q /\ a = b /\ c = d
<1>1. PICK T \in Nat \ {0}, A \in Nat \ {0}, C \in Nat \ {0} :
        T = TIME_INT_PER_BUFFER /\ A = nAnts /\ C = nchans
  BY SizesPositive, Geometry
<1>2. PICK x \in Int, y \in Int : x = A * r + a /\ y = A * q + b
  BY <1>1
<1>3. C * x + c = C * y + d
  BY <1>1, <1>2, OffsetSplit
<1>4. x = y /\ c = d
  BY <1>1, <1>3, StrideUnique
<1>5. r \in Int /\ q \in Int /\ A * r + a = A * q + b
  BY <1>1, <1>2, <1>4
<1>6. r = q /\ a = b
  BY <1>1, <1>5, StrideUnique
<1> QED BY <1>4, <1>6

\* getAntIndex finds an entry, and two antennas never the same one.
LEMMA AntIndexFound ==
    ASSUME NEW t \in Tables, NEW a, getAntIndex(t, a) # -1
    PROVE  getAntIndex(t, a) \in 0 .. nAnts - 1 /\ t[getAntIndex(t, a)] = a
<1> DEFINE S == {i \in DOMAIN t : t[i] = a}
<1>1. S # {}
  BY DEF getAntIndex
<1>2. S \in SUBSET Nat /\ DOMAIN t = 0 .. nAnts - 1
  BY Geometry DEF Tables
<1>3. \E i \in S : \A j \in S : i <= j
  <2> HIDE DEF S
  <2> QED BY <1>1, <1>2, LeastNat
<1>4. getAntIndex(t, a) \in S
  BY <1>1, <1>3 DEF getAntIndex
<1> QED BY <1>2, <1>4

\* Two packets the worker keeps, of the same block and in the same cell, are
\* the same packet.
Kept(t, p) == p \in Packets /\ p.volt /\ p.chan \in 0 .. nchans - 1 /\ getAntIndex(t, p.ant) # -1
CellOf(t, p) == Offset(GET_PACKET_REST(p.pckt), getAntIndex(t, p.ant), p.chan)

LEMMA KeptInCells ==
    ASSUME NEW t \in Tables, NEW p, Kept(t, p)
    PROVE  CellOf(t, p) \in Cells /\ GET_PACKET_REST(p.pckt) \in 0 .. TIME_INT_PER_BUFFER - 1
<1>1. GET_PACKET_REST(p.pckt) \in 0 .. TIME_INT_PER_BUFFER - 1
  <2>1. p.pckt \in Nat
    BY DEF Kept, Packets
  <2> QED BY <2>1, SizesPositive DEF GET_PACKET_REST
<1>2. getAntIndex(t, p.ant) \in 0 .. nAnts - 1
  BY AntIndexFound DEF Kept
<1> QED BY <1>1, <1>2, OffsetSplit DEF Kept, CellOf

LEMMA SameCellSamePacket ==
    ASSUME NEW t \in Tables, NEW p, NEW q, Kept(t, p), Kept(t, q),
           GET_PACKET_FILTER(p.pckt) = GET_PACKET_FILTER(q.pckt), CellOf(t, p) = CellOf(t, q)
    PROVE  p = q
<1>1. /\ getAntIndex(t, p.ant) \in 0 .. nAnts - 1 /\ t[getAntIndex(t, p.ant)] = p.ant
      /\ getAntIndex(t, q.ant) \in 0 .. nAnts - 1 /\ t[getAntIndex(t, q.ant)] = q.ant
  BY AntIndexFound DEF Kept
<1>2. /\ GET_PACKET_REST(p.pckt) \in 0 .. TIME_INT_PER_BUFFER - 1
      /\ GET_PACKET_REST(q.pckt) \in 0 .. TIME_INT_PER_BUFFER - 1
  BY KeptInCells
<1>3. /\ GET_PACKET_REST(p.pckt) = GET_PACKET_REST(q.pckt)
      /\ getAntIndex(t, p.ant) = getAntIndex(t, q.ant) /\ p.chan = q.chan
  BY <1>1, <1>2, OffsetInjective DEF Kept, CellOf
<1>4. p.ant = q.ant
  BY <1>1, <1>3
<1>5. p.pckt = q.pckt
  <2>1. p.pckt \in Int /\ q.pckt \in Int
    BY DEF Kept, Packets
  <2> QED BY <1>2, <1>3, <2>1, SizesPositive DEF GET_PACKET_FILTER, GET_PACKET_REST
<1> QED BY <1>3, <1>4, <1>5 DEF Kept, Packets

\* No packet comes twice: what processing_thread.c:134 assumes.
NoDuplicates == \A m, n \in 1 .. Len(Traffic) : m # n => Traffic[m] \cap Traffic[n] = {}

\* The packets the first n datagrams may have brought.
Arrived(n) == UNION {Traffic[m] : m \in 1 .. n}
Filled(cells) == {c \in Cells : cells[c] # NoData}

\* The packets of the datagram buffers not yet sorted were received, each once.
WaitingOnce ==
    /\ \A b \in UdpBuffers : udpOrder[b] # Empty => \A k \in 1 .. Len(udpData[b]) : udpData[b][k] \in Arrived(received)
    /\ \A b, c \in UdpBuffers : udpOrder[b] # Empty /\ udpOrder[c] # Empty =>
         \A k \in 1 .. Len(udpData[b]), l \in 1 .. Len(udpData[c]) :
           udpData[b][k] = udpData[c][l] => b = c /\ k = l

\* Those in the blocks are others.
SortedOnce ==
    \A b \in FileBuffers, c \in Cells : fileData[b][c] # NoData =>
      /\ fileData[b][c] \in Arrived(received) /\ Kept(wAnts, fileData[b][c])
      /\ \A u \in UdpBuffers : udpOrder[u] # Empty =>
           \A k \in 1 .. Len(udpData[u]) : udpData[u][k] # fileData[b][c]

\* nToFull is the number of empty cells.
Counted ==
    \A i \in Unsent :
      localStruct[i].nToFull = packetsPerBlock - Cardinality(Filled(fileData[localStruct[i].index]))

CountInv == wAnts \in Tables /\ WaitingOnce /\ SortedOnce /\ Counted

LEMMA CellsFinite ==
    /\ packetsPerBlock \in Nat /\ IsFiniteSet(Cells) /\ Cardinality(Cells) = packetsPerBlock
    /\ \A cells : IsFiniteSet(Filled(cells)) /\ Cardinality(Filled(cells)) \in Nat
<1>1. packetsPerBlock \in Nat
  <2>1. nAnts * nchans \in Nat
    BY Geometry
  <2> QED BY <2>1, Geometry DEF packetsPerBlock
<1>2. IsFiniteSet(Cells) /\ Cardinality(Cells) = packetsPerBlock
  <2>1. 0 \in Int /\ packetsPerBlock - 1 \in Int
    BY <1>1
  <2>2. /\ IsFiniteSet(0 .. packetsPerBlock - 1)
        /\ Cardinality(0 .. packetsPerBlock - 1) =
             IF 0 > packetsPerBlock - 1 THEN 0 ELSE packetsPerBlock - 1 - 0 + 1
    BY <2>1, FS_Interval
  <2> QED BY <1>1, <2>2 DEF Cells
<1>3. ASSUME NEW cells
      PROVE  IsFiniteSet(Filled(cells)) /\ Cardinality(Filled(cells)) \in Nat
  <2>1. Filled(cells) \in SUBSET Cells
    BY DEF Filled
  <2>2. IsFiniteSet(Filled(cells))
    BY <1>2, <2>1, FS_Subset
  <2> QED BY <2>2, FS_CardinalityType
<1> QED BY <1>1, <1>2, <1>3

LEMMA CountComplete ==
    ASSUME BlockTypes, CountInv
    PROVE  FullIsComplete
<1> SUFFICES ASSUME wPc = "pass1", NEW i \in Window, Full(i), NEW c \in Cells
             PROVE  fileData[localStruct[i].index][c] # NoData
  BY DEF FullIsComplete
<1>1. i \in Unsent
  BY DEF Unsent
<1>2. PICK cells : cells = fileData[localStruct[i].index]
  OBVIOUS
<1>3. 0 = packetsPerBlock - Cardinality(Filled(cells))
  BY <1>1, <1>2 DEF CountInv, Counted, Full
<1>4. Cardinality(Filled(cells)) = Cardinality(Cells)
  BY <1>3, CellsFinite
<1>5. Filled(cells) \in SUBSET Cells
  BY DEF Filled
<1>6. Filled(cells) = Cells
  BY <1>4, <1>5, CellsFinite, FS_Subset
<1> QED BY <1>2, <1>6 DEF Filled

\* Steps that put no packet anywhere.
LEMMA CountFrame ==
    ASSUME CountInv, UNCHANGED <<fileData, localStruct, wAnts>>, Unsent' \subseteq Unsent,
           received \in Nat, received' \in Nat, received' >= received,
           \A b \in UdpBuffers : udpOrder'[b] # Empty =>
             \/ Len(udpData'[b]) = 0
             \/ (udpOrder[b] # Empty /\ udpData'[b] = udpData[b])
    PROVE  CountInv'
<1>1. Arrived(received) \subseteq Arrived(received')
  <2>1. \A n \in 1 .. received : n \in 1 .. received'
    OBVIOUS
  <2> QED BY <2>1 DEF Arrived
<1>2. \A b \in UdpBuffers : \A k \in 1 .. Len(udpData'[b]) :
        udpOrder'[b] # Empty => udpOrder[b] # Empty /\ k \in 1 .. Len(udpData[b]) /\ udpData'[b][k] = udpData[b][k]
  OBVIOUS
<1>3. WaitingOnce'
  <2>1. \A b \in UdpBuffers : udpOrder'[b] # Empty =>
          \A k \in 1 .. Len(udpData'[b]) : udpData'[b][k] \in Arrived(received')
    BY <1>1, <1>2 DEF CountInv, WaitingOnce
  <2>2. ASSUME NEW b \in UdpBuffers, NEW c \in UdpBuffers, udpOrder'[b] # Empty, udpOrder'[c] # Empty,
               NEW k \in 1 .. Len(udpData'[b]), NEW l \in 1 .. Len(udpData'[c]),
               udpData'[b][k] = udpData'[c][l]
        PROVE  b = c /\ k = l
    BY <1>2, <2>2 DEF CountInv, WaitingOnce
  <2> QED BY <2>1, <2>2 DEF WaitingOnce
<1>4. SortedOnce'
  <2>1. ASSUME NEW b \in FileBuffers, NEW c \in Cells, fileData[b][c] # NoData
        PROVE  /\ fileData[b][c] \in Arrived(received') /\ Kept(wAnts, fileData[b][c])
               /\ \A u \in UdpBuffers : udpOrder'[u] # Empty =>
                    \A k \in 1 .. Len(udpData'[u]) : udpData'[u][k] # fileData[b][c]
    BY <1>1, <1>2, <2>1 DEF CountInv, SortedOnce
  <2> QED BY <2>1 DEF SortedOnce
<1>5. Counted'
  BY DEF CountInv, Counted
<1>6. wAnts' \in Tables
  BY DEF CountInv
<1> QED BY <1>3, <1>4, <1>5, <1>6 DEF CountInv

\* A packet is received that was not received before.
LEMMA CountReceives ==
    ASSUME NoDuplicates, UdpInv, CountInv, RecvPacket, UNCHANGED workerVars
    PROVE  CountInv'
<1>1. PICK b \in UdpBuffers, N \in Nat, L \in Nat :
        b = currentBuffNo /\ N = received /\ L = Len(udpData[b])
  <2>1. currentBuffNo \in UdpBuffers /\ received \in Nat
        /\ udpData[currentBuffNo] \in Seq(Packets)
    BY DEF UdpInv, UdpTypes
  <2>2. Len(udpData[currentBuffNo]) \in Nat
    BY <2>1
  <2> QED BY <2>1, <2>2
<1>2. PICK p \in Traffic[N + 1] : udpData' = [udpData EXCEPT ![b] = Append(@, p)]
  BY <1>1 DEF RecvPacket, Arrives
<1>3. /\ received' = N + 1 /\ N + 1 \in 1 .. Len(Traffic) /\ uPc = "recv"
      /\ UNCHANGED <<udpOrder, fileData>>
  BY <1>1, ReceiverAssumption DEF RecvPacket, Arrives, UdpGoto, UdpInv, UdpTypes
<1>4. udpData[b] \in Seq(Packets) /\ udpData \in [UdpBuffers -> Seq(Packets)] /\ p \in Packets
  BY <1>1, <1>3, ReceiverAssumption DEF UdpInv, UdpTypes
<1>5. /\ udpData'[b] = Append(udpData[b], p)
      /\ \A c \in UdpBuffers : c # b => udpData'[c] = udpData[c]
  BY <1>2, <1>4
<1>6. /\ Len(udpData'[b]) = L + 1 /\ udpData'[b][L + 1] = p
      /\ \A k \in 1 .. L : udpData'[b][k] = udpData[b][k]
  BY <1>1, <1>4, <1>5
<1>7. p \notin Arrived(N)
  <2>1. \A n \in 1 .. N : n # N + 1 /\ n \in 1 .. Len(Traffic)
    BY <1>3, ReceiverAssumption
  <2> QED BY <1>1, <1>2, <1>3, <2>1 DEF Arrived, NoDuplicates
<1>8. p \in Arrived(received') /\ Arrived(N) \subseteq Arrived(received')
  <2>1. N + 1 \in 1 .. received' /\ \A n \in 1 .. N : n \in 1 .. received'
    BY <1>1, <1>3
  <2> QED BY <1>2, <2>1 DEF Arrived
<1>9. \A c \in UdpBuffers : udpOrder'[c] = udpOrder[c]
  BY <1>3
<1>10. ASSUME NEW c \in UdpBuffers, NEW k \in 1 .. Len(udpData'[c])
       PROVE  \/ c = b /\ k = L + 1 /\ udpData'[c][k] = p
              \/ k \in 1 .. Len(udpData[c]) /\ udpData'[c][k] = udpData[c][k]
  <2>1. CASE c = b
    <3>1. k \in 1 .. L + 1
      BY <1>6, <2>1
    <3>2. k = L + 1 \/ k \in 1 .. L
      BY <3>1
    <3> QED BY <1>1, <1>6, <2>1, <3>2
  <2>2. CASE c # b
    BY <1>5, <2>2
  <2> QED BY <2>1, <2>2
<1>11. WaitingOnce'
  <2>1. ASSUME NEW c \in UdpBuffers, udpOrder[c] # Empty, NEW k \in 1 .. Len(udpData'[c])
        PROVE  udpData'[c][k] \in Arrived(received')
    BY <1>1, <1>8, <1>10, <2>1 DEF CountInv, WaitingOnce
  <2>2. ASSUME NEW c \in UdpBuffers, NEW d \in UdpBuffers, udpOrder[c] # Empty, udpOrder[d] # Empty,
               NEW k \in 1 .. Len(udpData'[c]), NEW l \in 1 .. Len(udpData'[d]),
               udpData'[c][k] = udpData'[d][l]
        PROVE  c = d /\ k = l
    <3>1. ASSUME NEW e \in UdpBuffers, udpOrder[e] # Empty, NEW m \in 1 .. Len(udpData[e])
          PROVE  udpData[e][m] # p
      BY <1>1, <1>7, <3>1 DEF CountInv, WaitingOnce
    <3>2. \/ c = b /\ k = L + 1 /\ udpData'[c][k] = p
          \/ k \in 1 .. Len(udpData[c]) /\ udpData'[c][k] = udpData[c][k]
      BY <1>10
    <3>3. \/ d = b /\ l = L + 1 /\ udpData'[d][l] = p
          \/ l \in 1 .. Len(udpData[d]) /\ udpData'[d][l] = udpData[d][l]
      BY <1>10
    <3> QED BY <2>2, <3>1, <3>2, <3>3 DEF CountInv, WaitingOnce
  <2> QED BY <1>9, <2>1, <2>2 DEF WaitingOnce
<1>12. SortedOnce'
  <2>1. ASSUME NEW f \in FileBuffers, NEW c \in Cells, fileData[f][c] # NoData
        PROVE  /\ fileData[f][c] \in Arrived(received') /\ Kept(wAnts, fileData[f][c])
               /\ \A u \in UdpBuffers : udpOrder[u] # Empty =>
                    \A k \in 1 .. Len(udpData'[u]) : udpData'[u][k] # fileData[f][c]
    <3>1. fileData[f][c] \in Arrived(received) /\ Kept(wAnts, fileData[f][c]) /\ fileData[f][c] # p
      BY <1>1, <1>7, <2>1 DEF CountInv, SortedOnce
    <3>2. ASSUME NEW u \in UdpBuffers, udpOrder[u] # Empty, NEW k \in 1 .. Len(udpData'[u])
          PROVE  udpData'[u][k] # fileData[f][c]
      BY <1>10, <2>1, <3>1, <3>2 DEF CountInv, SortedOnce
    <3> QED BY <1>1, <1>8, <3>1, <3>2
  <2> QED BY <1>3, <1>9, <2>1 DEF SortedOnce, workerVars
<1>13. Counted' /\ wAnts' \in Tables
  <2>1. Unsent' = Unsent
    BY DEF Unsent, workerVars
  <2> QED BY <1>3, <2>1 DEF CountInv, Counted, workerVars
<1> QED BY <1>11, <1>12, <1>13 DEF CountInv

\* A refilled position is empty and counts from the whole block.
LEMMA CountRefills ==
    ASSUME BlockInv, CountInv, NEW from \in {"refill1", "refill2"},
           NEW to \in {"pass1", "pass2"}, Refill(from, to), UNCHANGED udpThreadVars
    PROVE  CountInv'
<1>1. BlockTypes /\ BlockHands
  BY DEF BlockInv
<1>2. PICK b \in FileBuffers : b = findEmpty(fileOrder) /\ fileOrder[b] = Empty
  <2>1. fileOrder \in [0 .. N_FILE_BUFFERS - 1 -> Int]
    BY <1>1 DEF BlockTypes, FileBuffers
  <2> QED BY <2>1, PoolRanges, FindEmptyResult DEF Refill, FileBuffers
<1>3. PICK zero : zero = [c \in Cells |-> NoData]
  OBVIOUS
<1>4. PICK new : new = [packetNo |-> nextStructPacketNo, index |-> b,
                        order |-> next_order, nToFull |-> packetsPerBlock]
  OBVIOUS
<1>5. /\ wPc = from /\ wPc' = to /\ fileData' = [fileData EXCEPT ![b] = zero]
      /\ localStruct' = [localStruct EXCEPT ![iK] = new]
      /\ UNCHANGED <<udpOrder, udpData, received, wAnts>>
  BY <1>2, <1>3, <1>4 DEF Refill, WorkerGoto, Cleared, NewSlot, udpThreadVars
<1>6. iK \in Window /\ Unsent = Window \ {iK} /\ Unsent' = Window /\ Working
  BY <1>1, <1>5 DEF BlockTypes, Unsent, Working
<1>7. /\ \A c \in FileBuffers : fileData'[c] = IF c = b THEN zero ELSE fileData[c]
      /\ \A j \in Window : localStruct'[j] = IF j = iK THEN new ELSE localStruct[j]
  BY <1>1, <1>5 DEF BlockTypes
<1>8. Arrived(received') = Arrived(received)
  BY <1>5
<1>9. WaitingOnce'
  BY <1>5, <1>8 DEF CountInv, WaitingOnce
<1>10. SortedOnce'
  <2>1. ASSUME NEW f \in FileBuffers, NEW c \in Cells, fileData'[f][c] # NoData
        PROVE  fileData'[f][c] = fileData[f][c]
    BY <1>3, <1>7, <2>1
  <2> QED BY <1>5, <1>8, <2>1 DEF CountInv, SortedOnce
<1>11. Counted'
  <2>1. Cardinality(Filled(zero)) = 0
    <3>1. Filled(zero) = {}
      BY <1>3 DEF Filled
    <3> QED BY <3>1, FS_EmptySet
  <2>2. packetsPerBlock - 0 = packetsPerBlock /\ new.index = b /\ new.nToFull = packetsPerBlock
    BY <1>4, CellsFinite
  <2>3. ASSUME NEW j \in Window
        PROVE  localStruct'[j].nToFull
                 = packetsPerBlock - Cardinality(Filled(fileData'[localStruct'[j].index]))
    <3>1. CASE j = iK
      BY <1>7, <2>1, <2>2, <3>1
    <3>2. CASE j # iK
      <4>1. localStruct[j].index # b /\ localStruct[j].index \in FileBuffers
        BY <1>1, <1>2, <1>6, <3>2 DEF BlockHands, BlockTypes, Slots, Empty, InUse
      <4> QED BY <1>6, <1>7, <3>2, <4>1 DEF CountInv, Counted
    <3> QED BY <3>1, <3>2
  <2> QED BY <1>6, <2>3 DEF Counted, Filled
<1> QED BY <1>5, <1>9, <1>10, <1>11 DEF CountInv

\* Of a batch of packets that come once and are in no block yet, the ones of a
\* position each fill a cell that was empty: as many as nToFull counts.
LEMMA SortFills ==
    ASSUME NEW slots \in [Window -> Slots], NEW ants \in Tables, NEW batch \in Seq(Packets),
           NEW place, place = Places(ants, slots, batch), NEW s \in Nat,
           \A j \in Window :
              \/ slots[j].packetNo = s + (slots[j].order - 1) * TIME_INT_PER_BUFFER
              \/ slots[j].packetNo = BlockStart(s, slots[j].order),
           NEW i \in Window, NEW b \in FileBuffers, slots[i].index = b,
           \A j \in Window : slots[j].index = b => j = i,
           Holds(fileData[b], slots[i].order, s, ants),
           \A c \in Cells : fileData[b][c] # NoData => Kept(ants, fileData[b][c]),
           \A k, l \in 1 .. Len(batch) : batch[k] = batch[l] => k = l,
           \A k \in 1 .. Len(batch), c \in Cells : batch[k] # fileData[b][c]
    PROVE  /\ Cardinality(Filled(SortedData(slots, place, batch)[b]))
                = Cardinality(Filled(fileData[b]))
                  + Cardinality({k \in DOMAIN place : place[k].slot = i})
           /\ IsFiniteSet({k \in DOMAIN place : place[k].slot = i})
<1> DEFINE K == {k \in DOMAIN place : place[k].slot = i}
           F == Filled(fileData[b])
           C == {place[k].cell : k \in K}
           f == [k \in K |-> place[k].cell]
<1>1. /\ Len(batch) \in Nat /\ DOMAIN batch = 1 .. Len(batch)
      /\ DOMAIN place = 1 .. Len(batch) /\ K \subseteq 1 .. Len(batch)
      /\ \A k \in 1 .. Len(batch) : /\ batch[k] \in Packets
                                    /\ place[k] = Place(ants, slots, batch[k])
  BY DEF Places
<1>2. ASSUME NEW k \in 1 .. Len(batch), place[k].slot # -1
      PROVE  /\ Kept(ants, batch[k]) /\ place[k].cell = CellOf(ants, batch[k])
             /\ place[k].slot \in Window
             /\ slots[place[k].slot].packetNo = GET_PACKET_FILTER(batch[k].pckt)
  <2>1. Place(ants, slots, batch[k]).slot # -1 /\ batch[k] \in Packets
        /\ place[k] = Place(ants, slots, batch[k])
    BY <1>1, <1>2
  <2>2. /\ Place(ants, slots, batch[k]).slot \in Window
        /\ slots[Place(ants, slots, batch[k]).slot].packetNo = GET_PACKET_FILTER(batch[k].pckt)
    BY <2>1, PlaceFound
  <2>3. Kept(ants, batch[k])
    BY <2>1 DEF Kept, Place
  <2>4. Place(ants, slots, batch[k]).cell = CellOf(ants, batch[k])
    BY DEF Place, CellOf
  <2> QED BY <2>1, <2>2, <2>3, <2>4
<1>3. i # -1 /\ slots[i].order \in Nat
  BY DEF Window, Slots
<1>4. ASSUME NEW k \in K
      PROVE  /\ k \in 1 .. Len(batch) /\ Kept(ants, batch[k])
             /\ place[k].cell = CellOf(ants, batch[k]) /\ place[k].cell \in Cells
             /\ GET_PACKET_FILTER(batch[k].pckt) = BlockStart(s, slots[i].order)
  <2>1. k \in 1 .. Len(batch) /\ place[k].slot = i /\ place[k].slot # -1
    BY <1>1, <1>3
  <2>2. Kept(ants, batch[k]) /\ place[k].cell = CellOf(ants, batch[k])
        /\ slots[i].packetNo = GET_PACKET_FILTER(batch[k].pckt)
    BY <1>2, <2>1
  <2>3. batch[k].pckt \in 0 .. PCKT_NO_RANGE - 1
    BY <2>2 DEF Kept, Packets
  <2>4. GET_PACKET_FILTER(batch[k].pckt) = BlockStart(s, slots[i].order)
    BY <1>3, <2>2, <2>3, FilterIsStart
  <2> QED BY <2>1, <2>2, <2>4, KeptInCells
<1>5. f \in Bijection(K, C)
  <2>1. ASSUME NEW k \in K, NEW l \in K, place[k].cell = place[l].cell
        PROVE  k = l
    <3>1. batch[k] = batch[l]
      BY <1>4, <2>1, SameCellSamePacket
    <3> QED BY <1>4, <3>1
  <2>2. f \in [K -> C] /\ \A t \in C : \E k \in K : f[k] = t
    OBVIOUS
  <2> QED BY <2>1, <2>2 DEF Bijection, Injection, Surjection, IsInjective
<1>6. IsFiniteSet(K)
  <2>1. IsFiniteSet(1 .. Len(batch))
    BY <1>1, FS_Interval
  <2> HIDE DEF K
  <2> QED BY <1>1, <2>1, FS_Subset
<1>7. IsFiniteSet(C) /\ Cardinality(C) = Cardinality(K)
  <2>1. ExistsBijection(K, C)
    BY <1>5 DEF ExistsBijection
  <2> HIDE DEF K, C
  <2> QED BY <1>6, <2>1, FS_Bijection
<1>8. F \cap C = {}
  <2> SUFFICES ASSUME NEW k \in K, place[k].cell \in F PROVE FALSE
    OBVIOUS
  <2>1. PICK c \in Cells : c = place[k].cell /\ fileData[b][c] # NoData
    BY DEF Filled
  <2>2. /\ Kept(ants, fileData[b][c]) /\ CellOf(ants, fileData[b][c]) = c
        /\ GET_PACKET_FILTER(fileData[b][c].pckt) = BlockStart(s, slots[i].order)
    BY <2>1 DEF Holds, CellOf
  <2>3. fileData[b][c] = batch[k]
    BY <1>4, <2>1, <2>2, SameCellSamePacket
  <2> QED BY <1>4, <2>3
<1>9. Filled(SortedData(slots, place, batch)[b]) = F \cup C
  <2>1. ASSUME NEW c \in Cells
        PROVE  SortedData(slots, place, batch)[b][c] # NoData <=> c \in F \cup C
    <3> DEFINE S == {k \in DOMAIN place : /\ place[k].slot # -1 /\ place[k].cell = c
                                         /\ slots[place[k].slot].index = b}
    <3>1. SortedData(slots, place, batch)[b][c] = IF S = {} THEN fileData[b][c] ELSE batch[Max(S)]
      BY DEF SortedData
    <3>2. \A k : k \in S <=> k \in K /\ place[k].cell = c
      <4>1. ASSUME NEW k \in S PROVE k \in K /\ place[k].cell = c
        BY <1>1, <1>2
      <4>2. ASSUME NEW k \in K, place[k].cell = c PROVE k \in S
        BY <1>3, <4>2
      <4> QED BY <4>1, <4>2
    <3>3. S \in SUBSET (1 .. Len(batch)) /\ (S # {} <=> c \in C)
      <4>1. S \in SUBSET (1 .. Len(batch))
        BY <1>1
      <4> HIDE DEF S, K
      <4> QED BY <3>2, <4>1
    <3> HIDE DEF S
    <3>4. CASE S = {}
      BY <3>1, <3>3, <3>4 DEF Filled
    <3>5. CASE S # {}
      <4>1. Max(S) \in 1 .. Len(batch)
        BY <1>1, <3>3, <3>5, LastOf
      <4>2. batch[Max(S)].pckt \in 0 .. PCKT_NO_RANGE - 1
        BY <1>1, <4>1 DEF Packets
      <4>3. NoData.pckt = -1
        BY DEF NoData
      <4>4. batch[Max(S)] # NoData
        BY <4>2, <4>3, SizesPositive
      <4> QED BY <3>1, <3>3, <3>5, <4>4
    <3> QED BY <3>4, <3>5
  <2>2. F \subseteq Cells /\ C \subseteq Cells
    BY <1>4 DEF Filled
  <2> HIDE DEF F, C
  <2> QED BY <2>1, <2>2 DEF Filled
<1>10. Cardinality(F \cup C) = Cardinality(F) + Cardinality(C)
  <2>1. IsFiniteSet(F) /\ Cardinality(F) \in Nat
    BY CellsFinite
  <2> HIDE DEF F, C
  <2>2. Cardinality(F \cup C) = Cardinality(F) + Cardinality(C) - Cardinality(F \cap C)
    BY <1>7, <2>1, FS_Union
  <2>3. Cardinality(F \cap C) = 0 /\ Cardinality(C) \in Nat
    BY <1>7, <1>8, FS_EmptySet, FS_CardinalityType
  <2> QED BY <2>1, <2>2, <2>3
<1> QED BY <1>6, <1>7, <1>9, <1>10

\* What a cell holds after a batch was held before or is a packet of the batch.
LEMMA SortedFrom ==
    ASSUME NEW slots \in [Window -> Slots], NEW ants, NEW batch \in Seq(Packets),
           NEW place, place = Places(ants, slots, batch),
           NEW b \in FileBuffers, NEW c \in Cells, NEW p,
           p = SortedData(slots, place, batch)[b][c]
    PROVE  \/ p = fileData[b][c]
           \/ \E k \in 1 .. Len(batch) : p = batch[k] /\ Kept(ants, p)
<1> DEFINE S == {k \in DOMAIN place : /\ place[k].slot # -1 /\ place[k].cell = c
                                     /\ slots[place[k].slot].index = b}
<1>1. Len(batch) \in Nat /\ DOMAIN batch = 1 .. Len(batch) /\ DOMAIN place = DOMAIN batch
  BY DEF Places
<1>2. p = IF S = {} THEN fileData[b][c] ELSE batch[Max(S)]
  BY DEF SortedData
<1>3. CASE S # {}
  <2>1. S \in SUBSET (1 .. Len(batch))
    BY <1>1
  <2>2. PICK k \in S : k = Max(S)
    <3> HIDE DEF S
    <3> QED BY <1>1, <1>3, <2>1, LastOf
  <2>3. k \in 1 .. Len(batch) /\ place[k].slot # -1 /\ place[k] = Place(ants, slots, batch[k])
    BY <1>1, <2>1, <2>2 DEF Places
  <2>4. p = batch[k] /\ p \in Packets
    <3> HIDE DEF S
    <3>1. p = batch[k]
      BY <1>2, <1>3, <2>2
    <3>2. batch[k] \in Packets
      BY <2>3
    <3> QED BY <3>1, <3>2
  <2>5. Kept(ants, p)
    BY <2>3, <2>4 DEF Kept, Place
  <2> QED BY <2>3, <2>4, <2>5
<1> QED BY <1>2, <1>3

LEMMA CountSorts ==
    ASSUME UdpInv, BlockInv, CountInv, WorkerSort,
           UNCHANGED udpThreadVars, UNCHANGED fileThreadVars
    PROVE  CountInv'
<1>1. BlockTypes /\ BlockHands /\ BeforeFirst /\ UdpTypes /\ UdpHands
  BY DEF BlockInv, UdpInv
<1>2. PICK batch \in Seq(Packets) : batch = udpData[indexIn] /\ indexIn \in UdpBuffers
  BY <1>1 DEF UdpTypes
<1>3. PICK start : start = LowestPacket(batch)
  OBVIOUS
<1>4. PICK ants : ants = IF first_loop_done THEN wAnts ELSE AntennasOf(batch)
  OBVIOUS
<1>5. PICK slots : slots = IF first_loop_done THEN localStruct ELSE FirstWindow(start)
  OBVIOUS
<1>6. PICK place : place = Places(ants, slots, batch)
  OBVIOUS
<1>7. /\ wPc = "sort" /\ wPc' = "pass1" /\ batch # <<>> /\ wAnts' = ants
      /\ first_loop_done' = TRUE
      /\ localStruct' = SortedSlots(slots, place)
      /\ fileData' = SortedData(slots, place, batch)
      /\ ReturnUdp(indexIn, Empty)
      /\ UNCHANGED <<udpData, received, next_order, lastOrd, files>>
  BY <1>2, <1>3, <1>4, <1>5, <1>6 DEF WorkerSort, WorkerGoto, fileThreadVars, udpThreadVars
<1>8. IF first_loop_done
      THEN UNCHANGED <<packetStart, antNumbers, nextStructPacketNo>>
      ELSE /\ packetStart' = start
           /\ antNumbers' = ants
           /\ nextStructPacketNo' =
                Masked(start + N_FILE_BUFFERS_AT_A_TIME * TIME_INT_PER_BUFFER)
  BY <1>2, <1>3, <1>4 DEF WorkerSort
<1>9. /\ slots \in [Window -> Slots]
      /\ \A i \in Window : /\ slots[i].index = localStruct[i].index
                           /\ slots[i].order = localStruct[i].order
      /\ \E s \in 0 .. PCKT_NO_RANGE - 1 : SortsFrom(s, slots, ants)
  <2>1. UNCHANGED <<lastOrd, files, next_order>> /\ wAnts' = ants /\ first_loop_done' = TRUE
        /\ batch # <<>>
    BY <1>7
  <2> QED BY <1>3, <1>4, <1>5, <1>8, <2>1, SortNumbers
<1>10. PICK s \in 0 .. PCKT_NO_RANGE - 1 : SortsFrom(s, slots, ants)
  BY <1>9
<1>11. ants \in Tables
  BY <1>4, BatchTable DEF CountInv
<1>12. /\ udpOrder[indexIn] # Empty
       /\ \A u \in UdpBuffers : udpOrder'[u] # Empty => u # indexIn /\ udpOrder[u] # Empty
  <2>1. udpOrder[indexIn] = InUse
    BY <1>1, <1>2, <1>7 DEF UdpHands, SorterHas
  <2>2. udpOrder' = [udpOrder EXCEPT ![indexIn] = Empty] /\ udpOrder \in [UdpBuffers -> Int]
    BY <1>1, <1>7, <2>1 DEF ReturnUdp, UdpTypes
  <2> QED BY <1>2, <2>1, <2>2 DEF Empty, InUse
<1>13. \A k \in 1 .. Len(batch) :
         /\ batch[k] \in Arrived(received)
         /\ \A l \in 1 .. Len(batch) : batch[k] = batch[l] => k = l
         /\ \A u \in UdpBuffers : u # indexIn /\ udpOrder[u] # Empty =>
              \A l \in 1 .. Len(udpData[u]) : udpData[u][l] # batch[k]
  BY <1>2, <1>12 DEF CountInv, WaitingOnce
<1>14. \A b \in FileBuffers, c \in Cells : fileData[b][c] # NoData =>
         Kept(ants, fileData[b][c]) /\ \A k \in 1 .. Len(batch) : batch[k] # fileData[b][c]
  <2>1. CASE first_loop_done
    BY <1>2, <1>4, <1>12, <2>1 DEF CountInv, SortedOnce
  <2>2. CASE ~first_loop_done
    BY <1>1, <2>2 DEF BeforeFirst
  <2> QED BY <2>1, <2>2
<1>15. WaitingOnce'
  BY <1>7, <1>12 DEF CountInv, WaitingOnce
<1>16. SortedOnce'
  <2>1. ASSUME NEW b \in FileBuffers, NEW c \in Cells, NEW p, p = fileData'[b][c], p # NoData
        PROVE  /\ p \in Arrived(received) /\ Kept(ants, p)
               /\ \A u \in UdpBuffers : udpOrder'[u] # Empty =>
                    \A k \in 1 .. Len(udpData[u]) : udpData[u][k] # p
    <3>1. \/ p = fileData[b][c]
          \/ \E k \in 1 .. Len(batch) : p = batch[k] /\ Kept(ants, p)
      BY <1>6, <1>7, <1>9, <2>1, SortedFrom
    <3>2. CASE p = fileData[b][c]
      BY <1>12, <1>14, <2>1, <3>2 DEF CountInv, SortedOnce
    <3>3. CASE \E k \in 1 .. Len(batch) : p = batch[k] /\ Kept(ants, p)
      BY <1>12, <1>13, <3>3
    <3> QED BY <3>1, <3>2, <3>3
  <2> QED BY <1>7, <2>1 DEF SortedOnce
<1>17. Unsent' = Window /\ Unsent = Window
  BY <1>7 DEF Unsent
<1>18. ASSUME NEW i \in Window
       PROVE  localStruct'[i].nToFull
                = packetsPerBlock - Cardinality(Filled(fileData'[localStruct'[i].index]))
  <2>1. PICK b \in FileBuffers : b = slots[i].index
    BY <1>9 DEF Slots
  <2>2. PICK old \in Slots : old = slots[i]
    BY <1>9
  <2>3. PICK K : K = {k \in DOMAIN place : place[k].slot = i}
    OBVIOUS
  <2>4. PICK n : n = Cardinality(K)
    OBVIOUS
  <2>5. localStruct'[i] = [old EXCEPT !.nToFull = old.nToFull - n]
    BY <1>7, <2>2, <2>3, <2>4 DEF SortedSlots
  <2>6. localStruct'[i].index = b /\ localStruct'[i].nToFull = old.nToFull - n
    BY <2>1, <2>2, <2>5 DEF Slots
  <2>7. old.nToFull = packetsPerBlock - Cardinality(Filled(fileData[b]))
    <3>1. slots[i].nToFull = localStruct[i].nToFull
      <4>1. CASE first_loop_done
        BY <1>5, <4>1
      <4>2. CASE ~first_loop_done
        <5>1. localStruct[i] \in Slots
          BY <1>1 DEF BlockTypes
        <5>2. slots[i] = [localStruct[i] EXCEPT !.packetNo = start + i * TIME_INT_PER_BUFFER]
          BY <1>5, <4>2 DEF FirstWindow
        <5> QED BY <5>1, <5>2 DEF Slots
      <4> QED BY <4>1, <4>2
    <3> QED BY <1>9, <1>17, <2>1, <2>2, <3>1 DEF CountInv, Counted
  <2>8. /\ Cardinality(Filled(SortedData(slots, place, batch)[b]))
             = Cardinality(Filled(fileData[b])) + n
        /\ IsFiniteSet(K)
    <3>1. s \in Nat
      OBVIOUS
    <3>2. \A j \in Window :
            \/ slots[j].packetNo = s + (slots[j].order - 1) * TIME_INT_PER_BUFFER
            \/ slots[j].packetNo = BlockStart(s, slots[j].order)
      BY <1>10 DEF SortsFrom
    <3>3. \A j \in Window : slots[j].index = b => j = i
      BY <1>1, <1>9, <1>17, <2>1 DEF BlockHands
    <3>4. Holds(fileData[b], slots[i].order, s, ants)
      BY <1>9, <1>10, <1>17, <2>1 DEF SortsFrom
    <3>5. \A c \in Cells : fileData[b][c] # NoData => Kept(ants, fileData[b][c])
      BY <1>14
    <3>6. \A k, l \in 1 .. Len(batch) : batch[k] = batch[l] => k = l
      BY <1>13
    <3>7. \A k \in 1 .. Len(batch), c \in Cells : batch[k] # fileData[b][c]
      <4>1. \A k \in 1 .. Len(batch) : batch[k].pckt \in 0 .. PCKT_NO_RANGE - 1
        <5>1. \A k \in 1 .. Len(batch) : batch[k] \in Packets
          OBVIOUS
        <5> QED BY <5>1 DEF Packets
      <4>2. NoData.pckt = -1
        BY DEF NoData
      <4>3. \A k \in 1 .. Len(batch) : batch[k] # NoData
        BY <4>1, <4>2, SizesPositive
      <4> QED BY <1>14, <4>3
    <3> QED BY <1>6, <1>9, <1>11, <2>1, <2>3, <2>4, <3>1, <3>2, <3>3, <3>4, <3>5, <3>6, <3>7,
               SortFills
  <2>9. n \in Nat /\ Cardinality(Filled(fileData[b])) \in Nat /\ packetsPerBlock \in Nat
    BY <2>4, <2>8, CellsFinite, FS_CardinalityType
  <2> QED BY <1>7, <2>6, <2>7, <2>8, <2>9
<1>19. Counted'
  BY <1>17, <1>18 DEF Counted, Filled
<1> QED BY <1>7, <1>11, <1>15, <1>16, <1>19 DEF CountInv

LEMMA CountInit == Init => CountInv
<1> SUFFICES ASSUME Init PROVE CountInv
  OBVIOUS
<1> USE DEF Init, SharedInit, UdpInit, WorkerInit, FileInit
<1>1. wAnts \in Tables
  BY DEF Tables, NoAnt
<1>2. WaitingOnce
  BY DEF WaitingOnce
<1>3. SortedOnce
  BY DEF SortedOnce
<1>4. Counted
  <2>1. ASSUME NEW i \in Window
        PROVE  /\ localStruct[i].nToFull = packetsPerBlock
               /\ localStruct[i].index \in FileBuffers
    <3>1. localStruct[i] = [packetNo |-> -1, index |-> i, order |-> i + 1,
                            nToFull |-> packetsPerBlock]
      OBVIOUS
    <3> QED BY <3>1, PoolRanges
  <2>2. \A b \in FileBuffers : Filled(fileData[b]) = {}
    BY DEF Filled
  <2>3. packetsPerBlock - 0 = packetsPerBlock
    BY CellsFinite
  <2> HIDE DEF Init, SharedInit, UdpInit, WorkerInit, FileInit
  <2> QED BY <2>1, <2>2, <2>3, FS_EmptySet DEF Counted, Unsent
<1> QED BY <1>1, <1>2, <1>3, <1>4 DEF CountInv

LEMMA CountNext ==
    ASSUME "zero" \notin OddDatagrams, NoDuplicates
    PROVE  RecorderInv /\ CountInv /\ OrdersFit /\ [Next]_vars => CountInv'
<1> SUFFICES ASSUME RecorderInv, CountInv, OrdersFit, [Next]_vars PROVE CountInv'
  OBVIOUS
<1>1. UdpInv /\ BlockInv
  BY DEF RecorderInv, UdpInv, BlockInv
<1>2. /\ received \in Nat /\ Len(Traffic) \in Nat /\ Empty = 0 /\ InUse = -1
      /\ udpOrder \in [UdpBuffers -> Int] /\ udpData \in [UdpBuffers -> Seq(Packets)]
      /\ currentBuffNo \in UdpBuffers /\ indexIn \in UdpBuffers
  BY <1>1, ReceiverAssumption DEF UdpInv, UdpTypes, Empty, InUse
<1>3. CASE UdpStep
  <2>1. UNCHANGED workerVars /\ UNCHANGED <<fileData, localStruct, wAnts>> /\ Unsent' \subseteq Unsent
    BY <1>3 DEF UdpStep, UdpNext, Recv, UdpLoop, UdpFetch, UdpFetchFails, RecvPacket, RecvShort,
                RecvShortFirst, RecvZero, RecvError, RecvZeroStops, UdpReturn, sharedVars, pools,
                workerVars, Unsent
  <2>2. CASE RecvPacket
    BY <1>1, <2>1, <2>2, CountReceives
  <2>3. CASE UdpFetch
    <3>1. PICK b \in UdpBuffers : /\ udpOrder' = [udpOrder EXCEPT ![b] = InUse]
                                  /\ udpData' = [udpData EXCEPT ![b] = <<>>]
      <4>1. udpOrder \in [0 .. N_UDP_BUFFERS - 1 -> Int]
        BY <1>2 DEF UdpBuffers
      <4> QED BY <2>3, <4>1, PoolRanges, FindEmptyResult DEF UdpFetch, UdpBuffers
    <3>2. received' = received /\ Len(<<>>) = 0
      BY <2>3 DEF UdpFetch
    <3>3. \A c \in UdpBuffers : udpOrder'[c] # Empty =>
            \/ Len(udpData'[c]) = 0
            \/ (udpOrder[c] # Empty /\ udpData'[c] = udpData[c])
      BY <1>2, <3>1, <3>2
    <3> QED BY <1>2, <2>1, <3>2, <3>3, CountFrame
  <2>4. CASE UdpReturn
    <3>1. \A c \in UdpBuffers : udpOrder'[c] # Empty => udpOrder[c] # Empty
      BY <1>2, <2>4 DEF UdpReturn, ReturnUdp
    <3>2. UNCHANGED <<udpData, received>>
      BY <2>4 DEF UdpReturn
    <3> QED BY <1>2, <2>1, <3>1, <3>2, CountFrame
  <2>5. CASE UdpLoop \/ UdpFetchFails \/ RecvShort \/ RecvShortFirst \/ RecvError
    <3>1. UNCHANGED <<udpOrder, udpData>>
      BY <2>5 DEF UdpLoop, UdpFetchFails, RecvShort, RecvShortFirst, RecvError, sharedVars, pools
    <3>2. received' \in Nat /\ received' >= received
      BY <1>2, <2>5 DEF UdpLoop, UdpFetchFails, RecvShort, RecvShortFirst, RecvError, Arrives
    <3> QED BY <1>2, <2>1, <3>1, <3>2, CountFrame
  <2>6. ~RecvZero /\ ~RecvZeroStops
    BY <1>1 DEF RecvZero, RecvZeroStops, UdpGoto, UdpInv, UdpTypes
  <2> QED BY <1>3, <2>2, <2>3, <2>4, <2>5, <2>6 DEF UdpStep, UdpNext, Recv
<1>4. CASE WorkerStep
  <2>1. UNCHANGED udpThreadVars /\ UNCHANGED fileThreadVars /\ received' = received
    BY <1>4 DEF WorkerStep, udpThreadVars
  <2>2. CASE WorkerSort
    BY <1>1, <2>1, <2>2, CountSorts
  <2>3. CASE Pass1Refill \/ Pass2Refill
    <3>1. PICK from \in {"refill1", "refill2"}, to \in {"pass1", "pass2"} : Refill(from, to)
      BY <2>3 DEF Pass1Refill, Pass2Refill
    <3> QED BY <1>1, <2>1, <3>1, CountRefills
  <2>4. CASE WorkerFetch
    <3>1. PICK b \in UdpBuffers : udpOrder[b] > 0 /\ udpOrder' = [udpOrder EXCEPT ![b] = InUse]
      <4>1. udpOrder \in [0 .. N_UDP_BUFFERS - 1 -> Int] /\ DOMAIN udpOrder = UdpBuffers
        BY <1>2 DEF UdpBuffers
      <4>2. PICK c \in UdpBuffers : udpOrder[c] > 0
        BY <2>4, <4>1 DEF WorkerFetch, Ready
      <4>3. udpOrder[c] < INT_MAX
        <5>1. udpOrder[c] < uOrder /\ udpOrder[c] \in Int /\ uOrder \in Int
          BY <1>1 DEF UdpInv, UdpHands, UdpTypes
        <5> QED BY <5>1, PoolRanges DEF OrdersFit
      <4>4. ReadyBelow(udpOrder, INT_MAX) # {}
        BY <4>1, <4>2, <4>3 DEF ReadyBelow
      <4>5. findLowest(udpOrder, INT_MAX) \in ReadyBelow(udpOrder, INT_MAX)
        BY <4>1, <4>4, PoolRanges, FindLowestResult
      <4> QED BY <2>4, <4>1, <4>5 DEF ReadyBelow, WorkerFetch
    <3>2. \A c \in UdpBuffers : udpOrder'[c] # Empty => udpOrder[c] # Empty
      BY <1>2, <3>1
    <3>3. UNCHANGED <<udpData, fileData, localStruct, wAnts>> /\ Unsent' \subseteq Unsent
      BY <2>4 DEF WorkerFetch, WorkerGoto, workerLocals, Unsent
    <3> QED BY <1>2, <2>1, <3>2, <3>3, CountFrame
  <2>5. CASE WorkerSortNothing
    <3>1. \A c \in UdpBuffers : udpOrder'[c] # Empty => udpOrder[c] # Empty
      BY <1>2, <2>5 DEF WorkerSortNothing, ReturnUdp
    <3>2. UNCHANGED <<udpData, fileData, localStruct, wAnts>> /\ Unsent' \subseteq Unsent
      BY <2>5 DEF WorkerSortNothing, WorkerGoto, workerLocals, Unsent
    <3> QED BY <1>2, <2>1, <3>1, <3>2, CountFrame
  <2>6. CASE Pass1Publish \/ Pass2Publish
    <3>1. PICK i \in Window, from \in {"pass1", "pass2"}, to \in {"refill1", "refill2"} :
            Publish(i, from, to)
      BY <2>6 DEF Pass1Publish, Pass2Publish
    <3>2. UNCHANGED <<udpOrder, udpData, fileData, localStruct, wAnts>> /\ Unsent' \subseteq Unsent
      BY <3>1 DEF Publish, WorkerGoto, Unsent
    <3> QED BY <1>2, <2>1, <3>2, CountFrame
  <2>7. CASE WorkerStart \/ WorkerLoop \/ WorkerFetchFails \/ Pass1End \/ Pass2End \/ WorkerExit
    <3>1. UNCHANGED <<udpOrder, udpData, fileData, localStruct, wAnts>> /\ Unsent' \subseteq Unsent
      BY <2>7 DEF WorkerStart, WorkerLoop, WorkerFetchFails, Pass1End, Pass2End, WorkerExit,
                  WorkerGoto, workerLocals, sharedVars, Unsent
    <3> QED BY <1>2, <2>1, <3>1, CountFrame
  <2> QED BY <1>4, <2>2, <2>3, <2>4, <2>5, <2>6, <2>7 DEF WorkerStep, WorkerNext
<1>5. CASE FileStep \/ MainStep \/ Interrupt \/ UNCHANGED vars
  <2>1. UNCHANGED <<udpOrder, udpData, received, fileData>>
    BY <1>5 DEF FileStep, FileNext, FileLoop, FileHang, FileFetch, FileFetchFails, FileDiscard,
                FilePutBack, FileNewFile, FileWrite, FileError, MainStep, MainTest, MainSleep,
                Deliver, MainJoin, Interrupt, MainOnly, vars, sharedVars, pools, udpThreadVars
  <2>2. UNCHANGED workerVars
    BY <1>5 DEF FileStep, MainStep, MainTest, MainSleep, Deliver, MainJoin, Interrupt, MainOnly,
                vars
  <2>3. UNCHANGED <<localStruct, wAnts>> /\ Unsent' \subseteq Unsent
    BY <2>2 DEF workerVars, Unsent
  <2> QED BY <1>2, <2>1, <2>3, CountFrame
<1> QED BY <1>3, <1>4, <1>5 DEF Next

\* As long as no packet comes twice, a block whose nToFull has reached 0 has
\* every packet: each packet counted down filled a cell that was empty, in its
\* own block.
THEOREM FullBlocksComplete ==
    ASSUME "zero" \notin OddDatagrams, NoDuplicates
    PROVE  Spec /\ []OrdersFit => []FullIsComplete
<1>1. RecorderInv /\ CountInv /\ OrdersFit /\ [Next]_vars => CountInv'
  BY CountNext
<1>2. RecorderInv /\ CountInv => FullIsComplete
  BY CountComplete DEF RecorderInv
<1> QED BY <1>1, <1>2, CountInit, RecorderInductive, PTL DEF Spec
==============================================================================

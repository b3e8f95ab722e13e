---------------------------- MODULE FormatsProofs ----------------------------
(***************************************************************************)
(* The F-engine packets of a block are where the layout says, the          *)
(* converter's files are prefixes of the antennas' time series, and the    *)
(* parameter arrays fit their block, for every size.  The arithmetic is    *)
(* that of numbers written with two or more digits: a place n * q + r with *)
(* r < n has one q and one r.                                              *)
(***************************************************************************)
EXTENDS Formats, PoolOpsTheorems, FiniteSetTheorems, FunctionTheorems, TLAPS

\* A number is its quotient and remainder, and there are no others.
LEMMA StrideParts ==
    ASSUME NEW n \in Nat \ {0}, NEW b \in Int
    PROVE  b \div n \in Int /\ b % n \in 0 .. n - 1 /\ b = n * (b \div n) + (b % n)
OBVIOUS

\* The two digits of a number are its quotient and its remainder.
LEMMA StrideQuotient ==
    ASSUME NEW n \in Nat \ {0}, NEW q \in Int, NEW r \in 0 .. n - 1
    PROVE  (n * q + r) \div n = q /\ (n * q + r) % n = r
<1>1. PICK b \in Int : b = n * q + r
  OBVIOUS
<1>2. b \div n \in Int /\ b % n \in 0 .. n - 1 /\ b = n * (b \div n) + (b % n)
  BY StrideParts
<1>3. n * (b \div n) + (b % n) = n * q + r
  BY <1>1, <1>2
<1>4. b \div n = q /\ b % n = r
  BY <1>2, <1>3, StrideUnique
<1> QED BY <1>1, <1>4

\* The places below m strides of n are those of the strides 0 .. m - 1.
Strides(m, n) == 0 .. m * n - 1

\* Every number below m * n has a digit below m and a digit below n.
LEMMA StrideOnto ==
    ASSUME NEW n \in Nat \ {0}, NEW m \in Nat, NEW b \in Strides(m, n)
    PROVE  b \div n \in 0 .. m - 1 /\ b % n \in 0 .. n - 1 /\ b = n * (b \div n) + (b % n)
<1> USE DEF Strides
<1>1. b \div n \in Int /\ b % n \in 0 .. n - 1 /\ b = n * (b \div n) + (b % n)
  <2>1. b \in Int
    OBVIOUS
  <2> QED BY <2>1, StrideParts
<1>q. PICK q \in Int, r \in 0 .. n - 1 : q = b \div n /\ r = b % n /\ b = n * q + r
  BY <1>1
<1>2. q >= 0
  <2> SUFFICES ASSUME q <= -1 PROVE FALSE
    BY <1>q
  <2>1. n * q <= -n
    <3>1. PICK e \in Nat : q = -1 - e
      <4>1. -1 - q \in Nat /\ q = -1 - (-1 - q)
        OBVIOUS
      <4> QED BY <4>1
    <3>2. n * q = -n - n * e /\ n * e >= 0 /\ n * e \in Int
      BY <3>1
    <3> QED BY <3>2
  <2>2. n * q \in Int
    OBVIOUS
  <2> QED BY <1>q, <2>1, <2>2
<1>3. q < m
  <2> SUFFICES ASSUME q >= m PROVE FALSE
    BY <1>q
  <2>1. PICK e \in Nat : q = m + e
    <3>1. q - m \in Nat /\ q = m + (q - m)
      OBVIOUS
    <3> QED BY <3>1
  <2>2. n * q = m * n + n * e /\ n * e >= 0 /\ n * e \in Int /\ m * n \in Int
    BY <2>1
  <2> QED BY <1>q, <2>2
<1> QED BY <1>1, <1>q, <1>2, <1>3

\* A factor is cancelled.
LEMMA StrideCancel ==
    ASSUME NEW n \in Nat \ {0}, NEW p \in Int, NEW q \in Int, n * p = n * q
    PROVE  p = q
<1>1. n * p + 0 = n * q + 0 /\ 0 \in 0 .. n - 1
  OBVIOUS
<1> QED BY <1>1, StrideUnique

\* prevpow2 gives a number that is not larger.
LEMMA PrevPow2 ==
    ASSUME NEW x \in Nat
    PROVE  prevpow2(x) \in 0 .. x
<1>1. CASE x = 0
  BY <1>1 DEF prevpow2
<1>2. CASE x # 0
  <2> DEFINE S == {p \in 1 .. x : \E k \in 0 .. 30 : p = 2 ^ k}
             T == {y \in Nat : x - y \in S}
  <2>1. 1 \in S
    <3>1. 1 = 2 ^ 0 /\ 0 \in 0 .. 30 /\ 1 \in 1 .. x
      BY <1>2
    <3> QED BY <3>1
  <2>2. T \in SUBSET Nat /\ x - 1 \in T
    BY <1>2, <2>1
  <2>3. S \subseteq 1 .. x
    OBVIOUS
  <2> HIDE DEF S
  <2>4. PICK y \in T : \A z \in T : y <= z
    <3> HIDE DEF T
    <3> QED BY <2>2, LeastNat
  <2>5. x - y \in S
    OBVIOUS
  <2>6. \A z \in S : z <= x - y
    <3> SUFFICES ASSUME NEW z \in S PROVE z <= x - y
      OBVIOUS
    <3>1. z \in 1 .. x /\ x - z \in Nat /\ x - (x - z) = z
      BY <2>3
    <3>2. x - z \in T
      BY <3>1
    <3> QED BY <2>4, <3>1, <3>2
  <2>7. Max(S) \in S
    BY <2>5, <2>6 DEF Max
  <2>8. prevpow2(x) = Max(S)
    BY <1>2 DEF prevpow2, S
  <2>9. Max(S) \in 1 .. x
    BY <2>3, <2>7
  <2> QED BY <2>8, <2>9
<1> QED BY <1>1, <1>2

RowLen(oi) == 4 * oi.hntime
PayloadRows(oi) == payload_size \div RowLen(oi)
HeapParts(oi) == (4 * oi.hntime * oi.hnchan) \div payload_size

\* The dimensions in terms of rows: a payload is PayloadRows of RowLen bytes,
\* a heap is HeapParts payloads, and a block fits.
LEMMA Dimensions ==
    ASSUME NEW oi \in ObsInfos, Fits(oi)
    PROVE  /\ RowLen(oi) \in Nat \ {0} /\ PayloadRows(oi) \in Nat \ {0}
           /\ HeapParts(oi) \in Nat \ {0} /\ mk_pktidx_per_block(oi) \in Nat \ {0}
           /\ oi.nants \in Nat \ {0} /\ oi.nstrm \in Nat \ {0} /\ oi.hclocks \in Nat \ {0}
           /\ oi.hnchan \in Nat \ {0} /\ oi.hntime \in Nat \ {0} /\ oi.schan \in Int
           /\ payload_size = RowLen(oi) * PayloadRows(oi)
           /\ oi.hnchan = PayloadRows(oi) * HeapParts(oi)
           /\ memcpy_nt_len(RowLen(oi)) = RowLen(oi)
<1>1. /\ oi.nants \in Nat \ {0} /\ oi.nstrm \in Nat \ {0} /\ oi.hclocks \in Nat \ {0}
      /\ oi.hnchan \in Nat \ {0} /\ oi.hntime \in Nat \ {0} /\ oi.schan \in Int
  BY MkAssumption DEF Fits, mk_obs_info_valid
<1>2. PICK H \in Nat \ {0}, c \in Nat \ {0} : H = 4 * oi.hntime /\ c = oi.hnchan
  BY <1>1
<1>3. PICK L \in Nat \ {0}, W \in Nat \ {0} : L = payload_size /\ W = WIDE
  BY MkAssumption
<1>4. L % H = 0 /\ (H * c) % L = 0 /\ H % W = 0
  BY <1>2, <1>3, RowsAssumption
<1>5. L = H * (L \div H) /\ L \div H \in Int
  BY <1>4, StrideParts
<1>6. H * c = L * ((H * c) \div L) /\ (H * c) \div L \in Int
  <2>1. PICK b \in Int : b = H * c
    OBVIOUS
  <2> QED BY <1>4, <2>1, StrideParts
<1>7. H = W * (H \div W)
  BY <1>4, StrideParts
<1>8. PICK R \in Int, K \in Int : R = L \div H /\ K = (H * c) \div L
  BY <1>5, <1>6
<1>9. L = H * R /\ H * c = L * K
  BY <1>5, <1>6, <1>8
<1>10. R \in Nat \ {0}
  <2>1. R <= 0 => H * R <= 0
    OBVIOUS
  <2> QED BY <1>9, <2>1
<1>11. c = R * K
  <2>1. H * c = H * (R * K)
    BY <1>9
  <2> QED BY <2>1, StrideCancel
<1>12. K \in Nat \ {0}
  <2>1. K <= 0 => R * K <= 0
    BY <1>10
  <2> QED BY <1>11, <2>1
<1>13. RowLen(oi) = H /\ PayloadRows(oi) = R /\ HeapParts(oi) = K
  BY <1>2, <1>3, <1>8 DEF RowLen, PayloadRows, HeapParts
<1>14. memcpy_nt_len(RowLen(oi)) = RowLen(oi)
  <2>1. (H \div W) * W = W * (H \div W)
    OBVIOUS
  <2> QED BY <1>3, <1>7, <1>13, <2>1 DEF memcpy_nt_len
<1>15. mk_pktidx_per_block(oi) \in Nat \ {0}
  <2>1. PICK d \in Nat \ {0} : d = 4 * mk_obsnchan(oi) * oi.hntime
    <3>1. mk_obsnchan(oi) \in Nat \ {0}
      BY <1>1 DEF mk_obsnchan
    <3> QED BY <1>1, <3>1
  <2>2. BLOCK_DATA_SIZE \div d \in Nat
    BY MkAssumption
  <2>3. mk_pktidx_per_block(oi) \in Nat
    BY <2>1, <2>2, PrevPow2 DEF mk_pktidx_per_block
  <2> QED BY <2>3 DEF Fits
<1> QED BY <1>1, <1>2, <1>3, <1>9, <1>10, <1>11, <1>12, <1>13, <1>14, <1>15

\* The place of byte x of row r of a packet, by strides: the row of the block,
\* the slot in it, the byte in the slot.
BlockRow(oi, h, r) ==
    PayloadRows(oi) * (HeapParts(oi) * (oi.nstrm * h.feng_id + h.strm) + h.part) + r
Place(oi, h, r, x) ==
    RowLen(oi) * (mk_pktidx_per_block(oi) * BlockRow(oi, h, r) + h.pktidx) + x

\* What a packet says of its heap is in range.
LEMMA HeapParameters ==
    ASSUME NEW oi \in ObsInfos, Fits(oi), NEW h \in Heaps(oi)
    PROVE  /\ h.pktidx \in 0 .. mk_pktidx_per_block(oi) - 1 /\ h.feng_id \in 0 .. oi.nants - 1
           /\ h.strm \in 0 .. oi.nstrm - 1 /\ h.part \in 0 .. HeapParts(oi) - 1
BY DEF Heaps, HeapParts

\* PlaceInBlock of the layout is that place.
LEMMA PlaceByRows ==
    ASSUME NEW oi \in ObsInfos, Fits(oi), NEW h \in Heaps(oi),
           NEW r \in 0 .. PayloadRows(oi) - 1, NEW x \in 0 .. RowLen(oi) - 1
    PROVE  /\ RowLen(oi) * r + x \in 0 .. payload_size - 1
           /\ PlaceInBlock(oi, h, RowLen(oi) * r + x) = Place(oi, h, r, x)
<1>1. PICK H \in Nat \ {0}, R \in Nat \ {0}, K \in Nat \ {0}, P \in Nat \ {0}, S \in Nat \ {0} :
        /\ H = RowLen(oi) /\ R = PayloadRows(oi) /\ K = HeapParts(oi)
        /\ P = mk_pktidx_per_block(oi) /\ S = oi.nstrm
  BY Dimensions
<1>2. PICK q \in Nat, f \in Nat, s \in Nat, k \in Nat :
        q = h.pktidx /\ f = h.feng_id /\ s = h.strm /\ k = h.part
  <2>1. h.pktidx \in Nat /\ h.feng_id \in Nat /\ h.strm \in Nat /\ h.part \in Nat
    BY HeapParameters
  <2> QED BY <2>1
<1>3. /\ payload_size = H * R /\ oi.hnchan = R * K /\ H = 4 * oi.hntime /\ oi.hntime \in Nat
      /\ r \in 0 .. R - 1 /\ x \in 0 .. H - 1
  BY <1>1, Dimensions DEF RowLen
<1>4. H * r + x \in 0 .. payload_size - 1
  <2>1. H * r + x \in 0 .. R * H - 1
    BY <1>3, StrideBound
  <2>2. R * H = H * R
    OBVIOUS
  <2> QED BY <1>3, <2>1, <2>2
<1>5. PICK inHeap \in Int : inHeap = k * payload_size + (H * r + x)
  BY <1>3
<1>6. inHeap = H * (k * R + r) + x
  <2>1. k * (H * R) = H * (k * R)
    OBVIOUS
  <2>2. H * (k * R + r) = H * (k * R) + H * r
    BY <1>3
  <2>3. H * (k * R) \in Int /\ H * r \in Int /\ x \in Int
    BY <1>3
  <2> QED BY <1>3, <1>5, <2>1, <2>2, <2>3
<1>7. inHeap \div H = k * R + r /\ inHeap % H = x
  <2>1. PICK z \in Int, y \in 0 .. H - 1 : z = k * R + r /\ y = x
    BY <1>3
  <2>2. inHeap = H * z + y
    BY <1>6, <2>1
  <2> QED BY <2>1, <2>2, StrideQuotient
<1>8. PICK t \in Int : t = oi.hntime
  BY <1>3
<1>9. PICK c \in Int : c = f * S * (R * K) + s * (R * K) + (k * R + r)
  BY <1>3
<1>10. PlaceInBlock(oi, h, H * r + x) = c * 4 * t * P + (q * 4 * t + x)
  <2>1. h.part * payload_size + (H * r + x) = inHeap
    BY <1>2, <1>5
  <2>2. /\ (h.part * payload_size + (H * r + x)) \div (4 * oi.hntime) = k * R + r
        /\ (h.part * payload_size + (H * r + x)) % (4 * oi.hntime) = x
    BY <1>3, <1>7, <2>1
  <2> QED BY <1>1, <1>2, <1>3, <1>8, <1>9, <2>2 DEF PlaceInBlock
<1>11. c = R * (K * (S * f + s) + k) + r
  BY <1>3, <1>9
<1>12. c * 4 * t * P + (q * 4 * t + x) = H * (P * c + q) + x
  <2>1. c * 4 * t * P + (q * 4 * t + x) = (4 * t) * (P * c + q) + x
    BY <1>3
  <2> QED BY <1>3, <1>8, <2>1
<1>13. Place(oi, h, r, x) = H * (P * c + q) + x
  BY <1>1, <1>2, <1>11 DEF Place, BlockRow
<1> QED BY <1>1, <1>4, <1>10, <1>12, <1>13

\* The bytes of a block, as antennas, streams, channels and samples.
LEMMA BlockBytes ==
    ASSUME NEW oi \in ObsInfos, Fits(oi)
    PROVE  mk_block_size(oi) = ((((oi.nants * oi.nstrm) * HeapParts(oi)) * PayloadRows(oi))
                                * mk_pktidx_per_block(oi)) * RowLen(oi)
<1>1. PICK H \in Nat \ {0}, R \in Nat \ {0}, K \in Nat \ {0}, P \in Nat \ {0}, S \in Nat \ {0},
           A \in Nat \ {0} :
        /\ H = RowLen(oi) /\ R = PayloadRows(oi) /\ K = HeapParts(oi)
        /\ P = mk_pktidx_per_block(oi) /\ S = oi.nstrm /\ A = oi.nants
  BY Dimensions
<1>2. PICK n \in Nat : n = oi.hntime /\ H = 4 * n
  BY <1>1, Dimensions DEF RowLen
<1>3. oi.hnchan = R * K
  BY <1>1, Dimensions
<1>4. mk_block_size(oi) = 4 * (A * S * (R * K)) * n * P
  BY <1>1, <1>2, <1>3 DEF mk_block_size, mk_obsnchan
<1>5. 4 * (A * S * (R * K)) * n * P = ((((A * S) * K) * R) * P) * (4 * n)
  BY <1>2
<1> QED BY <1>1, <1>2, <1>4, <1>5

\* Every place is in the block, and each is the place of one byte only.
LEMMA PlaceRange ==
    ASSUME NEW oi \in ObsInfos, Fits(oi), NEW h \in Heaps(oi),
           NEW r \in 0 .. PayloadRows(oi) - 1, NEW x \in 0 .. RowLen(oi) - 1
    PROVE  Place(oi, h, r, x) \in 0 .. mk_block_size(oi) - 1
<1>1. PICK H \in Nat \ {0}, R \in Nat \ {0}, K \in Nat \ {0}, P \in Nat \ {0}, S \in Nat \ {0},
           A \in Nat \ {0} :
        /\ H = RowLen(oi) /\ R = PayloadRows(oi) /\ K = HeapParts(oi)
        /\ P = mk_pktidx_per_block(oi) /\ S = oi.nstrm /\ A = oi.nants
  BY Dimensions
<1>2. PICK q \in 0 .. P - 1, f \in 0 .. A - 1, s \in 0 .. S - 1, k \in 0 .. K - 1 :
        q = h.pktidx /\ f = h.feng_id /\ s = h.strm /\ k = h.part
  BY <1>1, HeapParameters
<1>3. S * f + s \in 0 .. A * S - 1 /\ A * S \in Nat
  BY StrideBound
<1>4. PICK e \in 0 .. A * S - 1 : e = S * f + s
  BY <1>3
<1>5. K * e + k \in 0 .. (A * S) * K - 1 /\ (A * S) * K \in Nat
  BY <1>3, StrideBound
<1>6. PICK g \in 0 .. (A * S) * K - 1 : g = K * e + k
  BY <1>5
<1>7. R * g + r \in 0 .. ((A * S) * K) * R - 1 /\ ((A * S) * K) * R \in Nat
  <2>1. PICK m \in Nat : m = (A * S) * K
    BY <1>5
  <2>2. PICK y \in 0 .. R - 1 : y = r
    BY <1>1
  <2>3. R * g + y \in 0 .. m * R - 1 /\ m * R \in Nat
    BY <2>1, StrideBound
  <2> QED BY <2>1, <2>2, <2>3
<1>8. PICK c \in 0 .. ((A * S) * K) * R - 1 : c = R * g + r
  BY <1>7
<1>9. P * c + q \in 0 .. (((A * S) * K) * R) * P - 1 /\ (((A * S) * K) * R) * P \in Nat
  BY <1>7, StrideBound
<1>10. PICK t \in 0 .. (((A * S) * K) * R) * P - 1 : t = P * c + q
  BY <1>9
<1>11. H * t + x \in 0 .. ((((A * S) * K) * R) * P) * H - 1
  BY <1>1, <1>9, StrideBound
<1>12. Place(oi, h, r, x) = H * t + x
  BY <1>1, <1>2, <1>4, <1>6, <1>8, <1>10 DEF Place, BlockRow
<1>13. mk_block_size(oi) = ((((A * S) * K) * R) * P) * H
  BY <1>1, BlockBytes
<1> QED BY <1>11, <1>12, <1>13

\* Two bytes of the packets of a block never share a place.
LEMMA PlaceUnique ==
    ASSUME NEW oi \in ObsInfos, Fits(oi), NEW g \in Heaps(oi), NEW h \in Heaps(oi),
           NEW r \in 0 .. PayloadRows(oi) - 1, NEW x \in 0 .. RowLen(oi) - 1,
           NEW u \in 0 .. PayloadRows(oi) - 1, NEW y \in 0 .. RowLen(oi) - 1,
           Place(oi, g, r, x) = Place(oi, h, u, y)
    PROVE  g = h /\ r = u /\ x = y
<1>1. PICK H \in Nat \ {0}, R \in Nat \ {0}, K \in Nat \ {0}, P \in Nat \ {0}, S \in Nat \ {0} :
        /\ H = RowLen(oi) /\ R = PayloadRows(oi) /\ K = HeapParts(oi)
        /\ P = mk_pktidx_per_block(oi) /\ S = oi.nstrm
  BY Dimensions
<1>2. /\ g.pktidx \in 0 .. P - 1 /\ h.pktidx \in 0 .. P - 1
      /\ g.strm \in 0 .. S - 1 /\ h.strm \in 0 .. S - 1
      /\ g.part \in 0 .. K - 1 /\ h.part \in 0 .. K - 1
      /\ g.feng_id \in Int /\ h.feng_id \in Int
  BY <1>1, HeapParameters
<1>3. r \in 0 .. R - 1 /\ u \in 0 .. R - 1 /\ x \in 0 .. H - 1 /\ y \in 0 .. H - 1
  BY <1>1
<1>4. PICK e \in Int, e2 \in Int : e = S * g.feng_id + g.strm /\ e2 = S * h.feng_id + h.strm
  BY <1>2
<1>5. PICK m \in Int, m2 \in Int : m = K * e + g.part /\ m2 = K * e2 + h.part
  BY <1>2
<1>6. PICK c \in Int, c2 \in Int : c = R * m + r /\ c2 = R * m2 + u
  BY <1>3
<1>7. PICK t \in Int, t2 \in Int : t = P * c + g.pktidx /\ t2 = P * c2 + h.pktidx
  BY <1>2
<1>8. H * t + x = H * t2 + y
  BY <1>1, <1>4, <1>5, <1>6, <1>7 DEF Place, BlockRow
<1>9. t = t2 /\ x = y
  BY <1>3, <1>8, StrideUnique
<1>10. c = c2 /\ g.pktidx = h.pktidx
  BY <1>2, <1>7, <1>9, StrideUnique
<1>11. m = m2 /\ r = u
  BY <1>3, <1>6, <1>10, StrideUnique
<1>12. e = e2 /\ g.part = h.part
  BY <1>2, <1>5, <1>11, StrideUnique
<1>13. g.feng_id = h.feng_id /\ g.strm = h.strm
  <2>1. PICK f \in Int, f2 \in Int, s \in 0 .. S - 1, s2 \in 0 .. S - 1 :
          f = g.feng_id /\ f2 = h.feng_id /\ s = g.strm /\ s2 = h.strm
    BY <1>2
  <2>2. S * f + s = S * f2 + s2
    BY <1>4, <1>12, <2>1
  <2>3. f = f2 /\ s = s2
    BY <2>2, StrideUnique
  <2> QED BY <2>1, <2>3
<1>14. g = h
  BY <1>10, <1>12, <1>13 DEF Heaps
<1> QED BY <1>9, <1>11, <1>14

\* Every place of a block is that of some byte of some packet.
LEMMA PlaceOnto ==
    ASSUME NEW oi \in ObsInfos, Fits(oi), NEW b \in 0 .. mk_block_size(oi) - 1
    PROVE  \E h \in Heaps(oi), r \in 0 .. PayloadRows(oi) - 1, x \in 0 .. RowLen(oi) - 1 :
             b = Place(oi, h, r, x)
<1>1. PICK H \in Nat \ {0}, R \in Nat \ {0}, K \in Nat \ {0}, P \in Nat \ {0}, S \in Nat \ {0},
           A \in Nat \ {0} :
        /\ H = RowLen(oi) /\ R = PayloadRows(oi) /\ K = HeapParts(oi)
        /\ P = mk_pktidx_per_block(oi) /\ S = oi.nstrm /\ A = oi.nants
  BY Dimensions
<1>2. PICK d1 \in Nat : d1 = A * S
  OBVIOUS
<1>3. PICK d2 \in Nat : d2 = d1 * K
  OBVIOUS
<1>4. PICK d3 \in Nat : d3 = d2 * R
  OBVIOUS
<1>5. PICK d4 \in Nat : d4 = d3 * P
  OBVIOUS
<1>6. mk_block_size(oi) = d4 * H
  BY <1>1, <1>2, <1>3, <1>4, <1>5, BlockBytes
<1>7. PICK t \in 0 .. d4 - 1, x \in 0 .. H - 1 : b = H * t + x
  <2>1. b \in Strides(d4, H)
    BY <1>6 DEF Strides
  <2>2. /\ b \div H \in 0 .. d4 - 1 /\ b % H \in 0 .. H - 1
        /\ b = H * (b \div H) + (b % H)
    BY <2>1, StrideOnto
  <2> QED BY <2>2
<1>8. PICK c \in 0 .. d3 - 1, q \in 0 .. P - 1 : t = P * c + q
  <2>1. t \in Strides(d3, P)
    BY <1>5 DEF Strides
  <2>2. /\ t \div P \in 0 .. d3 - 1 /\ t % P \in 0 .. P - 1
        /\ t = P * (t \div P) + (t % P)
    BY <2>1, StrideOnto
  <2> QED BY <2>2
<1>9. PICK m \in 0 .. d2 - 1, r \in 0 .. R - 1 : c = R * m + r
  <2>1. c \in Strides(d2, R)
    BY <1>4 DEF Strides
  <2>2. /\ c \div R \in 0 .. d2 - 1 /\ c % R \in 0 .. R - 1
        /\ c = R * (c \div R) + (c % R)
    BY <2>1, StrideOnto
  <2> QED BY <2>2
<1>10. PICK e \in 0 .. d1 - 1, k \in 0 .. K - 1 : m = K * e + k
  <2>1. m \in Strides(d1, K)
    BY <1>3 DEF Strides
  <2>2. /\ m \div K \in 0 .. d1 - 1 /\ m % K \in 0 .. K - 1
        /\ m = K * (m \div K) + (m % K)
    BY <2>1, StrideOnto
  <2> QED BY <2>2
<1>11. PICK f \in 0 .. A - 1, s \in 0 .. S - 1 : e = S * f + s
  <2>1. e \in Strides(A, S)
    BY <1>2 DEF Strides
  <2>2. /\ e \div S \in 0 .. A - 1 /\ e % S \in 0 .. S - 1
        /\ e = S * (e \div S) + (e % S)
    BY <2>1, StrideOnto
  <2> QED BY <2>2
<1>12. PICK h : h = [pktidx |-> q, feng_id |-> f, strm |-> s, part |-> k]
  OBVIOUS
<1>13. h \in Heaps(oi)
  BY <1>1, <1>8, <1>10, <1>11, <1>12 DEF Heaps, HeapParts
<1>14. b = Place(oi, h, r, x)
  BY <1>1, <1>7, <1>8, <1>9, <1>10, <1>11, <1>12 DEF Place, BlockRow
<1> QED BY <1>1, <1>7, <1>9, <1>13, <1>14

\* A block whose dimensions passed mk_obs_info_valid fits the data buffer.
LEMMA BlockHoldsIt ==
    ASSUME NEW oi \in ObsInfos, Fits(oi)
    PROVE  mk_block_size(oi) \in Nat /\ mk_block_size(oi) <= BLOCK_DATA_SIZE
<1>1. PICK N \in Nat \ {0}, n \in Nat \ {0} : N = mk_obsnchan(oi) /\ n = oi.hntime
  <2>1. mk_obsnchan(oi) \in Nat \ {0}
    BY Dimensions DEF mk_obsnchan
  <2> QED BY <2>1, Dimensions
<1>2. PICK d \in Nat \ {0} : d = 4 * N * n
  BY <1>1
<1>3. PICK B \in Nat, z \in Nat : B = BLOCK_DATA_SIZE /\ z = B \div d
  BY <1>2, MkAssumption
<1>4. PICK P \in 0 .. z : P = mk_pktidx_per_block(oi)
  BY <1>1, <1>2, <1>3, PrevPow2 DEF mk_pktidx_per_block
<1>5. mk_block_size(oi) = d * P
  BY <1>1, <1>2, <1>4 DEF mk_block_size
<1>6. d * z <= B
  <2>1. B % d \in 0 .. d - 1 /\ B = d * (B \div d) + (B % d)
    BY StrideParts
  <2>2. d * z \in Int /\ B % d \in Nat /\ B = d * z + (B % d)
    BY <1>3, <2>1
  <2> QED BY <2>2
<1>7. d * P <= d * z
  <2>1. PICK y \in Nat : z = P + y
    <3>1. z - P \in Nat /\ z = P + (z - P)
      OBVIOUS
    <3> QED BY <3>1
  <2>2. d * z = d * P + d * y /\ d * y >= 0 /\ d * y \in Int /\ d * P \in Int
    BY <2>1
  <2> QED BY <2>2
<1>8. d * P \in Nat /\ d * z \in Nat
  OBVIOUS
<1> QED BY <1>3, <1>5, <1>6, <1>7, <1>8

\* The greatest of one element is that element.
LEMMA MaxOne ==
    ASSUME NEW k \in Int
    PROVE  Max({k}) = k
BY DEF Max

\* A packet has all the items, so that nothing of the packet before is left.
LEMMA ParsedItems ==
    ASSUME NEW oi, NEW h, NEW old, NEW fesi, fesi = mk_parse_mkfeng_packet(Items(oi, h), old)
    PROVE  /\ fesi.timestamp = h.pktidx * oi.hclocks + (h.part % oi.hclocks)
           /\ fesi.feng_id = h.feng_id
           /\ fesi.feng_chan = oi.schan + h.strm * oi.hnchan
           /\ fesi.heap_offset = h.part * payload_size
           /\ fesi.payload_size = payload_size
<1> DEFINE items == Items(oi, h)
           S(f) == {k \in DOMAIN items : items[k].id = f}
<1>1. DOMAIN items = 1 .. 6
  BY DEF Items
<1>2. /\ items[1].id = "timestamp" /\ items[2].id = "unknown" /\ items[3].id = "feng_id"
      /\ items[4].id = "feng_chan" /\ items[5].id = "heap_offset" /\ items[6].id = "payload_size"
  BY DEF Items
<1>3. /\ items[1].value = h.pktidx * oi.hclocks + (h.part % oi.hclocks)
      /\ items[3].value = h.feng_id
      /\ items[4].value = oi.schan + h.strm * oi.hnchan
      /\ items[5].value = h.part * payload_size
      /\ items[6].value = payload_size
  BY DEF Items
<1> HIDE DEF items
<1>4. /\ S("timestamp") = {1} /\ S("feng_id") = {3} /\ S("feng_chan") = {4}
      /\ S("heap_offset") = {5} /\ S("payload_size") = {6}
  BY <1>1, <1>2
<1>5. fesi = [f \in SpeadFields |-> IF S(f) = {} THEN old[f] ELSE items[Max(S(f))].value]
  BY DEF mk_parse_mkfeng_packet, items
<1> HIDE DEF S
<1>6. ASSUME NEW f \in SpeadFields, NEW k \in Int, S(f) = {k} PROVE fesi[f] = items[k].value
  <2>1. Max({k}) = k
    BY MaxOne
  <2>2. fesi[f] = items[Max({k})].value
    BY <1>5, <1>6
  <2> QED BY <2>1, <2>2
<1>7. /\ fesi["timestamp"] = items[1].value /\ fesi["feng_id"] = items[3].value
      /\ fesi["feng_chan"] = items[4].value /\ fesi["heap_offset"] = items[5].value
      /\ fesi["payload_size"] = items[6].value
  BY <1>4, <1>6 DEF SpeadFields
<1> QED BY <1>3, <1>7

\* The rows that copy_packet_data_to_databuf copies are the packet's places.
LEMMA RowsCopied ==
    ASSUME NEW oi \in ObsInfos, Fits(oi), NEW h \in Heaps(oi), NEW old, NEW fesi,
           fesi = mk_parse_mkfeng_packet(Items(oi, h), old)
    PROVE  CopyRows(oi, fesi) =
             {[dst |-> Place(oi, h, r, 0), src |-> RowLen(oi) * r, len |-> RowLen(oi)] :
                r \in 0 .. PayloadRows(oi) - 1}
<1>1. PICK H \in Nat \ {0}, R \in Nat \ {0}, K \in Nat \ {0}, P \in Nat \ {0}, S \in Nat \ {0} :
        /\ H = RowLen(oi) /\ R = PayloadRows(oi) /\ K = HeapParts(oi)
        /\ P = mk_pktidx_per_block(oi) /\ S = oi.nstrm
  BY Dimensions
<1>2. PICK q \in 0 .. P - 1, f \in Nat, s \in Nat, k \in Nat :
        q = h.pktidx /\ f = h.feng_id /\ s = h.strm /\ k = h.part
  <2>1. h.pktidx \in 0 .. P - 1 /\ h.feng_id \in Nat /\ h.strm \in Nat /\ h.part \in Nat
    BY <1>1, HeapParameters
  <2> QED BY <2>1
<1>3. PICK n \in Nat, C \in Nat \ {0}, a \in Int : n = oi.hntime /\ C = oi.hclocks /\ a = oi.schan
  BY Dimensions
<1>4. payload_size = H * R /\ oi.hnchan = R * K /\ H = 4 * n
  BY <1>1, <1>3, Dimensions DEF RowLen
<1>5. mk_pktidx(oi, fesi) % P = q
  <2>1. fesi.timestamp = q * C + (k % C)
    BY <1>2, <1>3, ParsedItems
  <2>2. PICK z \in 0 .. C - 1 : z = k % C
    OBVIOUS
  <2>3. q * C + z = C * q + z
    OBVIOUS
  <2>4. (C * q + z) \div C = q
    BY StrideQuotient
  <2>5. q % P = q
    OBVIOUS
  <2> QED BY <1>3, <2>1, <2>2, <2>3, <2>4, <2>5 DEF mk_pktidx
<1>6. mk_block_chan(oi, fesi) = f * S * (R * K) + s * (R * K)
  <2>1. fesi.feng_id = f /\ fesi.feng_chan = a + s * (R * K)
    BY <1>2, <1>3, <1>4, ParsedItems
  <2>2. PICK z \in Int : z = s * (R * K)
    OBVIOUS
  <2>3. (a + z) - a = z
    OBVIOUS
  <2> QED BY <1>1, <1>3, <1>4, <2>1, <2>2, <2>3 DEF mk_block_chan
<1>7. fesi.heap_offset \div H = k * R
  <2>1. fesi.heap_offset = k * (H * R)
    BY <1>2, <1>4, ParsedItems
  <2>2. PICK z \in Int, y \in 0 .. H - 1 : z = k * R /\ y = 0
    OBVIOUS
  <2>3. k * (H * R) = H * z + y
    BY <2>2
  <2> QED BY <2>1, <2>2, <2>3, StrideQuotient
<1>8. (fesi.payload_size + H - 1) \div H = R
  <2>1. PICK y \in 0 .. H - 1 : y = H - 1
    OBVIOUS
  <2>2. fesi.payload_size + H - 1 = H * R + y
    <3>1. PICK z \in Int : z = H * R
      OBVIOUS
    <3>2. fesi.payload_size = z
      BY <1>4, <3>1, ParsedItems
    <3> QED BY <2>1, <3>1, <3>2
  <2>3. (H * R + y) \div H = R
    BY StrideQuotient
  <2> QED BY <2>2, <2>3
<1>9. 4 * mk_ntime(oi) = H * P
  <2>1. 4 * (n * P) = (4 * n) * P
    OBVIOUS
  <2> QED BY <1>1, <1>3, <1>4, <2>1 DEF mk_ntime
<1>10. memcpy_nt_len(H) = H
  BY <1>1, Dimensions
<1>11. PICK d \in Int : d = q * H + (f * S * (R * K) + s * (R * K)) * (H * P) + (k * R) * (H * P)
  OBVIOUS
<1>12. CopyRows(oi, fesi) = {[dst |-> d + r * (H * P), src |-> r * H, len |-> H] : r \in 0 .. R - 1}
  <2>1. 4 * oi.hntime = H
    BY <1>3, <1>4
  <2> QED BY <1>1, <1>5, <1>6, <1>7, <1>8, <1>9, <1>10, <1>11, <2>1 DEF CopyRows
<1>13. ASSUME NEW r \in 0 .. R - 1
       PROVE  d + r * (H * P) = Place(oi, h, r, 0) /\ r * H = H * r
  <2>1. PICK c \in Int : c = R * (K * (S * f + s) + k) + r
    OBVIOUS
  <2>2. c = (f * S * (R * K) + s * (R * K)) + k * R + r
    BY <2>1
  <2>3. d + r * (H * P) = H * (P * c + q) + 0
    BY <1>11, <2>2
  <2>4. Place(oi, h, r, 0) = H * (P * c + q) + 0
    BY <1>1, <1>2, <2>1 DEF Place, BlockRow
  <2> QED BY <2>3, <2>4
<1> QED BY <1>1, <1>12, <1>13

Rows(oi) == 0 .. PayloadRows(oi) - 1
InRow(oi) == 0 .. RowLen(oi) - 1
\* What the layout has at a packet's places.
ByteAt(oi, h, r, x) == [pkt |-> h, byte |-> RowLen(oi) * r + x]

\* One packet's copy: its places get its bytes, the others stay as they are.
LEMMA CopiedBytes ==
    ASSUME NEW oi \in ObsInfos, Fits(oi), NEW h \in Heaps(oi), NEW old, NEW fesi,
           fesi = mk_parse_mkfeng_packet(Items(oi, h), old),
           NEW new, new = copy_packet_data_to_databuf(oi, fesi, h),
           NEW b \in DOMAIN block, DOMAIN block \subseteq Int
    PROVE  /\ \A r \in Rows(oi), x \in InRow(oi) :
                b = Place(oi, h, r, x) => new[b] = ByteAt(oi, h, r, x)
           /\ (\A r \in Rows(oi), x \in InRow(oi) : b # Place(oi, h, r, x)) => new[b] = block[b]
<1>1. PICK H \in Nat \ {0} : H = RowLen(oi)
  BY Dimensions
<1> DEFINE C == CopyRows(oi, fesi)
           T == {c \in C : b \in c.dst .. c.dst + c.len - 1}
           Row(r) == [dst |-> Place(oi, h, r, 0), src |-> H * r, len |-> H]
<1>2. C = {Row(r) : r \in Rows(oi)}
  BY <1>1, RowsCopied DEF Rows
<1>3. new[b] = IF T = {} THEN block[b]
               ELSE [pkt |-> h, byte |-> (CHOOSE c \in T : TRUE).src + b
                                          - (CHOOSE c \in T : TRUE).dst]
  BY DEF copy_packet_data_to_databuf
<1> HIDE DEF C
<1>4. \A r \in Rows(oi), x \in InRow(oi) :
        Place(oi, h, r, x) = Place(oi, h, r, 0) + x /\ Place(oi, h, r, 0) \in Int
  <2> SUFFICES ASSUME NEW r \in Rows(oi), NEW x \in InRow(oi)
               PROVE  Place(oi, h, r, x) = Place(oi, h, r, 0) + x /\ Place(oi, h, r, 0) \in Int
    OBVIOUS
  <2>1. 0 \in InRow(oi) /\ x \in Int
    BY Dimensions DEF InRow
  <2>2. Place(oi, h, r, 0) \in Int
    BY <2>1, PlaceRange DEF Rows, InRow
  <2>3. PICK z : /\ Place(oi, h, r, 0) = z + 0 /\ Place(oi, h, r, x) = z + x
                 /\ z = H * (mk_pktidx_per_block(oi) * BlockRow(oi, h, r) + h.pktidx)
    BY <1>1 DEF Place
  <2>4. z \in Int
    <3>1. BlockRow(oi, h, r) \in Int
      <4>1. PayloadRows(oi) \in Int /\ HeapParts(oi) \in Int /\ oi.nstrm \in Int /\ r \in Int
        BY Dimensions DEF Rows
      <4>2. h.feng_id \in Int /\ h.strm \in Int /\ h.part \in Int
        BY HeapParameters
      <4> QED BY <4>1, <4>2 DEF BlockRow
    <3>2. mk_pktidx_per_block(oi) \in Int /\ h.pktidx \in Int
      BY Dimensions, HeapParameters
    <3> QED BY <2>3, <3>1, <3>2
  <2> QED BY <2>1, <2>2, <2>3, <2>4
<1>5. b \in Int
  OBVIOUS
<1>6. ASSUME NEW c \in T
      PROVE  \E r \in Rows(oi), x \in InRow(oi) :
               /\ b = Place(oi, h, r, x)
               /\ c.src + b - c.dst = H * r + x
  <2>1. PICK r \in Rows(oi) : c = Row(r)
    BY <1>2
  <2>2. 0 \in InRow(oi) /\ r \in Int
    BY Dimensions DEF InRow, Rows
  <2>3. PICK p \in Int : p = Place(oi, h, r, 0)
    BY <1>4, <2>2
  <2>4. c.dst = p /\ c.src = H * r /\ c.len = H
    BY <2>1, <2>3
  <2>5. b \in p .. p + H - 1
    BY <2>4
  <2>6. PICK x \in InRow(oi) : x = b - p
    BY <1>1, <1>5, <2>5 DEF InRow
  <2>7. b = Place(oi, h, r, x)
    BY <1>4, <1>5, <2>3, <2>6
  <2>8. PICK y \in Int : y = H * r
    BY <2>2
  <2>9. y + b - p = y + x
    BY <1>5, <2>6
  <2> QED BY <2>4, <2>7, <2>8, <2>9
<1>7. ASSUME NEW r \in Rows(oi), NEW x \in InRow(oi), b = Place(oi, h, r, x)
      PROVE  new[b] = ByteAt(oi, h, r, x)
  <2>1. T # {}
    <3>1. Row(r) \in C
      BY <1>2
    <3>2. 0 \in InRow(oi) /\ x \in 0 .. H - 1
      BY <1>1, Dimensions DEF InRow
    <3>3. PICK p \in Int : p = Place(oi, h, r, 0)
      BY <1>4, <3>2
    <3>4. b \in p .. p + H - 1
      BY <1>4, <1>5, <1>7, <3>2, <3>3
    <3> QED BY <3>1, <3>3, <3>4
  <2>2. PICK c \in T : c = CHOOSE e \in T : TRUE
    BY <2>1
  <2>3. PICK u \in Rows(oi), y \in InRow(oi) :
          b = Place(oi, h, u, y) /\ c.src + b - c.dst = H * u + y
    BY <1>6
  <2>4. r = u /\ x = y
    <3>1. Place(oi, h, r, x) = Place(oi, h, u, y)
      BY <1>7, <2>3
    <3> QED BY <3>1, PlaceUnique DEF Rows, InRow
  <2>5. new[b] = [pkt |-> h, byte |-> c.src + b - c.dst]
    BY <1>3, <2>1, <2>2
  <2> QED BY <1>1, <2>3, <2>4, <2>5 DEF ByteAt
<1>8. ASSUME \A r \in Rows(oi), x \in InRow(oi) : b # Place(oi, h, r, x)
      PROVE  new[b] = block[b]
  <2>1. T = {}
    BY <1>6, <1>8
  <2> QED BY <1>3, <2>1
<1> QED BY <1>7, <1>8

------------------------------------------------------------------------------
\* Every byte of every packet that arrived is at its place, and nothing else
\* is in the block.
MkInv ==
    /\ part = "mkfeng" => obs_info \in ObsInfos
    /\ DOMAIN block = 0 .. BLOCK_DATA_SIZE - 1
    /\ arrived # {} => obs_info \in ObsInfos /\ Fits(obs_info) /\ arrived \subseteq Heaps(obs_info)
    /\ \A h \in arrived : \A r \in Rows(obs_info), x \in InRow(obs_info) :
         block[Place(obs_info, h, r, x)] = ByteAt(obs_info, h, r, x)
    /\ \A b \in DOMAIN block : block[b] # Nothing =>
         \E h \in arrived : \E r \in Rows(obs_info), x \in InRow(obs_info) :
           b = Place(obs_info, h, r, x)

\* The invariant gives the layout of the block.
LEMMA MkInvHolds == MkInv => PacketsInPlace
<1> SUFFICES ASSUME MkInv, NEW h0 \in arrived PROVE PacketsInPlace
  BY DEF PacketsInPlace
<1> DEFINE oi == obs_info
<1>1. oi \in ObsInfos /\ Fits(oi) /\ arrived \subseteq Heaps(oi)
  BY DEF MkInv
<1>2. mk_block_size(oi) \in Nat /\ mk_block_size(oi) <= BLOCK_DATA_SIZE /\ BLOCK_DATA_SIZE \in Nat
  BY <1>1, BlockHoldsIt, MkAssumption
<1>3. ASSUME NEW h \in arrived, NEW byte \in 0 .. payload_size - 1
      PROVE  /\ PlaceInBlock(oi, h, byte) < BLOCK_DATA_SIZE
             /\ block[PlaceInBlock(oi, h, byte)] = [pkt |-> h, byte |-> byte]
  <2>1. PICK H \in Nat \ {0}, R \in Nat \ {0} :
          H = RowLen(oi) /\ R = PayloadRows(oi) /\ payload_size = H * R
    BY <1>1, Dimensions
  <2>2. byte \in Strides(R, H)
    <3>1. R * H = H * R
      OBVIOUS
    <3> QED BY <2>1, <3>1 DEF Strides
  <2>3. PICK r \in 0 .. R - 1, x \in 0 .. H - 1 : byte = H * r + x
    <3>1. byte \div H \in 0 .. R - 1 /\ byte % H \in 0 .. H - 1
          /\ byte = H * (byte \div H) + (byte % H)
      BY <2>2, StrideOnto
    <3> QED BY <3>1
  <2>4. r \in Rows(oi) /\ x \in InRow(oi)
    BY <2>1 DEF Rows, InRow
  <2>5. PlaceInBlock(oi, h, byte) = Place(oi, h, r, x)
    BY <1>1, <2>1, <2>3, PlaceByRows
  <2>6. Place(oi, h, r, x) \in 0 .. mk_block_size(oi) - 1
    BY <1>1, <2>1, PlaceRange
  <2>7. block[Place(oi, h, r, x)] = [pkt |-> h, byte |-> byte]
    BY <2>1, <2>3, <2>4 DEF MkInv, ByteAt
  <2> QED BY <1>2, <2>5, <2>6, <2>7
<1>4. ASSUME arrived = Heaps(oi)
      PROVE  {b \in DOMAIN block : block[b] # Nothing} = 0 .. mk_block_size(oi) - 1
  <2>1. ASSUME NEW b \in DOMAIN block, block[b] # Nothing PROVE b \in 0 .. mk_block_size(oi) - 1
    <3>1. PICK h \in arrived : \E r \in Rows(oi), x \in InRow(oi) : b = Place(oi, h, r, x)
      BY <2>1 DEF MkInv
    <3>2. PICK r \in Rows(oi), x \in InRow(oi) : b = Place(oi, h, r, x)
      BY <3>1
    <3> QED BY <1>1, <3>2, PlaceRange DEF Rows, InRow
  <2>2. ASSUME NEW b \in 0 .. mk_block_size(oi) - 1
        PROVE  b \in DOMAIN block /\ block[b] # Nothing
    <3>1. b \in DOMAIN block
      BY <1>2 DEF MkInv
    <3>2. PICK h \in Heaps(oi), r \in 0 .. PayloadRows(oi) - 1, x \in 0 .. RowLen(oi) - 1 :
            b = Place(oi, h, r, x)
      BY <1>1, PlaceOnto
    <3>3. block[b] = ByteAt(oi, h, r, x)
      BY <1>4, <3>2 DEF MkInv, Rows, InRow
    <3>4. RowLen(oi) * r + x # -1
      <4>1. RowLen(oi) * r + x \in 0 .. payload_size - 1
        BY <1>1, PlaceByRows
      <4> QED BY <4>1, MkAssumption
    <3> QED BY <3>1, <3>3, <3>4 DEF ByteAt, Nothing
  <2> QED BY <2>1, <2>2
<1> QED BY <1>3, <1>4 DEF PacketsInPlace

\* An empty block.
LEMMA InitMkInv == Init => MkInv
<1> SUFFICES ASSUME Init PROVE MkInv
  OBVIOUS
<1>1. /\ block = [b \in 0 .. BLOCK_DATA_SIZE - 1 |-> Nothing] /\ arrived = {}
      /\ obs_info \in MayStart("mkfeng", ObsInfos)
  BY DEF Init, MkInit
<1>2. part = "mkfeng" => obs_info \in ObsInfos
  BY <1>1 DEF MayStart
<1> QED BY <1>1, <1>2 DEF MkInv

\* A packet's copy keeps what is at other places.
LEMMA PacketMkInv ==
    ASSUME MkInv, part = "mkfeng", part' = part, MkPacket
    PROVE  MkInv'
<1> DEFINE oi == obs_info
<1>1. Fits(oi) /\ obs_info' = oi
  BY DEF MkPacket
<1>2. PICK h \in Heaps(oi) \ arrived :
        /\ feng_spead_info' = mk_parse_mkfeng_packet(Items(oi, h), feng_spead_info)
        /\ block' = copy_packet_data_to_databuf(oi, feng_spead_info', h)
        /\ arrived' = arrived \cup {h}
  BY DEF MkPacket
<1>3. oi \in ObsInfos /\ arrived \subseteq Heaps(oi)
  BY DEF MkInv
<1>4. DOMAIN block' = DOMAIN block /\ DOMAIN block = 0 .. BLOCK_DATA_SIZE - 1
  BY <1>2 DEF MkInv, copy_packet_data_to_databuf
<1>5. ASSUME NEW b \in DOMAIN block
      PROVE  /\ \A r \in Rows(oi), x \in InRow(oi) :
                  b = Place(oi, h, r, x) => block'[b] = ByteAt(oi, h, r, x)
             /\ (\A r \in Rows(oi), x \in InRow(oi) : b # Place(oi, h, r, x))
                  => block'[b] = block[b]
  <2>1. DOMAIN block \subseteq Int
    BY <1>4, MkAssumption
  <2>2. PICK fesi, new : fesi = feng_spead_info' /\ new = block'
    OBVIOUS
  <2> QED BY <1>1, <1>2, <1>3, <2>1, <2>2, CopiedBytes
<1>6. ASSUME NEW g \in arrived', NEW r \in Rows(oi), NEW x \in InRow(oi)
      PROVE  block'[Place(oi, g, r, x)] = ByteAt(oi, g, r, x)
  <2>1. g \in Heaps(oi)
    BY <1>2, <1>3
  <2>2. Place(oi, g, r, x) \in 0 .. mk_block_size(oi) - 1
    BY <1>1, <1>3, <2>1, PlaceRange DEF Rows, InRow
  <2>3. mk_block_size(oi) \in Nat /\ mk_block_size(oi) <= BLOCK_DATA_SIZE /\ BLOCK_DATA_SIZE \in Nat
    BY <1>1, <1>3, BlockHoldsIt, MkAssumption
  <2>4. Place(oi, g, r, x) \in DOMAIN block
    BY <1>4, <2>2, <2>3
  <2>5. CASE g = h
    BY <1>5, <2>4, <2>5
  <2>6. CASE g # h
    <3>1. g \in arrived
      BY <1>2, <2>6
    <3>2. \A u \in Rows(oi), y \in InRow(oi) : Place(oi, g, r, x) # Place(oi, h, u, y)
      BY <1>1, <1>3, <2>1, <2>6, PlaceUnique DEF Rows, InRow
    <3>3. block'[Place(oi, g, r, x)] = block[Place(oi, g, r, x)]
      BY <1>5, <2>4, <3>2
    <3> QED BY <3>1, <3>3 DEF MkInv
  <2> QED BY <2>5, <2>6
<1>7. ASSUME NEW b \in DOMAIN block, block'[b] # Nothing
      PROVE  \E g \in arrived' : \E r \in Rows(oi), x \in InRow(oi) : b = Place(oi, g, r, x)
  <2>1. CASE \E r \in Rows(oi), x \in InRow(oi) : b = Place(oi, h, r, x)
    BY <1>2, <2>1
  <2>2. CASE \A r \in Rows(oi), x \in InRow(oi) : b # Place(oi, h, r, x)
    <3>1. block[b] # Nothing
      BY <1>5, <1>7, <2>2
    <3>2. PICK g \in arrived : \E r \in Rows(oi), x \in InRow(oi) : b = Place(oi, g, r, x)
      BY <3>1 DEF MkInv
    <3> QED BY <1>2, <3>2
  <2> QED BY <2>1, <2>2
<1>8. arrived' \subseteq Heaps(oi)
  BY <1>2, <1>3
<1> QED BY <1>1, <1>3, <1>4, <1>6, <1>7, <1>8 DEF MkInv

\* Whatever the dimensions and the order of the packets, after each copy every
\* byte so far is where the layout of hpguppi_mkfeng.h says, and a whole block's
\* packets fill exactly the bytes that BLOCSIZE announces.
THEOREM PacketsPlaced == Spec => []PacketsInPlace
<1>1. Init => MkInv
  BY InitMkInv
<1>2. MkInv /\ [Next]_<<part, mkVars, udpVars, convVars, parVars>> => MkInv'
  <2> SUFFICES ASSUME MkInv, [Next]_<<part, mkVars, udpVars, convVars, parVars>> PROVE MkInv'
    OBVIOUS
  <2>1. CASE UNCHANGED <<part, mkVars>>
    BY <2>1 DEF MkInv, mkVars
  <2>2. CASE part = "mkfeng" /\ MkPacket /\ part' = part
    BY <2>2, PacketMkInv
  <2> QED BY <2>1, <2>2 DEF Next
<1>3. MkInv => PacketsInPlace
  BY MkInvHolds
<1> QED BY <1>1, <1>2, <1>3, PTL DEF Spec

------------------------------------------------------------------------------
\* The header bytes that the file of antenna i does begin with, and its samples
\* and time series after them.
HeaderBytes(r, i) == IF r.add_header /\ i = 1 THEN HEADER_LEN ELSE 0
Sample(r, i, t, l, m, n, half) == SampleAfter(HeaderBytes(r, i), r, i, t, l, m, n, half)
Series(r, i, steps) == SeriesAfter(HeaderBytes(r, i), r, i, steps)

\* The sizes of a recording and of its buffers are positive.
LEMMA RecordingSizes ==
    ASSUME NEW r \in Recordings
    PROVE  /\ r.nAnts \in Nat \ {0} /\ r.nChanpkts \in Nat \ {0}
           /\ BITS_MULTIPLAYER(r) \in Nat \ {0}
           /\ SAMPLES_PER_PACKET \in Nat \ {0} /\ ROW \in Nat \ {0}
           /\ r.length \in Nat /\ r.antIDs \in Seq(Nat) /\ Len(r.antIDs) = r.nAnts
           /\ inBufferLen(r) \in Nat \ {0} /\ outBufferLen(r) \in Nat \ {0}
           /\ \A i : HeaderBytes(r, i) \in Nat
<1>1. /\ r.nAnts \in Nat \ {0} /\ r.nChanpkts \in Nat \ {0}
      /\ SAMPLES_PER_PACKET \in Nat \ {0} /\ ROW \in Nat \ {0}
      /\ r.length \in Nat /\ r.antIDs \in Seq(Nat) /\ Len(r.antIDs) = r.nAnts
      /\ HEADER_LEN \in Nat
  BY ConvAssumption
<1>2. BITS_MULTIPLAYER(r) \in Nat \ {0}
  BY DEF BITS_MULTIPLAYER
<1>3. RX_DATA_LEN \in Nat \ {0}
  BY <1>1 DEF RX_DATA_LEN
<1>4. inBufferLen(r) \in Nat \ {0}
  <2>1. RX_DATA_LEN * r.nAnts \in Nat \ {0}
    BY <1>1, <1>3
  <2> QED BY <1>1, <2>1 DEF inBufferLen
<1>5. outBufferLen(r) \in Nat \ {0}
  <2>1. RX_DATA_LEN * r.nChanpkts \in Nat \ {0}
    BY <1>1, <1>3
  <2> QED BY <1>2, <2>1 DEF outBufferLen
<1>6. \A i : HeaderBytes(r, i) \in Nat
  BY <1>1 DEF HeaderBytes
<1> QED BY <1>1, <1>2, <1>4, <1>5, <1>6

Chans(r) == 0 .. r.nChanpkts - 1
Times == 0 .. SAMPLES_PER_PACKET - 1
Bytes == 0 .. ROW - 1
Halves(r) == 0 .. BITS_MULTIPLAYER(r) - 1

\* The place of a component in what one time step adds to a file.
InStep(r, l, m, n, half) ==
    BITS_MULTIPLAYER(r) * (ROW * (r.nChanpkts * m + l) + n) + half

\* The bytes that one time step adds to a file, as samples, channels and bytes.
LEMMA StepBytes ==
    ASSUME NEW r \in Recordings
    PROVE  outBufferLen(r)
             = ((SAMPLES_PER_PACKET * r.nChanpkts) * ROW) * BITS_MULTIPLAYER(r)
<1>1. PICK B \in Nat, C \in Nat, M \in Nat, W \in Nat :
        B = BITS_MULTIPLAYER(r) /\ C = r.nChanpkts /\ M = SAMPLES_PER_PACKET /\ W = ROW
  BY RecordingSizes
<1>2. (M * W) * C * B = ((M * C) * W) * B
  OBVIOUS
<1> QED BY <1>1, <1>2 DEF outBufferLen, RX_DATA_LEN

\* A component is within its time step,
LEMMA InStepRange ==
    ASSUME NEW r \in Recordings, NEW l \in Chans(r), NEW m \in Times, NEW n \in Bytes,
           NEW half \in Halves(r)
    PROVE  InStep(r, l, m, n, half) \in 0 .. outBufferLen(r) - 1
<1>1. PICK B \in Nat \ {0}, C \in Nat \ {0}, M \in Nat \ {0}, W \in Nat \ {0} :
        B = BITS_MULTIPLAYER(r) /\ C = r.nChanpkts /\ M = SAMPLES_PER_PACKET /\ W = ROW
  BY RecordingSizes
<1>2. l \in 0 .. C - 1 /\ m \in 0 .. M - 1 /\ n \in 0 .. W - 1 /\ half \in 0 .. B - 1
  BY <1>1 DEF Chans, Times, Bytes, Halves
<1>3. PICK d \in Nat : d = M * C
  OBVIOUS
<1>4. PICK e \in Nat : e = d * W
  OBVIOUS
<1>5. PICK u \in 0 .. d - 1 : u = C * m + l
  <2>1. C * m + l \in 0 .. M * C - 1
    BY <1>2, StrideBound
  <2> QED BY <1>3, <2>1
<1>6. PICK v \in 0 .. e - 1 : v = W * u + n
  <2>1. W * u + n \in 0 .. d * W - 1
    BY <1>2, StrideBound
  <2> QED BY <1>4, <2>1
<1>7. B * v + half \in 0 .. e * B - 1
  BY <1>2, StrideBound
<1>8. outBufferLen(r) = e * B
  BY <1>1, <1>3, <1>4, StepBytes
<1> QED BY <1>1, <1>5, <1>6, <1>7, <1>8 DEF InStep

\* two components are at two places of it,
LEMMA InStepUnique ==
    ASSUME NEW r \in Recordings, NEW l \in Chans(r), NEW m \in Times, NEW n \in Bytes,
           NEW half \in Halves(r), NEW l2 \in Chans(r), NEW m2 \in Times, NEW n2 \in Bytes,
           NEW half2 \in Halves(r), InStep(r, l, m, n, half) = InStep(r, l2, m2, n2, half2)
    PROVE  l = l2 /\ m = m2 /\ n = n2 /\ half = half2
<1>1. PICK B \in Nat \ {0}, C \in Nat \ {0}, M \in Nat \ {0}, W \in Nat \ {0} :
        B = BITS_MULTIPLAYER(r) /\ C = r.nChanpkts /\ M = SAMPLES_PER_PACKET /\ W = ROW
  BY RecordingSizes
<1>2. /\ l \in 0 .. C - 1 /\ m \in Int /\ n \in 0 .. W - 1 /\ half \in 0 .. B - 1
      /\ l2 \in 0 .. C - 1 /\ m2 \in Int /\ n2 \in 0 .. W - 1 /\ half2 \in 0 .. B - 1
  BY <1>1 DEF Chans, Times, Bytes, Halves
<1>3. PICK u \in Int, u2 \in Int : u = C * m + l /\ u2 = C * m2 + l2
  BY <1>2
<1>4. PICK v \in Int, v2 \in Int : v = W * u + n /\ v2 = W * u2 + n2
  BY <1>2
<1>5. B * v + half = B * v2 + half2
  BY <1>1, <1>3, <1>4 DEF InStep
<1>6. v = v2 /\ half = half2
  BY <1>2, <1>5, StrideUnique
<1>7. u = u2 /\ n = n2
  BY <1>2, <1>4, <1>6, StrideUnique
<1>8. m = m2 /\ l = l2
  BY <1>2, <1>3, <1>7, StrideUnique
<1> QED BY <1>6, <1>7, <1>8

\* and no place of it is left out.
LEMMA InStepOnto ==
    ASSUME NEW r \in Recordings, NEW a \in 0 .. outBufferLen(r) - 1
    PROVE  \E l \in Chans(r), m \in Times, n \in Bytes, half \in Halves(r) :
             a = InStep(r, l, m, n, half)
<1>1. PICK B \in Nat \ {0}, C \in Nat \ {0}, M \in Nat \ {0}, W \in Nat \ {0} :
        B = BITS_MULTIPLAYER(r) /\ C = r.nChanpkts /\ M = SAMPLES_PER_PACKET /\ W = ROW
  BY RecordingSizes
<1>2. PICK d \in Nat : d = M * C
  OBVIOUS
<1>3. PICK e \in Nat : e = d * W
  OBVIOUS
<1>4. a \in Strides(e, B)
  BY <1>1, <1>2, <1>3, StepBytes DEF Strides
<1>5. PICK v \in 0 .. e - 1, half \in 0 .. B - 1 : a = B * v + half
  <2>1. a \div B \in 0 .. e - 1 /\ a % B \in 0 .. B - 1 /\ a = B * (a \div B) + (a % B)
    BY <1>4, StrideOnto
  <2> QED BY <2>1
<1>6. PICK u \in 0 .. d - 1, n \in 0 .. W - 1 : v = W * u + n
  <2>1. v \in Strides(d, W)
    BY <1>3 DEF Strides
  <2>2. v \div W \in 0 .. d - 1 /\ v % W \in 0 .. W - 1 /\ v = W * (v \div W) + (v % W)
    BY <2>1, StrideOnto
  <2> QED BY <2>2
<1>7. PICK m \in 0 .. M - 1, l \in 0 .. C - 1 : u = C * m + l
  <2>1. u \in Strides(M, C)
    BY <1>2 DEF Strides
  <2>2. u \div C \in 0 .. M - 1 /\ u % C \in 0 .. C - 1 /\ u = C * (u \div C) + (u % C)
    BY <2>1, StrideOnto
  <2> QED BY <2>2
<1>8. a = InStep(r, l, m, n, half)
  BY <1>1, <1>5, <1>6, <1>7 DEF InStep
<1>9. l \in Chans(r) /\ m \in Times /\ n \in Bytes /\ half \in Halves(r)
  BY <1>1 DEF Chans, Times, Bytes, Halves
<1> QED BY <1>8, <1>9

\* The place of a sample in a file: whole steps before it, then its place in its own.
LEMMA SampleAt ==
    ASSUME NEW r \in Recordings, NEW i, NEW t \in Nat, NEW l \in Chans(r), NEW m \in Times,
           NEW n \in Bytes, NEW half \in Halves(r)
    PROVE  /\ Sample(r, i, t, l, m, n, half).at
                = HeaderBytes(r, i) + (outBufferLen(r) * t + InStep(r, l, m, n, half))
           /\ outBufferLen(r) * t \in Nat
           /\ outBufferLen(r) * t + InStep(r, l, m, n, half) \in Nat
<1>1. PICK B \in Nat \ {0}, C \in Nat \ {0}, M \in Nat \ {0}, W \in Nat \ {0} :
        B = BITS_MULTIPLAYER(r) /\ C = r.nChanpkts /\ M = SAMPLES_PER_PACKET /\ W = ROW
  BY RecordingSizes
<1>2. l \in Int /\ m \in Int /\ n \in Int /\ half \in Int
  BY <1>1 DEF Chans, Times, Bytes, Halves
<1>3. outBufferLen(r) * t \in Nat /\ InStep(r, l, m, n, half) \in Nat
  <2>1. outBufferLen(r) \in Nat
    BY RecordingSizes
  <2>2. InStep(r, l, m, n, half) \in Nat
    BY <2>1, InStepRange
  <2> QED BY <2>1, <2>2
<1>4. PICK z \in Int : z = B * (W * (C * m + l) + n)
  BY <1>2
<1>5. B * (((t * M + m) * C + l) * W + n) = (((M * C) * W) * B) * t + z
  <2>1. ((t * M + m) * C + l) * W = ((M * C) * W) * t + W * (C * m + l)
    BY <1>2
  <2>2. PICK y \in Int, x \in Int : y = ((M * C) * W) * t /\ x = W * (C * m + l)
    BY <1>2
  <2>3. B * ((y + x) + n) = B * y + B * (x + n)
    BY <1>2
  <2>4. B * y = (((M * C) * W) * B) * t
    BY <2>2
  <2>5. z = B * (x + n)
    BY <1>4, <2>2
  <2>6. ((t * M + m) * C + l) * W + n = (y + x) + n
    BY <2>1, <2>2
  <2> QED BY <2>3, <2>4, <2>5, <2>6
<1>6. PICK h \in Nat : h = HeaderBytes(r, i)
  BY RecordingSizes
<1>7. Sample(r, i, t, l, m, n, half).at = h + B * (((t * M + m) * C + l) * W + n) + half
  BY <1>1, <1>6 DEF Sample, SampleAfter, InFile
<1>8. PICK w \in Int : w = (((M * C) * W) * B) * t
  OBVIOUS
<1>9. h + (w + z) + half = h + (w + (z + half))
  BY <1>2
<1>10. outBufferLen(r) * t = w /\ InStep(r, l, m, n, half) = z + half
  BY <1>1, <1>4, <1>8, StepBytes DEF InStep
<1> QED BY <1>3, <1>5, <1>6, <1>7, <1>8, <1>9, <1>10

\* In terms of a step's place: every place after the header is one sample's.
LEMMA SampleUnique ==
    ASSUME NEW r \in Recordings, NEW i, NEW t \in Nat, NEW l \in Chans(r), NEW m \in Times,
           NEW n \in Bytes, NEW half \in Halves(r), NEW t2 \in Nat, NEW l2 \in Chans(r),
           NEW m2 \in Times, NEW n2 \in Bytes, NEW half2 \in Halves(r),
           Sample(r, i, t, l, m, n, half).at = Sample(r, i, t2, l2, m2, n2, half2).at
    PROVE  Sample(r, i, t, l, m, n, half) = Sample(r, i, t2, l2, m2, n2, half2)
<1>1. PICK o \in Nat \ {0}, h \in Nat : o = outBufferLen(r) /\ h = HeaderBytes(r, i)
  BY RecordingSizes
<1>2. PICK s \in 0 .. o - 1, s2 \in 0 .. o - 1 :
        s = InStep(r, l, m, n, half) /\ s2 = InStep(r, l2, m2, n2, half2)
  BY <1>1, InStepRange
<1>3. h + (o * t + s) = h + (o * t2 + s2) /\ o * t + s \in Int /\ o * t2 + s2 \in Int
  BY <1>1, <1>2, SampleAt
<1>4. o * t + s = o * t2 + s2
  BY <1>3
<1>5. t = t2 /\ s = s2
  BY <1>4, StrideUnique
<1>6. InStep(r, l, m, n, half) = InStep(r, l2, m2, n2, half2)
  BY <1>2, <1>5
<1>7. l = l2 /\ m = m2 /\ n = n2 /\ half = half2
  BY <1>6, InStepUnique
<1> QED BY <1>5, <1>7

\* A sample is behind the header and the earlier steps, and before the later ones.
LEMMA SampleRange ==
    ASSUME NEW r \in Recordings, NEW i, NEW t \in Nat, NEW l \in Chans(r), NEW m \in Times,
           NEW n \in Bytes, NEW half \in Halves(r), NEW T \in Nat
    PROVE  LET h == HeaderBytes(r, i)
               o == outBufferLen(r)
               at == Sample(r, i, t, l, m, n, half).at
           IN  /\ at \in Nat /\ at >= h
               /\ t < T => at < h + o * T
               /\ t >= T => at >= h + o * T
<1>1. PICK o \in Nat \ {0}, h \in Nat : o = outBufferLen(r) /\ h = HeaderBytes(r, i)
  BY RecordingSizes
<1>2. PICK s \in 0 .. o - 1 : s = InStep(r, l, m, n, half)
  BY <1>1, InStepRange
<1>3. PICK at : at = Sample(r, i, t, l, m, n, half).at
  OBVIOUS
<1>4. at = h + (o * t + s) /\ o * t \in Nat
  BY <1>1, <1>2, <1>3, SampleAt
<1>5. at \in Nat /\ at >= h
  BY <1>4
<1>6. ASSUME t < T PROVE at < h + o * T
  <2>1. PICK q \in 0 .. T - 1 : q = t
    BY <1>6
  <2>2. o * q + s \in 0 .. T * o - 1
    BY StrideBound
  <2>3. T * o = o * T /\ o * T \in Int
    OBVIOUS
  <2> QED BY <1>4, <2>1, <2>2, <2>3
<1>7. ASSUME t >= T PROVE at >= h + o * T
  <2>1. PICK d \in Nat : t = T + d
    <3>1. t - T \in Nat /\ t = T + (t - T)
      BY <1>7
    <3> QED BY <3>1
  <2>2. o * t = o * T + o * d /\ o * d \in Nat /\ o * T \in Nat
    BY <2>1
  <2> QED BY <1>4, <2>2
<1> QED BY <1>1, <1>3, <1>5, <1>6, <1>7

HeaderByte(b) == [at |-> b, from |-> -1, half |-> 0]
\* The first z places of a file.
Prefix(r, i, steps, z) == {d \in Series(r, i, steps) : d.at < z}

\* A time series has header bytes and samples,
LEMMA SeriesParts ==
    ASSUME NEW r \in Recordings, NEW i, NEW T \in Nat, NEW d
    PROVE  d \in Series(r, i, T) <=>
             \/ \E b \in 0 .. HeaderBytes(r, i) - 1 : d = HeaderByte(b)
             \/ \E t \in 0 .. T - 1, l \in Chans(r), m \in Times, n \in Bytes, half \in Halves(r) :
                  d = Sample(r, i, t, l, m, n, half)
BY DEF Series, SeriesAfter, Sample, HeaderByte, Chans, Times, Bytes, Halves

\* all below its length,
LEMMA SeriesRange ==
    ASSUME NEW r \in Recordings, NEW i, NEW T \in Nat, NEW d \in Series(r, i, T)
    PROVE  d.at \in 0 .. HeaderBytes(r, i) + outBufferLen(r) * T - 1
<1>1. PICK o \in Nat \ {0}, h \in Nat : o = outBufferLen(r) /\ h = HeaderBytes(r, i)
  BY RecordingSizes
<1>2. o * T \in Nat
  OBVIOUS
<1>3. CASE \E b \in 0 .. h - 1 : d = HeaderByte(b)
  <2>1. PICK b \in 0 .. h - 1 : d = HeaderByte(b)
    BY <1>3
  <2>2. d.at = b
    BY <2>1 DEF HeaderByte
  <2> QED BY <1>1, <1>2, <2>2
<1>4. CASE \E t \in 0 .. T - 1, l \in Chans(r), m \in Times, n \in Bytes, half \in Halves(r) :
             d = Sample(r, i, t, l, m, n, half)
  <2>1. PICK t \in 0 .. T - 1, l \in Chans(r), m \in Times, n \in Bytes, half \in Halves(r) :
          d = Sample(r, i, t, l, m, n, half)
    BY <1>4
  <2>2. t \in Nat /\ t < T
    OBVIOUS
  <2>3. d.at \in Nat /\ d.at < h + o * T
    BY <1>1, <2>1, <2>2, SampleRange
  <2> QED BY <1>1, <1>2, <2>3
<1> QED BY <1>1, <1>3, <1>4, SeriesParts

\* one at each place,
LEMMA SeriesUnique ==
    ASSUME NEW r \in Recordings, NEW i, NEW T \in Nat, NEW d \in Series(r, i, T),
           NEW e \in Series(r, i, T), d.at = e.at
    PROVE  d = e
<1>1. PICK h \in Nat : h = HeaderBytes(r, i)
  BY RecordingSizes
<1> DEFINE IsHeader(x) == \E b \in 0 .. h - 1 : x = HeaderByte(b)
           IsSample(x) == \E t \in 0 .. T - 1, l \in Chans(r), m \in Times, n \in Bytes,
                            half \in Halves(r) : x = Sample(r, i, t, l, m, n, half)
<1>2. (IsHeader(d) \/ IsSample(d)) /\ (IsHeader(e) \/ IsSample(e))
  BY <1>1, SeriesParts
<1>3. ASSUME NEW x, IsHeader(x) PROVE x = HeaderByte(x.at) /\ x.at \in Int /\ x.at < h
  BY <1>3 DEF HeaderByte
<1>4. ASSUME NEW x, IsSample(x) PROVE x.at \in Nat /\ x.at >= h
  <2>1. PICK t \in 0 .. T - 1, l \in Chans(r), m \in Times, n \in Bytes, half \in Halves(r) :
          x = Sample(r, i, t, l, m, n, half)
    BY <1>4
  <2>2. t \in Nat
    OBVIOUS
  <2> QED BY <1>1, <2>1, <2>2, SampleRange
<1>5. CASE IsHeader(d) /\ IsHeader(e)
  <2>1. d = HeaderByte(d.at) /\ e = HeaderByte(e.at)
    BY <1>3, <1>5
  <2> QED BY <2>1
<1>6. CASE IsSample(d) /\ IsSample(e)
  <2>1. PICK t \in 0 .. T - 1, l \in Chans(r), m \in Times, n \in Bytes, half \in Halves(r) :
          d = Sample(r, i, t, l, m, n, half)
    BY <1>6
  <2>2. PICK t2 \in 0 .. T - 1, l2 \in Chans(r), m2 \in Times, n2 \in Bytes, half2 \in Halves(r) :
          e = Sample(r, i, t2, l2, m2, n2, half2)
    BY <1>6
  <2>3. t \in Nat /\ t2 \in Nat
    OBVIOUS
  <2>4. Sample(r, i, t, l, m, n, half).at = Sample(r, i, t2, l2, m2, n2, half2).at
    BY <2>1, <2>2
  <2>5. Sample(r, i, t, l, m, n, half) = Sample(r, i, t2, l2, m2, n2, half2)
    BY <2>3, <2>4, SampleUnique
  <2> QED BY <2>1, <2>2, <2>5
<1>7. ~(IsHeader(d) /\ IsSample(e)) /\ ~(IsHeader(e) /\ IsSample(d))
  <2>1. ASSUME IsHeader(d), IsSample(e) PROVE FALSE
    <3>1. d.at \in Int /\ d.at < h /\ e.at \in Nat /\ e.at >= h
      BY <1>3, <1>4, <2>1
    <3> QED BY <3>1
  <2>2. ASSUME IsHeader(e), IsSample(d) PROVE FALSE
    <3>1. e.at \in Int /\ e.at < h /\ d.at \in Nat /\ d.at >= h
      BY <1>3, <1>4, <2>2
    <3> QED BY <3>1
  <2> QED BY <2>1, <2>2
<1> QED BY <1>2, <1>5, <1>6, <1>7

\* and one at every place.
LEMMA SeriesOnto ==
    ASSUME NEW r \in Recordings, NEW i, NEW T \in Nat,
           NEW a \in 0 .. HeaderBytes(r, i) + outBufferLen(r) * T - 1
    PROVE  \E d \in Series(r, i, T) : d.at = a
<1>1. PICK o \in Nat \ {0}, h \in Nat : o = outBufferLen(r) /\ h = HeaderBytes(r, i)
  BY RecordingSizes
<1>2. CASE a < h
  <2>1. HeaderByte(a) \in Series(r, i, T)
    BY <1>1, <1>2, SeriesParts
  <2> QED BY <2>1 DEF HeaderByte
<1>3. CASE a >= h
  <2>1. PICK c \in Int : c = a - h
    BY <1>1
  <2>2. c \in Strides(T, o)
    <3>1. T * o = o * T /\ o * T \in Nat
      OBVIOUS
    <3> QED BY <1>1, <1>3, <2>1, <3>1 DEF Strides
  <2>3. PICK t \in 0 .. T - 1, s \in 0 .. o - 1 : c = o * t + s
    <3>1. c \div o \in 0 .. T - 1 /\ c % o \in 0 .. o - 1 /\ c = o * (c \div o) + (c % o)
      BY <2>2, StrideOnto
    <3> QED BY <3>1
  <2>4. PICK l \in Chans(r), m \in Times, n \in Bytes, half \in Halves(r) :
          s = InStep(r, l, m, n, half)
    BY <1>1, InStepOnto
  <2>5. PICK d : d = Sample(r, i, t, l, m, n, half)
    OBVIOUS
  <2>6. d \in Series(r, i, T)
    BY <2>5, SeriesParts
  <2>7. d.at = h + (o * t + s)
    <3>1. t \in Nat
      OBVIOUS
    <3> QED BY <1>1, <2>4, <2>5, <3>1, SampleAt
  <2>8. h + (o * t + s) = a
    BY <1>1, <2>1, <2>3
  <2> QED BY <2>6, <2>7, <2>8
<1> QED BY <1>1, <1>2, <1>3

\* So a file of so many bytes ends at that place: it has no hole.
LEMMA PrefixCount ==
    ASSUME NEW r \in Recordings, NEW i, NEW T \in Nat,
           NEW z \in 0 .. HeaderBytes(r, i) + outBufferLen(r) * T
    PROVE  Cardinality(Prefix(r, i, T, z)) = z
<1>1. PICK o \in Nat \ {0}, h \in Nat, q \in Nat :
        o = outBufferLen(r) /\ h = HeaderBytes(r, i) /\ q = o * T
  BY RecordingSizes
<1> DEFINE F == Prefix(r, i, T, z)
           at == [d \in F |-> d.at]
           I == 0 .. z - 1
<1>2. at \in [F -> I]
  <2>1. \A d \in F : d.at \in 0 .. h + q - 1 /\ d.at < z
    BY <1>1, SeriesRange DEF Prefix
  <2> QED BY <1>1, <2>1
<1>3. \A d, e \in F : at[d] = at[e] => d = e
  BY SeriesUnique DEF Prefix
<1>4. ASSUME NEW a \in I PROVE \E d \in F : at[d] = a
  <2>1. a \in 0 .. h + q - 1 /\ a < z
    BY <1>1
  <2>2. PICK d \in Series(r, i, T) : d.at = a
    <3>1. a \in 0 .. HeaderBytes(r, i) + outBufferLen(r) * T - 1
      BY <1>1, <2>1
    <3> QED BY <3>1, SeriesOnto
  <2> QED BY <2>1, <2>2 DEF Prefix
<1>5. at \in Bijection(F, I)
  <2> HIDE DEF at, F, I
  <2> QED BY <1>2, <1>3, <1>4 DEF Bijection, Injection, Surjection, IsInjective
<1>6. ExistsBijection(F, I)
  BY <1>5 DEF ExistsBijection
<1>7. ExistsBijection(I, F)
  BY <1>6, Fun_ExistsBijSymmetric
<1>8. IsFiniteSet(I) /\ Cardinality(I) = z
  <2>1. z \in Int /\ z >= 0 /\ 0 \in Int /\ z - 1 \in Int
    BY <1>1
  <2>2. /\ IsFiniteSet(0 .. z - 1)
        /\ Cardinality(0 .. z - 1) = IF 0 > z - 1 THEN 0 ELSE (z - 1) - 0 + 1
    BY <2>1, FS_Interval
  <2> QED BY <2>1, <2>2
<1>9. Cardinality(F) = Cardinality(I)
  BY <1>7, <1>8, FS_Bijection
<1> QED BY <1>8, <1>9

\* The length of a file after so many time steps.
FileBytes(r, i, steps) == HeaderBytes(r, i) + outBufferLen(r) * steps

\* What a file has after its steps does not depend on later ones.
LEMMA PrefixGrows ==
    ASSUME NEW r \in Recordings, NEW i, NEW T \in Nat, NEW U \in Nat, NEW z \in Nat,
           T <= U, z <= FileBytes(r, i, T)
    PROVE  Prefix(r, i, T, z) = Prefix(r, i, U, z)
<1>1. PICK o \in Nat \ {0}, h \in Nat, q \in Nat :
        o = outBufferLen(r) /\ h = HeaderBytes(r, i) /\ q = o * T
  BY RecordingSizes
<1>1a. z <= h + q
  BY <1>1 DEF FileBytes
<1>2. ASSUME NEW d \in Prefix(r, i, T, z) PROVE d \in Prefix(r, i, U, z)
  <2>1. d \in Series(r, i, T) /\ d.at < z /\ 0 .. T - 1 \subseteq 0 .. U - 1
    BY DEF Prefix
  <2>2. d \in Series(r, i, U)
    BY <2>1, SeriesParts
  <2> QED BY <2>1, <2>2 DEF Prefix
<1>3. ASSUME NEW d \in Prefix(r, i, U, z) PROVE d \in Prefix(r, i, T, z)
  <2>1. d \in Series(r, i, U) /\ d.at < z
    BY DEF Prefix
  <2>2. CASE \E b \in 0 .. HeaderBytes(r, i) - 1 : d = HeaderByte(b)
    BY <2>1, <2>2, SeriesParts DEF Prefix
  <2>3. CASE \E t \in 0 .. U - 1, l \in Chans(r), m \in Times, n \in Bytes, half \in Halves(r) :
               d = Sample(r, i, t, l, m, n, half)
    <3>1. PICK t \in 0 .. U - 1, l \in Chans(r), m \in Times, n \in Bytes, half \in Halves(r) :
            d = Sample(r, i, t, l, m, n, half)
      BY <2>3
    <3>2. t \in Nat
      OBVIOUS
    <3>3. d.at \in Nat /\ (t >= T => d.at >= h + q)
      BY <1>1, <3>1, <3>2, SampleRange
    <3>4. t \in 0 .. T - 1
      BY <1>1a, <2>1, <3>2, <3>3
    <3>5. d \in Series(r, i, T)
      BY <3>1, <3>4, SeriesParts
    <3> QED BY <2>1, <3>5 DEF Prefix
  <2> QED BY <2>1, <2>2, <2>3, SeriesParts
<1> QED BY <1>2, <1>3

\* What a write of the first len bytes of dataout adds.
Added(r, i, t, len) ==
    {[at |-> HeaderBytes(r, i) + outBufferLen(r) * t + m.out,
      from |-> inBufferLen(r) * t + m.in, half |-> m.half] :
        m \in {c \in convert(r, i - 1) : c.out < len}}

\* It is the samples of one time step, as far as the write got.
LEMMA AddedSamples ==
    ASSUME NEW r \in Recordings, NEW i \in Nat \ {0}, NEW t \in Nat,
           NEW len \in 0 .. outBufferLen(r), NEW d
    PROVE  d \in Added(r, i, t, len) <=>
             /\ \E l \in Chans(r), m \in Times, n \in Bytes, half \in Halves(r) :
                  d = Sample(r, i, t, l, m, n, half)
             /\ d.at < HeaderBytes(r, i) + outBufferLen(r) * t + len
<1>1. PICK o \in Nat \ {0}, h \in Nat, q \in Nat :
        o = outBufferLen(r) /\ h = HeaderBytes(r, i) /\ q = o * t
  BY RecordingSizes
<1>2. PICK B \in Nat \ {0}, C \in Nat \ {0}, M \in Nat \ {0}, W \in Nat \ {0}, A \in Nat \ {0} :
        /\ B = BITS_MULTIPLAYER(r) /\ C = r.nChanpkts /\ M = SAMPLES_PER_PACKET /\ W = ROW
        /\ A = r.nAnts
  BY RecordingSizes
<1> DEFINE Move(l, m, n, half) ==
             [in |-> (i - 1) * (RX_DATA_LEN * r.nChanpkts) + l * RX_DATA_LEN + m * ROW + n,
              out |-> BITS_MULTIPLAYER(r) * (l * ROW + m * r.nChanpkts * ROW + n) + half,
              half |-> half]
           AddedBy(c) == [at |-> HeaderBytes(r, i) + outBufferLen(r) * t + c.out,
                          from |-> inBufferLen(r) * t + c.in, half |-> c.half]
<1>3. ASSUME NEW l \in Chans(r), NEW m \in Times, NEW n \in Bytes, NEW half \in Halves(r)
      PROVE  /\ AddedBy(Move(l, m, n, half)) = Sample(r, i, t, l, m, n, half)
             /\ Move(l, m, n, half).out \in Nat
             /\ Sample(r, i, t, l, m, n, half).at = h + q + Move(l, m, n, half).out
  <2>1. l \in Nat /\ m \in Nat /\ n \in Nat /\ half \in Nat
    BY <1>2 DEF Chans, Times, Bytes, Halves
  <2>2. Move(l, m, n, half).out = InStep(r, l, m, n, half)
    <3>1. l * W + m * C * W + n = W * (C * m + l) + n
      BY <2>1
    <3> QED BY <1>2, <3>1 DEF InStep
  <2>3. PICK s \in Nat : s = InStep(r, l, m, n, half)
    BY InStepRange, <1>1
  <2>4. Sample(r, i, t, l, m, n, half).at = h + (q + s)
    BY <1>1, <2>3, SampleAt
  <2>5. h + (q + s) = h + q + s
    OBVIOUS
  <2>6. PICK D \in Nat : D = RX_DATA_LEN
    BY <1>2 DEF RX_DATA_LEN
  <2>7. PICK a \in Nat : a = i - 1
    OBVIOUS
  <2>8. PICK y \in Nat : y = m * W + n
    BY <2>1
  <2>9. ((t * A + a) * C + l) * D + y = (D * A * C) * t + (a * (D * C) + l * D + y)
    BY <2>1
  <2>10. PICK x \in Nat, w \in Nat : x = a * (D * C) + l * D /\ w = (D * A * C) * t
    BY <2>1
  <2>11. w + (x + y) = w + (x + m * W + n)
    BY <2>1, <2>8
  <2>12. InRecording(r, t, i - 1, l, m, n) = ((t * A + a) * C + l) * D + m * W + n
    BY <1>2, <2>6, <2>7 DEF InRecording
  <2>13. ((t * A + a) * C + l) * D + m * W + n = ((t * A + a) * C + l) * D + y
    <3>1. PICK v \in Nat : v = ((t * A + a) * C + l) * D
      BY <2>1
    <3> QED BY <2>1, <2>8, <3>1
  <2>14. inBufferLen(r) * t = w /\ Move(l, m, n, half).in = x + m * W + n
    BY <1>2, <2>6, <2>7, <2>10 DEF inBufferLen
  <2>15. InRecording(r, t, i - 1, l, m, n) = inBufferLen(r) * t + Move(l, m, n, half).in
    BY <2>9, <2>10, <2>11, <2>12, <2>13, <2>14
  <2>16. Sample(r, i, t, l, m, n, half)
           = [at |-> h + q + s, from |-> InRecording(r, t, i - 1, l, m, n), half |-> half]
    <3>1. /\ Sample(r, i, t, l, m, n, half).from = InRecording(r, t, i - 1, l, m, n)
          /\ Sample(r, i, t, l, m, n, half).half = half
      BY DEF Sample, SampleAfter
    <3>2. Sample(r, i, t, l, m, n, half)
            = [at |-> Sample(r, i, t, l, m, n, half).at,
               from |-> InRecording(r, t, i - 1, l, m, n), half |-> half]
      BY DEF Sample, SampleAfter
    <3> QED BY <2>4, <2>5, <3>2
  <2>17. AddedBy(Move(l, m, n, half))
           = [at |-> h + q + s, from |-> InRecording(r, t, i - 1, l, m, n), half |-> half]
    BY <1>1, <2>2, <2>3, <2>15
  <2> QED BY <2>2, <2>3, <2>4, <2>5, <2>16, <2>17
<1>4. convert(r, i - 1) = {Move(l, m, n, half) : l \in Chans(r), m \in Times, n \in Bytes,
                                                  half \in Halves(r)}
  BY DEF convert, Chans, Times, Bytes, Halves
<1>5. Added(r, i, t, len) = {AddedBy(c) : c \in {e \in convert(r, i - 1) : e.out < len}}
  BY DEF Added
<1>6. len \in Nat
  BY <1>1
<1> HIDE DEF Move, AddedBy
<1>7. ASSUME d \in Added(r, i, t, len)
      PROVE  /\ \E l \in Chans(r), m \in Times, n \in Bytes, half \in Halves(r) :
                  d = Sample(r, i, t, l, m, n, half)
             /\ d.at < h + q + len
  <2>1. PICK c \in convert(r, i - 1) : c.out < len /\ d = AddedBy(c)
    BY <1>5, <1>7
  <2>2. PICK l \in Chans(r), m \in Times, n \in Bytes, half \in Halves(r) : c = Move(l, m, n, half)
    BY <1>4
  <2>3. d = Sample(r, i, t, l, m, n, half)
    BY <1>3, <2>1, <2>2
  <2>4. d.at = h + q + c.out /\ c.out \in Nat
    BY <1>3, <2>2, <2>3
  <2>5. d.at < h + q + len
    BY <1>6, <2>1, <2>4
  <2> QED BY <2>3, <2>5
<1>8. ASSUME NEW l \in Chans(r), NEW m \in Times, NEW n \in Bytes, NEW half \in Halves(r),
             d = Sample(r, i, t, l, m, n, half), d.at < h + q + len
      PROVE  d \in Added(r, i, t, len)
  <2>1. PICK c : c = Move(l, m, n, half)
    OBVIOUS
  <2>2. c \in convert(r, i - 1)
    BY <1>4, <2>1
  <2>3. d = AddedBy(c) /\ d.at = h + q + c.out /\ c.out \in Nat
    BY <1>3, <1>8, <2>1
  <2>4. c.out < len
    BY <1>6, <1>8, <2>3
  <2> QED BY <1>5, <2>2, <2>3, <2>4
<1> QED BY <1>1, <1>7, <1>8

\* A file with other bytes at the places of new ones.
Overwritten(F, new) == {d \in F : \A n \in new : n.at # d.at} \cup new

\* A write of len bytes, after t whole steps, makes the file that much longer.
LEMMA PrefixWritten ==
    ASSUME NEW r \in Recordings, NEW i \in Nat \ {0}, NEW t \in Nat,
           NEW len \in 0 .. outBufferLen(r), NEW z \in Nat, NEW F,
           z = FileBytes(r, i, t), F = Prefix(r, i, t + 1, z)
    PROVE  Overwritten(F, Added(r, i, t, len)) = Prefix(r, i, t + 1, z + len)
<1>1. PICK h \in Nat, q \in Nat : h = HeaderBytes(r, i) /\ q = outBufferLen(r) * t /\ z = h + q
  <2>1. HeaderBytes(r, i) \in Nat /\ outBufferLen(r) \in Nat
    BY RecordingSizes
  <2> QED BY <2>1 DEF FileBytes
<1>2. len \in Nat
  BY RecordingSizes
<1> DEFINE IsSample(d, u) == \E l \in Chans(r), m \in Times, n \in Bytes, half \in Halves(r) :
                               d = Sample(r, i, u, l, m, n, half)
           IsHeader(d) == \E b \in 0 .. h - 1 : d = HeaderByte(b)
<1>3. \A d : d \in Added(r, i, t, len) <=> IsSample(d, t) /\ d.at < z + len
  BY <1>1, AddedSamples
<1>4. \A d : d \in Series(r, i, t + 1) <=> IsHeader(d) \/ \E u \in 0 .. t : IsSample(d, u)
  <2>1. 0 .. (t + 1) - 1 = 0 .. t /\ t + 1 \in Nat
    OBVIOUS
  <2>2. \A d : d \in Series(r, i, t + 1) <=>
               \/ IsHeader(d)
               \/ \E u \in 0 .. (t + 1) - 1, l \in Chans(r), m \in Times, n \in Bytes,
                    half \in Halves(r) : d = Sample(r, i, u, l, m, n, half)
    BY <1>1, <2>1, SeriesParts
  <2> QED BY <2>1, <2>2
<1>5. ASSUME NEW d, NEW u \in 0 .. t, IsSample(d, u)
      PROVE  d.at \in Nat /\ d.at >= h /\ (u < t => d.at < z) /\ (u >= t => d.at >= z)
  <2>1. u \in Nat
    OBVIOUS
  <2>2. PICK l \in Chans(r), m \in Times, n \in Bytes, half \in Halves(r) :
          d = Sample(r, i, u, l, m, n, half)
    BY <1>5
  <2> QED BY <1>1, <2>1, <2>2, SampleRange
<1>6. \A d \in Added(r, i, t, len) : d.at \in Nat /\ d.at >= z /\ d \in Series(r, i, t + 1)
  <2>1. t \in 0 .. t /\ t >= t
    OBVIOUS
  <2> QED BY <1>3, <1>4, <1>5, <2>1
<1> HIDE DEF IsSample, IsHeader
<1>7. ASSUME NEW d \in F
      PROVE  /\ d \in Prefix(r, i, t + 1, z + len)
             /\ \A n \in Added(r, i, t, len) : n.at # d.at
  <2>1. d \in Series(r, i, t + 1) /\ d.at < z
    BY DEF Prefix
  <2>2. d.at \in Int
    <3>1. t + 1 \in Nat
      OBVIOUS
    <3>2. d.at \in 0 .. HeaderBytes(r, i) + outBufferLen(r) * (t + 1) - 1
      BY <2>1, <3>1, SeriesRange
    <3> QED BY <3>2
  <2>3. d.at < z + len
    BY <1>2, <2>1, <2>2
  <2>4. \A n \in Added(r, i, t, len) : n.at # d.at
    BY <1>6, <2>1, <2>2
  <2> QED BY <2>1, <2>3, <2>4 DEF Prefix
<1>8. ASSUME NEW d \in Added(r, i, t, len) PROVE d \in Prefix(r, i, t + 1, z + len)
  BY <1>3, <1>6 DEF Prefix
<1>9. ASSUME NEW d \in Prefix(r, i, t + 1, z + len), d \notin F PROVE d \in Added(r, i, t, len)
  <2>1. d \in Series(r, i, t + 1) /\ d.at < z + len /\ ~(d.at < z)
    BY <1>9 DEF Prefix
  <2>2. ~IsHeader(d)
    <3> SUFFICES ASSUME IsHeader(d) PROVE FALSE
      OBVIOUS
    <3>1. PICK b \in 0 .. h - 1 : d.at = b
      BY DEF IsHeader, HeaderByte
    <3> QED BY <1>1, <2>1, <3>1
  <2>3. PICK u \in 0 .. t : IsSample(d, u)
    BY <1>4, <2>1, <2>2
  <2>4. ~(u < t)
    BY <1>5, <2>1, <2>3
  <2>5. u = t
    BY <2>4
  <2> QED BY <1>3, <2>1, <2>3, <2>5
<1> QED BY <1>7, <1>8, <1>9 DEF Overwritten

\* A file is created with the header that is left for it.
LEMMA PrefixCreated ==
    ASSUME NEW r \in Recordings, NEW i
    PROVE  write_ext_header(HeaderBytes(r, i)) = Prefix(r, i, 0, HeaderBytes(r, i))
<1>1. PICK h \in Nat : h = HeaderBytes(r, i)
  BY RecordingSizes
<1>2. \A d : d \in Series(r, i, 0) <=> \E b \in 0 .. h - 1 : d = HeaderByte(b)
  <2>1. 0 \in Nat /\ 0 .. 0 - 1 = {}
    OBVIOUS
  <2>2. \A d : d \in Series(r, i, 0) <=>
               \/ \E b \in 0 .. h - 1 : d = HeaderByte(b)
               \/ \E t \in 0 .. 0 - 1, l \in Chans(r), m \in Times, n \in Bytes,
                    half \in Halves(r) : d = Sample(r, i, t, l, m, n, half)
    BY <1>1, <2>1, SeriesParts
  <2> QED BY <2>1, <2>2
<1>3. \A d : d \in write_ext_header(h) <=> \E b \in 0 .. h - 1 : d = HeaderByte(b)
  BY DEF write_ext_header, HeaderByte
<1>4. \A d \in Series(r, i, 0) : d.at < h
  BY <1>2 DEF HeaderByte
<1>5. Prefix(r, i, 0, h) = Series(r, i, 0)
  BY <1>4 DEF Prefix
<1> QED BY <1>1, <1>2, <1>3, <1>5

------------------------------------------------------------------------------
\* The whole steps that are in the file of antenna i, of T that were read.
Done(i, T) == IF i <= iAnt THEN T ELSE T - 1

\* The file of antenna i and its descriptor.
AntFile(i, T) ==
    /\ recording.antIDs[i] \in DOMAIN datas
    /\ offsets[i] = HeaderBytes(recording, i) + outBufferLen(recording) * Done(i, T)
    /\ Alone(recording, i) =>
         \E z \in offsets[i] .. HeaderBytes(recording, i) + outBufferLen(recording) * T :
           /\ conv_pc # "error" => z = offsets[i]
           /\ datas[recording.antIDs[i]] = Prefix(recording, i, T, z)

FilesAt(T) ==
    /\ nRead = inBufferLen(recording) * T
    /\ offsets \in Seq(Nat) /\ Len(offsets) <= recording.nAnts /\ iAnt \in 0 .. Len(offsets)
    /\ iAnt < Len(offsets) => T > 0
    /\ conv_pc \in {"start", "antennas"} =>
         T = 0 /\ header_left = HeaderBytes(recording, iAnt + 1)
    /\ conv_pc \in {"loop", "write"} => Len(offsets) = recording.nAnts
    /\ conv_pc \notin {"write", "error"} => iAnt = Len(offsets)
    /\ conv_pc = "write" => iAnt < Len(offsets)
    /\ \A i \in 1 .. Len(offsets) : AntFile(i, T)

\* The files are at a whole number of time steps, up to the write in hand.
ConvInv ==
    IF part = "converter" THEN recording \in Recordings /\ \E T \in Nat : FilesAt(T)
                          ELSE offsets = <<>>

\* convert extends the sign of both nibbles of a byte.
LEMMA WidenKeepsValue ==
    \A hi, lo \in 0 .. 15 :
      Widen(16 * hi + lo) = <<IF hi < 8 THEN hi ELSE hi - 16, IF lo < 8 THEN lo ELSE lo - 16>>
<1> SUFFICES ASSUME NEW hi \in 0 .. 15, NEW lo \in 0 .. 15
             PROVE  Widen(16 * hi + lo)
                      = <<IF hi < 8 THEN hi ELSE hi - 16, IF lo < 8 THEN lo ELSE lo - 16>>
  OBVIOUS
<1>1. (16 * hi + lo) \div 16 = hi /\ (16 * hi + lo) % 16 = lo
  OBVIOUS
<1>2. Extend(lo) = IF lo < 8 THEN lo ELSE lo - 16
  <2>1. CASE lo < 8
    <3>1. (lo \div 8) % 2 = 0
      BY <2>1
    <3> QED BY <2>1, <3>1 DEF Extend, Int8
  <2>2. CASE lo >= 8
    <3>1. (lo \div 8) % 2 = 1 /\ lo % 16 = lo
      BY <2>2
    <3> QED BY <2>2, <3>1 DEF Extend, Int8
  <2> QED BY <2>1, <2>2
<1>3. Extend(ShiftRight4(16 * hi + lo)) = IF hi < 8 THEN hi ELSE hi - 16
  <2>1. CASE hi < 8
    <3>1. ShiftRight4(16 * hi + lo) = hi
      BY <1>1, <2>1 DEF ShiftRight4
    <3>2. (hi \div 8) % 2 = 0
      BY <2>1
    <3> QED BY <2>1, <3>1, <3>2 DEF Extend, Int8
  <2>2. CASE hi >= 8
    <3>1. ShiftRight4(16 * hi + lo) = 240 + hi
      BY <1>1, <2>2 DEF ShiftRight4
    <3>2. ((240 + hi) \div 8) % 2 = 1 /\ (240 + hi) % 16 = hi
      BY <2>2
    <3> QED BY <2>2, <3>1, <3>2 DEF Extend, Int8
  <2> QED BY <2>1, <2>2
<1> QED BY <1>1, <1>2, <1>3 DEF Widen

\* The invariant gives the contents of the files.
LEMMA ConvInvHolds == ConvInv => ConvertedInPlace
<1> SUFFICES ASSUME ConvInv PROVE ConvertedInPlace
  OBVIOUS
<1> DEFINE r == recording
           steps == nRead \div inBufferLen(r)
<1>1. ASSUME NEW i \in DOMAIN offsets, Alone(r, i)
      PROVE  LET file == datas[r.antIDs[i]]
                 len == Cardinality(file)
             IN  \E x \in HeaderLengths(r) :
                   /\ file = {d \in SeriesAfter(x, r, i, steps) : d.at < len}
                   /\ len >= x + outBufferLen(r)
                             * (IF conv_pc \in {"write", "error"} THEN steps - 1 ELSE steps)
  <2>1. r \in Recordings /\ \E T \in Nat : FilesAt(T)
    BY DEF ConvInv
  <2>2. PICK T \in Nat : FilesAt(T)
    BY <2>1
  <2>3. i \in 1 .. Len(offsets) /\ AntFile(i, T)
    BY <2>2 DEF FilesAt
  <2>4. PICK o \in Nat \ {0}, h \in Nat, q \in Nat, v \in Nat \ {0} :
          o = outBufferLen(r) /\ h = HeaderBytes(r, i) /\ q = o * T /\ v = inBufferLen(r)
    <3>1. outBufferLen(r) \in Nat \ {0} /\ HeaderBytes(r, i) \in Nat /\ inBufferLen(r) \in Nat \ {0}
      BY <2>1, RecordingSizes
    <3>2. outBufferLen(r) * T \in Nat
      BY <3>1
    <3> QED BY <3>1, <3>2
  <2>5. steps = T
    <3>1. nRead = v * T
      BY <2>2, <2>4 DEF FilesAt
    <3>2. v * T = v * T + 0 /\ 0 \in 0 .. v - 1
      OBVIOUS
    <3> QED BY <2>4, <3>1, <3>2, StrideQuotient
  <2>6. PICK z \in offsets[i] .. h + q : datas[r.antIDs[i]] = Prefix(r, i, T, z)
    BY <1>1, <2>3, <2>4 DEF AntFile
  <2>7. offsets[i] = h + o * Done(i, T) /\ iAnt \in Int /\ offsets[i] \in Nat
    <3>1. offsets[i] = h + o * Done(i, T)
      BY <2>3, <2>4 DEF AntFile
    <3>2. offsets \in Seq(Nat) /\ iAnt \in 0 .. Len(offsets)
      BY <2>2 DEF FilesAt
    <3>3. offsets[i] \in Nat /\ iAnt \in Int
      BY <2>3, <3>2
    <3> QED BY <3>1, <3>3
  <2>8. z \in 0 .. HeaderBytes(r, i) + outBufferLen(r) * T
    BY <2>4, <2>6, <2>7
  <2>9. Cardinality(datas[r.antIDs[i]]) = z
    BY <2>1, <2>6, <2>8, PrefixCount
  <2>10. datas[r.antIDs[i]] = {d \in SeriesAfter(h, r, i, steps) : d.at < z}
    BY <2>4, <2>5, <2>6 DEF Prefix, Series
  <2>11. z >= h + o * (IF conv_pc \in {"write", "error"} THEN steps - 1 ELSE steps)
    <3>1. z >= h + o * Done(i, T)
      BY <2>6, <2>7, <2>4
    <3>2. PICK p \in Int : p = o * (T - 1)
      OBVIOUS
    <3>3. p <= q
      BY <2>4, <3>2
    <3>4. CASE i <= iAnt
      <4>1. z >= h + q
        BY <2>4, <3>1, <3>4 DEF Done
      <4>2. z >= h + p
        BY <2>8, <3>3, <4>1, <2>4
      <4> QED BY <2>4, <2>5, <3>2, <4>1, <4>2
    <3>5. CASE ~(i <= iAnt)
      <4>1. iAnt # Len(offsets)
        BY <2>3, <3>5
      <4>2. conv_pc \in {"write", "error"}
        BY <2>2, <4>1 DEF FilesAt
      <4> QED BY <2>5, <3>1, <3>5, <4>2 DEF Done
    <3> QED BY <3>4, <3>5
  <2>12. h \in HeaderLengths(r)
    BY <2>4 DEF HeaderBytes, HeaderLengths
  <2> QED BY <2>4, <2>9, <2>10, <2>11, <2>12
<1> QED BY <1>1, WidenKeepsValue DEF ConvertedInPlace

\* No file is open.
LEMMA InitConvInv == Init => ConvInv
<1> SUFFICES ASSUME Init PROVE ConvInv
  OBVIOUS
<1>1. /\ recording \in MayStart("converter", Recordings)
      /\ conv_pc = "start" /\ iAnt = 0 /\ nRead = 0 /\ offsets = <<>>
      /\ header_left = HeaderBytes(recording, 1)
  BY DEF Init, ConvInit, HeaderBytes
<1>2. CASE part # "converter"
  BY <1>1, <1>2 DEF ConvInv
<1>3. CASE part = "converter"
  <2>1. recording \in Recordings
    BY <1>1, <1>3 DEF MayStart
  <2>2. recording.nAnts \in Nat /\ inBufferLen(recording) \in Nat
    BY <2>1, RecordingSizes
  <2>3. FilesAt(0)
    <3>1. offsets \in Seq(Nat) /\ Len(offsets) = 0
      BY <1>1
    <3>2. iAnt + 1 = 1 /\ nRead = inBufferLen(recording) * 0
      BY <1>1, <2>2
    <3> QED BY <1>1, <2>2, <3>1, <3>2 DEF FilesAt
  <2> QED BY <1>3, <2>1, <2>3 DEF ConvInv
<1> QED BY <1>2, <1>3

\* The steps that leave the files as they are.
LEMMA QuietConvInv ==
    ASSUME NEW T \in Nat, recording \in Recordings, FilesAt(T),
           \/ ConvStart \/ ConvFilesOpen \/ ConvEnd
           \/ conv_pc \in {"start", "antennas", "loop"} /\ conv_pc' = "error"
              /\ UNCHANGED <<recording, iAnt, header_left, nRead, datas, offsets>>
    PROVE  FilesAt(T)'
<1>1. /\ UNCHANGED <<recording, iAnt, header_left, nRead, datas, offsets>>
      /\ conv_pc \in {"start", "antennas", "loop"}
  BY DEF ConvStart, ConvFilesOpen, ConvEnd
<1>2. \/ conv_pc = "start" /\ conv_pc' \in {"refused", "antennas"}
      \/ conv_pc = "antennas" /\ conv_pc' = "loop" /\ iAnt = recording.nAnts
      \/ conv_pc = "loop" /\ conv_pc' = "end"
      \/ conv_pc' = "error"
  BY DEF ConvStart, ConvFilesOpen, ConvEnd
<1>3. ASSUME NEW i \in 1 .. Len(offsets) PROVE AntFile(i, T)'
  <2>1. AntFile(i, T)
    BY DEF FilesAt
  <2> QED BY <1>1, <2>1 DEF AntFile, Done
<1>4. iAnt = Len(offsets)
  BY <1>1 DEF FilesAt
<1> QED BY <1>1, <1>2, <1>3, <1>4 DEF FilesAt

\* The files of antennas with a number of their own are not those of others.
LEMMA AntennaConvInv ==
    ASSUME NEW T \in Nat, recording \in Recordings, FilesAt(T), ConvAntenna
    PROVE  FilesAt(T)'
<1> DEFINE r == recording
           j == iAnt + 1
           id == r.antIDs[j]
<1>1. /\ conv_pc = "antennas" /\ conv_pc' = "antennas" /\ iAnt < r.nAnts /\ iAnt' = j
      /\ datas' = [a \in DOMAIN datas \cup {id} |->
                     IF a # id THEN datas[a] ELSE write_ext_header(header_left)]
      /\ offsets' = Append(offsets, header_left) /\ header_left' = 0
      /\ recording' = r /\ nRead' = nRead
  BY DEF ConvAntenna
<1>2. /\ offsets \in Seq(Nat) /\ iAnt = Len(offsets) /\ iAnt \in Nat
      /\ T = 0 /\ header_left = HeaderBytes(r, j)
  BY <1>1 DEF FilesAt
<1>3. /\ r.nAnts \in Nat /\ \A i : HeaderBytes(r, i) \in Nat
      /\ outBufferLen(r) \in Nat
  BY RecordingSizes
<1>4. /\ offsets' \in Seq(Nat) /\ Len(offsets') = j /\ offsets'[j] = header_left
      /\ \A i \in 1 .. Len(offsets) : offsets'[i] = offsets[i]
  BY <1>1, <1>2, <1>3
<1>5. header_left' = HeaderBytes(r, j + 1)
  <2>1. j + 1 # 1
    BY <1>2
  <2> QED BY <1>1, <2>1 DEF HeaderBytes
<1>6. ASSUME NEW i \in 1 .. j PROVE AntFile(i, T)'
  <2>1. id \in DOMAIN datas' /\ datas'[id] = write_ext_header(header_left)
    BY <1>1
  <2>2. PICK h \in Nat, o \in Nat : h = HeaderBytes(r, i) /\ o = outBufferLen(r)
    BY <1>3
  <2>3. h + o * 0 = h
    BY <2>2
  <2>4. Done(i, T)' = 0
    BY <1>1, <1>2 DEF Done
  <2>5. CASE i = j
    <3>1. offsets'[i] = h
      BY <1>2, <1>4, <2>2, <2>5
    <3>2. datas'[id] = Prefix(r, i, 0, h)
      BY <1>2, <2>1, <2>2, <2>5, PrefixCreated
    <3>3. h \in offsets'[i] .. h + o * T
      BY <1>2, <2>3, <3>1
    <3> QED BY <1>1, <1>2, <2>1, <2>2, <2>3, <2>4, <2>5, <3>1, <3>2, <3>3 DEF AntFile
  <2>6. CASE i # j
    <3>1. i \in 1 .. Len(offsets)
      BY <1>2, <2>6
    <3>2. AntFile(i, T) /\ Done(i, T) = 0
      BY <1>2, <3>1 DEF FilesAt, Done
    <3>3. r.antIDs[i] \in DOMAIN datas'
      BY <1>1, <3>2 DEF AntFile
    <3>4. ASSUME Alone(r, i) PROVE datas'[r.antIDs[i]] = datas[r.antIDs[i]]
      <4>1. j \in 1 .. r.nAnts
        BY <1>1, <1>2, <1>3
      <4>2. r.antIDs[i] # id
        BY <2>6, <3>4, <4>1 DEF Alone
      <4> QED BY <1>1, <3>3, <4>2
    <3>5. offsets'[i] = offsets[i]
      BY <1>4, <3>1
    <3> QED BY <1>1, <2>4, <3>2, <3>3, <3>4, <3>5 DEF AntFile
  <2> QED BY <2>5, <2>6
<1>7. j <= r.nAnts /\ j \in 0 .. j
  BY <1>1, <1>2, <1>3
<1>8. nRead' = inBufferLen(recording') * T
  BY <1>1 DEF FilesAt
<1>9. iAnt' + 1 = j + 1
  BY <1>1
<1> QED BY <1>1, <1>2, <1>4, <1>5, <1>6, <1>7, <1>8, <1>9 DEF FilesAt

\* One step more.
LEMMA OneStepMore ==
    ASSUME NEW o \in Nat, NEW T \in Nat \ {0}
    PROVE  o * T \in Nat /\ o * (T - 1) \in Nat /\ o * T = o * (T - 1) + o
<1>1. PICK t \in Nat : t = T - 1 /\ T = t + 1
  OBVIOUS
<1>2. o * t \in Nat /\ o * (t + 1) \in Nat /\ o * (t + 1) = o * t + o
  OBVIOUS
<1> QED BY <1>1, <1>2

\* After a read every file lacks one more step.
LEMMA ReadConvInv ==
    ASSUME NEW T \in Nat, recording \in Recordings, FilesAt(T), ConvRead
    PROVE  FilesAt(T + 1)'
<1> DEFINE r == recording
<1>1. /\ conv_pc = "loop" /\ conv_pc' = "write" /\ iAnt' = 0
      /\ nRead' = nRead + inBufferLen(r)
      /\ UNCHANGED <<recording, header_left, datas, offsets>>
  BY DEF ConvRead
<1>2. /\ offsets \in Seq(Nat) /\ iAnt = Len(offsets) /\ Len(offsets) = r.nAnts
      /\ Len(offsets) \in Nat \ {0}
  <2>1. r.nAnts \in Nat \ {0}
    BY RecordingSizes
  <2> QED BY <1>1, <2>1 DEF FilesAt
<1>3. nRead' = inBufferLen(r) * (T + 1)
  <2>1. PICK v \in Nat : v = inBufferLen(r)
    BY RecordingSizes
  <2>2. nRead = v * T
    BY <2>1 DEF FilesAt
  <2>3. v * T + v = v * (T + 1)
    OBVIOUS
  <2> QED BY <1>1, <2>1, <2>2, <2>3
<1>4. ASSUME NEW i \in 1 .. Len(offsets) PROVE AntFile(i, T + 1)'
  <2>1. AntFile(i, T) /\ Done(i, T) = T /\ Done(i, T + 1)' = T
    BY <1>1, <1>2 DEF FilesAt, Done
  <2>2. PICK h \in Nat, o \in Nat, q \in Nat :
          h = HeaderBytes(r, i) /\ o = outBufferLen(r) /\ q = o * T
    <3>1. HeaderBytes(r, i) \in Nat /\ outBufferLen(r) \in Nat
      BY RecordingSizes
    <3>2. outBufferLen(r) * T \in Nat
      BY <3>1
    <3> QED BY <3>1, <3>2
  <2>3. offsets'[i] = h + q /\ offsets[i] = h + q /\ h + q \in Nat
    <3>1. offsets[i] = h + q
      BY <2>1, <2>2 DEF AntFile
    <3>2. h + q \in Nat
      OBVIOUS
    <3> QED BY <1>1, <3>1, <3>2
  <2>4. h + q \in h + q .. h + o * (T + 1)
    <3>1. PICK x \in Nat : x = o * (T + 1)
      OBVIOUS
    <3>2. x = q + o
      BY <2>2, <3>1
    <3>3. h + q <= h + x
      BY <3>2
    <3> QED BY <3>1, <3>3
  <2>5. ASSUME Alone(r, i) PROVE datas'[r.antIDs[i]] = Prefix(r, i, T + 1, h + q)
    <3>1. datas[r.antIDs[i]] = Prefix(r, i, T, h + q)
      BY <1>1, <2>1, <2>3, <2>5 DEF AntFile
    <3>2. T + 1 \in Nat /\ T <= T + 1 /\ h + q <= HeaderBytes(r, i) + outBufferLen(r) * T
      BY <2>2
    <3>3. PICK U \in Nat, z \in Nat : U = T + 1 /\ z = h + q
      OBVIOUS
    <3>4. T <= U /\ z <= FileBytes(r, i, T)
      BY <3>2, <3>3 DEF FileBytes
    <3>5. Prefix(r, i, T, z) = Prefix(r, i, U, z)
      BY <3>4, PrefixGrows
    <3> QED BY <1>1, <3>1, <3>3, <3>5
  <2> QED BY <1>1, <2>1, <2>2, <2>3, <2>4, <2>5 DEF AntFile
<1>5. 0 \in 0 .. Len(offsets) /\ T + 1 > 0 /\ 0 < Len(offsets) /\ Len(offsets) <= r.nAnts
  BY <1>2
<1> QED BY <1>1, <1>2, <1>3, <1>4, <1>5 DEF FilesAt

\* What a write of the first len bytes of dataout changes.
LEMMA WrittenOut ==
    ASSUME NEW T \in Nat, recording \in Recordings, FilesAt(T), conv_pc = "write",
           NEW len \in 0 .. outBufferLen(recording), WriteOut(iAnt, len)
    PROVE  /\ DOMAIN datas' = DOMAIN datas
           /\ \A i \in 1 .. Len(offsets) : Alone(recording, i) =>
                datas'[recording.antIDs[i]] =
                  IF i = iAnt + 1 THEN Prefix(recording, i, T, offsets[i] + len)
                                  ELSE datas[recording.antIDs[i]]
<1> DEFINE r == recording
           j == iAnt + 1
           id == r.antIDs[j]
           new == {[at |-> offsets[j] + m.out, from |-> nRead - inBufferLen(r) + m.in,
                    half |-> m.half] : m \in {c \in convert(r, iAnt) : c.out < len}}
<1>1. datas' = [datas EXCEPT ![id] = {d \in @ : \A n \in new : n.at # d.at} \cup new]
  BY DEF WriteOut
<1>2. /\ iAnt \in Nat /\ j \in 1 .. Len(offsets) /\ j \in Nat \ {0} /\ j - 1 = iAnt
      /\ Len(offsets) = r.nAnts /\ T > 0 /\ offsets \in Seq(Nat)
  BY DEF FilesAt
<1>3. PICK t \in Nat : t = T - 1 /\ T = t + 1
  BY <1>2
<1>4. AntFile(j, T) /\ Done(j, T) = t
  BY <1>2, <1>3 DEF FilesAt, Done
<1>5. offsets[j] = HeaderBytes(r, j) + outBufferLen(r) * t /\ offsets[j] \in Nat
  <2>1. offsets[j] = HeaderBytes(r, j) + outBufferLen(r) * t
    BY <1>4 DEF AntFile
  <2>2. offsets[j] \in Nat
    BY <1>2
  <2> QED BY <2>1, <2>2
<1>6. nRead - inBufferLen(r) = inBufferLen(r) * t
  <2>1. PICK v \in Nat : v = inBufferLen(r)
    BY RecordingSizes
  <2>2. nRead = v * T
    BY <2>1 DEF FilesAt
  <2>3. v * (t + 1) - v = v * t
    OBVIOUS
  <2> QED BY <1>3, <2>1, <2>2, <2>3
<1>7. new = Added(r, j, t, len)
  BY <1>2, <1>5, <1>6 DEF Added
<1> HIDE DEF new
<1>8. ASSUME NEW i \in 1 .. Len(offsets), Alone(r, i)
      PROVE  datas'[r.antIDs[i]] = IF i = j THEN Prefix(r, i, T, offsets[i] + len)
                                            ELSE datas[r.antIDs[i]]
  <2>1. CASE i = j
    <3>1. datas[id] = Prefix(r, j, t + 1, offsets[j]) /\ id \in DOMAIN datas
      BY <1>3, <1>4, <1>8, <2>1 DEF AntFile
    <3>2. PICK F : F = datas[id]
      OBVIOUS
    <3>3. datas'[id] = Overwritten(F, new)
      BY <1>1, <3>1, <3>2 DEF Overwritten
    <3>4. PICK k \in Nat \ {0}, z \in Nat : k = j /\ z = offsets[j]
      BY <1>2, <1>5
    <3>5. z = FileBytes(r, k, t) /\ F = Prefix(r, k, t + 1, z)
      BY <1>5, <3>1, <3>2, <3>4 DEF FileBytes
    <3>6. Overwritten(F, Added(r, k, t, len)) = Prefix(r, k, t + 1, z + len)
      BY <3>5, PrefixWritten
    <3> QED BY <1>3, <1>7, <2>1, <3>3, <3>4, <3>6
  <2>2. CASE i # j
    <3>1. r.antIDs[i] # id
      BY <1>2, <1>8, <2>2 DEF Alone
    <3>2. r.antIDs[i] \in DOMAIN datas
      BY DEF FilesAt, AntFile
    <3> QED BY <1>1, <2>2, <3>1, <3>2
  <2> QED BY <2>1, <2>2
<1> QED BY <1>1, <1>8

\* A whole write completes the step in one file.
LEMMA WriteConvInv ==
    ASSUME NEW T \in Nat, recording \in Recordings, FilesAt(T), ConvWrite
    PROVE  FilesAt(T)'
<1> DEFINE r == recording
           j == iAnt + 1
<1>1. /\ conv_pc = "write" /\ WriteOut(iAnt, outBufferLen(r)) /\ iAnt' = j
      /\ offsets' = [offsets EXCEPT ![j] = @ + outBufferLen(r)]
      /\ conv_pc' = IF iAnt' = r.nAnts THEN "loop" ELSE "write"
      /\ UNCHANGED <<recording, header_left, nRead>>
  BY DEF ConvWrite
<1>2. /\ iAnt \in Nat /\ j \in 1 .. Len(offsets) /\ j \in 0 .. Len(offsets)
      /\ Len(offsets) = r.nAnts /\ T > 0 /\ offsets \in Seq(Nat)
  BY <1>1 DEF FilesAt
<1>3. PICK o \in Nat, q \in Nat, p \in Nat :
        o = outBufferLen(r) /\ q = o * T /\ p = o * (T - 1) /\ q = p + o
  <2>1. PICK o \in Nat : o = outBufferLen(r)
    BY RecordingSizes
  <2>2. T \in Nat \ {0}
    BY <1>2
  <2>3. o * T \in Nat /\ o * (T - 1) \in Nat /\ o * T = o * (T - 1) + o
    BY ONLY <2>2, OneStepMore, o \in Nat
  <2> QED BY <2>1, <2>3
<1>4. /\ DOMAIN datas' = DOMAIN datas
      /\ \A i \in 1 .. Len(offsets) : Alone(r, i) =>
           datas'[r.antIDs[i]] = IF i = j THEN Prefix(r, i, T, offsets[i] + o)
                                          ELSE datas[r.antIDs[i]]
  <2>1. outBufferLen(r) \in 0 .. outBufferLen(r)
    BY <1>3
  <2> QED BY <1>1, <1>3, <2>1, WrittenOut
<1>5. /\ offsets' \in Seq(Nat) /\ Len(offsets') = Len(offsets) /\ offsets'[j] = offsets[j] + o
      /\ \A i \in 1 .. Len(offsets) : i # j => offsets'[i] = offsets[i]
  <2>1. offsets[j] + o \in Nat /\ offsets' = [offsets EXCEPT ![j] = offsets[j] + o]
    <3>1. offsets[j] \in Nat
      BY <1>2
    <3>2. offsets' = [offsets EXCEPT ![j] = offsets[j] + o]
      BY <1>1, <1>3
    <3>3. offsets[j] + o \in Nat
      BY ONLY <3>1, o \in Nat
    <3> QED BY <3>2, <3>3
  <2> QED BY <1>2, <2>1
<1>6. ASSUME NEW i \in 1 .. Len(offsets) PROVE AntFile(i, T)'
  <2>1. AntFile(i, T)
    BY DEF FilesAt
  <2>2. PICK h \in Nat : h = HeaderBytes(r, i)
    BY RecordingSizes
  <2>3. CASE i = j
    <3>1. Done(i, T) = T - 1 /\ Done(i, T)' = T
      BY <1>1, <1>2, <2>3 DEF Done
    <3>2. offsets[i] = h + p
      BY <1>3, <2>1, <2>2, <3>1 DEF AntFile
    <3>3. offsets'[i] = h + q /\ offsets[i] + o = h + q
      BY <1>3, <1>5, <2>2, <2>3, <3>2
    <3>4. h + q \in h + q .. h + q
      BY <1>3, <2>2
    <3> QED BY <1>1, <1>3, <1>4, <2>1, <2>2, <2>3, <3>1, <3>3, <3>4 DEF AntFile
  <2>4. CASE i # j
    <3>1. Done(i, T)' = Done(i, T)
      BY <1>1, <1>2, <2>4 DEF Done
    <3>2. offsets'[i] = offsets[i]
      BY <1>5, <2>4
    <3>3. Alone(r, i) => datas'[r.antIDs[i]] = datas[r.antIDs[i]]
      BY <1>4, <2>4
    <3> QED BY <1>1, <1>4, <2>1, <3>1, <3>2, <3>3 DEF AntFile
  <2> QED BY <2>3, <2>4
<1>7. /\ conv_pc' = "loop" \/ conv_pc' = "write"
      /\ conv_pc' # "write" => iAnt' = Len(offsets)
      /\ conv_pc' = "write" => iAnt' < Len(offsets)
  BY <1>1, <1>2
<1>8. Len(offsets) <= r.nAnts /\ nRead' = inBufferLen(r) * T
  BY <1>1, <1>2 DEF FilesAt
<1> QED BY <1>1, <1>2, <1>5, <1>6, <1>7, <1>8 DEF FilesAt

\* A short write leaves a part of a step.
LEMMA ShortWriteConvInv ==
    ASSUME NEW T \in Nat, recording \in Recordings, FilesAt(T), conv_pc = "write",
           NEW len \in 0 .. outBufferLen(recording) - 1, WriteOut(iAnt, len), conv_pc' = "error",
           UNCHANGED <<recording, iAnt, header_left, nRead, offsets>>
    PROVE  FilesAt(T)'
<1> DEFINE r == recording
           j == iAnt + 1
<1>1. /\ iAnt \in Nat /\ j \in 1 .. Len(offsets) /\ T > 0 /\ offsets \in Seq(Nat)
  BY DEF FilesAt
<1>2. PICK o \in Nat, q \in Nat, p \in Nat :
        o = outBufferLen(r) /\ q = o * T /\ p = o * (T - 1) /\ q = p + o
  <2>1. PICK o \in Nat : o = outBufferLen(r)
    BY RecordingSizes
  <2>2. T \in Nat \ {0}
    BY <1>1
  <2>3. o * T \in Nat /\ o * (T - 1) \in Nat /\ o * T = o * (T - 1) + o
    BY ONLY <2>2, OneStepMore, o \in Nat
  <2> QED BY <2>1, <2>3
<1>3. len \in 0 .. outBufferLen(r) /\ len \in Nat /\ len <= o
  BY <1>2
<1>4. /\ DOMAIN datas' = DOMAIN datas
      /\ \A i \in 1 .. Len(offsets) : Alone(r, i) =>
           datas'[r.antIDs[i]] = IF i = j THEN Prefix(r, i, T, offsets[i] + len)
                                          ELSE datas[r.antIDs[i]]
  BY <1>3, WrittenOut
<1>5. ASSUME NEW i \in 1 .. Len(offsets) PROVE AntFile(i, T)'
  <2>1. AntFile(i, T) /\ Done(i, T)' = Done(i, T)
    BY DEF FilesAt, Done
  <2>2. PICK h \in Nat : h = HeaderBytes(r, i)
    BY RecordingSizes
  <2>3. CASE i = j
    <3>1. offsets[i] = h + p
      <4>1. Done(i, T) = T - 1
        BY <1>1, <2>3 DEF Done
      <4> QED BY <1>2, <2>1, <2>2, <4>1 DEF AntFile
    <3>2. offsets[i] + len \in offsets[i] .. h + q
      <4>1. h + p + len <= h + q
        <5>1. q = p + o
          BY <1>2
        <5> QED BY <1>3, <5>1
      <4>2. h + p + len \in h + p .. h + q
        BY <1>3, <4>1
      <4> QED BY <3>1, <4>2
    <3>3. Alone(r, i) => datas'[r.antIDs[i]] = Prefix(r, i, T, offsets[i] + len)
      BY <1>4, <2>3
    <3> QED BY <1>2, <1>4, <2>1, <2>2, <3>2, <3>3 DEF AntFile
  <2>4. CASE i # j
    <3>1. Alone(r, i) => datas'[r.antIDs[i]] = datas[r.antIDs[i]]
      BY <1>4, <2>4
    <3> QED BY <1>4, <2>1, <3>1 DEF AntFile
  <2> QED BY <2>3, <2>4
<1> QED BY <1>5 DEF FilesAt

\* Whatever the recording, its antennas and the packets' dimensions, and
\* wherever a short write ends the program, the file of an antenna with a
\* number of its own is a prefix of that antenna's time series, after the whole
\* header or none of it.  (That only one file has the header is HeaderInEveryFile's
\* matter, and not proved.)
THEOREM RecordingConverted == Spec => []ConvertedInPlace
<1>1. Init => ConvInv
  BY InitConvInv
<1>2. ConvInv /\ [Next]_<<part, mkVars, udpVars, convVars, parVars>> => ConvInv'
  <2> SUFFICES ASSUME ConvInv, [Next]_<<part, mkVars, udpVars, convVars, parVars>> PROVE ConvInv'
    OBVIOUS
  <2>1. CASE UNCHANGED <<part, convVars>>
    BY <2>1 DEF ConvInv, FilesAt, AntFile, Done, convVars
  <2>2. CASE part = "converter" /\ ConvNext /\ part' = part
    <3>1. recording \in Recordings /\ recording' = recording
      BY <2>2 DEF ConvInv, ConvNext, ConvStart, ConvAntenna, ConvFilesOpen, ConvRead, ConvWrite,
                  ConvEnd, ConvError
    <3>2. PICK T \in Nat : FilesAt(T)
      BY <2>2 DEF ConvInv
    <3>3. CASE ConvStart \/ ConvFilesOpen \/ ConvEnd
      BY <2>2, <3>1, <3>2, <3>3, QuietConvInv DEF ConvInv
    <3>4. CASE ConvAntenna
      BY <2>2, <3>1, <3>2, <3>4, AntennaConvInv DEF ConvInv
    <3>5. CASE ConvRead
      <4>1. FilesAt(T + 1)' /\ T + 1 \in Nat
        BY <3>1, <3>2, <3>5, ReadConvInv
      <4> QED BY <2>2, <3>1, <4>1 DEF ConvInv
    <3>6. CASE ConvWrite
      BY <2>2, <3>1, <3>2, <3>6, WriteConvInv DEF ConvInv
    <3>7. CASE ConvError
      <4>1. CASE conv_pc \in {"start", "antennas", "loop"} /\ UNCHANGED datas
        <5>1. FilesAt(T)'
          BY <3>1, <3>2, <3>7, <4>1, QuietConvInv DEF ConvError
        <5> QED BY <2>2, <3>1, <3>2, <5>1 DEF ConvInv
      <4>2. CASE conv_pc = "write" /\ \E len \in 0 .. outBufferLen(recording) - 1 :
                                         WriteOut(iAnt, len)
        <5>1. PICK len \in 0 .. outBufferLen(recording) - 1 : WriteOut(iAnt, len)
          BY <4>2
        <5>2. conv_pc' = "error" /\ UNCHANGED <<recording, iAnt, header_left, nRead, offsets>>
          BY <3>7 DEF ConvError
        <5>3. FilesAt(T)'
          BY <3>1, <3>2, <4>2, <5>1, <5>2, ShortWriteConvInv
        <5> QED BY <2>2, <3>1, <3>2, <5>3 DEF ConvInv
      <4> QED BY <3>7, <4>1, <4>2 DEF ConvError
    <3> QED BY <2>2, <3>3, <3>4, <3>5, <3>6, <3>7 DEF ConvNext
  <2> QED BY <2>1, <2>2 DEF Next
<1>3. ConvInv => ConvertedInPlace
  BY ConvInvHolds
<1> QED BY <1>1, <1>2, <1>3, PTL DEF Spec
------------------------------------------------------------------------------
\* t lists what calc_ntime_per_block makes of 1, 2, ... up to m samples.
IsShifted(t, m) == t = [n \in 1 .. m |-> IF n = 1 THEN 1 ELSE 2 * t[n \div 2]]

\* One of them exists for every number of samples.
LEMMA ShiftedExists ==
    ASSUME NEW n \in Nat
    PROVE  \E t : IsShifted(t, n)
<1> DEFINE G == {m \in Nat : \E t : IsShifted(t, m)}
<1>1. 0 \in G
  <2>1. IsShifted([k \in 1 .. 0 |-> 0], 0)
    BY DEF IsShifted
  <2> QED BY <2>1
<1>2. ASSUME NEW m \in G PROVE m + 1 \in G
  <2>1. PICK t : IsShifted(t, m)
    OBVIOUS
  <2> DEFINE e(u, k) == IF k = 1 THEN 1 ELSE 2 * u[k \div 2]
             u == [k \in 1 .. m + 1 |-> IF k = m + 1 THEN e(t, k) ELSE t[k]]
  <2>2. ASSUME NEW k \in 1 .. m + 1
        PROVE  u[k] = e(u, k)
    <3>1. k # 1 => k \div 2 \in 1 .. m /\ k \div 2 # m + 1 /\ k \div 2 \in 1 .. m + 1
      OBVIOUS
    <3>2. k # 1 => u[k \div 2] = t[k \div 2]
      BY <3>1
    <3>3. CASE k = m + 1
      BY <3>2, <3>3
    <3>4. CASE k # m + 1
      <4>1. k \in 1 .. m
        BY <3>4
      <4>2. t[k] = e(t, k)
        BY <2>1, <4>1 DEF IsShifted
      <4> QED BY <3>2, <3>4, <4>2
    <3> QED BY <3>3, <3>4
  <2>3. IsShifted(u, m + 1)
    <3>1. u = [k \in 1 .. m + 1 |-> u[k]]
      OBVIOUS
    <3> HIDE DEF u
    <3> QED BY <2>2, <3>1 DEF IsShifted
  <2> QED BY <2>3
<1>3. G = Nat
  <2> HIDE DEF G
  <2>1. G \in SUBSET Nat
    BY DEF G
  <2> QED BY <1>1, <1>2, <2>1, NatSetInduction
<1> QED BY <1>3

\* It is at most the number of samples, and twice as much is more.
LEMMA ShiftedBounds ==
    ASSUME NEW n \in Nat, NEW t, IsShifted(t, n), NEW k \in 1 .. n
    PROVE  t[k] \in Nat /\ t[k] <= k /\ k < 2 * t[k]
<1> DEFINE Bounds(j) == t[j] \in Nat /\ t[j] <= j /\ j < 2 * t[j]
           G == {m \in Nat : \A j \in 1 .. m : j <= n => Bounds(j)}
<1>1. 0 \in G
  OBVIOUS
<1>2. ASSUME NEW m \in G PROVE m + 1 \in G
  <2> SUFFICES ASSUME m + 1 <= n PROVE Bounds(m + 1)
    OBVIOUS
  <2>1. CASE m = 0
    <3>1. 1 \in 1 .. n /\ m + 1 = 1
      BY <2>1
    <3>2. t[1] = 1
      BY <3>1 DEF IsShifted
    <3> QED BY <3>1, <3>2
  <2>2. CASE m # 0
    <3>1. PICK h \in Int : h = (m + 1) \div 2
      OBVIOUS
    <3>2. h \in 1 .. m /\ h <= n /\ 2 * h <= m + 1 /\ m + 1 <= 2 * h + 1
      BY <2>2, <3>1
    <3>3. Bounds(h)
      BY <3>2
    <3>4. t[m + 1] = 2 * t[h]
      <4>1. m + 1 \in 1 .. n /\ m + 1 # 1
        BY <2>2
      <4> QED BY <3>1, <4>1 DEF IsShifted
    <3> HIDE DEF Bounds
    <3>5. PICK v \in Nat : v = t[h] /\ v <= h /\ h < 2 * v
      BY <3>3 DEF Bounds
    <3> QED BY <3>2, <3>4, <3>5 DEF Bounds
  <2> QED BY <2>1, <2>2
<1>3. G = Nat
  <2> HIDE DEF G
  <2>1. G \in SUBSET Nat
    BY DEF G
  <2> QED BY <1>1, <1>2, <2>1, NatSetInduction
<1>4. n \in G
  BY <1>3
<1> QED BY <1>4

\* The samples fit the block, and twice as many do not.
LEMMA SamplesFit ==
    ASSUME NEW size \in Nat, NEW chans \in Nat \ {0}, size >= 4 * chans
    PROVE  /\ 4 * chans * calc_ntime_per_block(size, chans) <= size
           /\ size < 8 * chans * calc_ntime_per_block(size, chans)
<1>1. PICK d \in Nat \ {0} : d = 4 * chans
  OBVIOUS
<1>2. PICK q \in Int, r \in 0 .. d - 1 : q = size \div d /\ size = d * q + r
  <2>1. size \div d \in Int /\ size % d \in 0 .. d - 1 /\ size = d * (size \div d) + (size % d)
    BY StrideParts
  <2> QED BY <2>1
<1>3. q \in Nat \ {0}
  <2>1. q <= 0 => d * q <= 0
    OBVIOUS
  <2> QED BY <1>1, <1>2, <2>1
<1> DEFINE t == CHOOSE u : IsShifted(u, q)
<1>4. IsShifted(t, q)
  BY <1>3, ShiftedExists
<1>5. calc_ntime_per_block(size, chans) = t[q]
  BY <1>1, <1>2 DEF calc_ntime_per_block, IsShifted
<1> HIDE DEF t
<1>6. PICK n \in Nat : n = t[q] /\ n <= q /\ q < 2 * n
  <2>1. q \in 1 .. q
    BY <1>3
  <2> QED BY <1>3, <1>4, <2>1, ShiftedBounds
<1>7. d * n <= d * q /\ d * (q + 1) <= d * (2 * n)
  BY <1>3, <1>6
<1>8. d * (q + 1) = d * q + d /\ 8 * chans * n = d * (2 * n) /\ 4 * chans * n = d * n
  BY <1>1
<1>9. PICK a \in Int, b \in Int, c \in Int : a = d * q /\ b = d * n /\ c = d * (2 * n)
  OBVIOUS
<1>10. a + r = size /\ b <= a /\ a + d <= c
  BY <1>2, <1>7, <1>8, <1>9
<1> QED BY <1>5, <1>6, <1>8, <1>9, <1>10

\* Where malloc puts the arrays when nothing is allocated.
Places == [x \in Arrays |-> CASE x = "dat_freqs" -> 1 [] x = "dat_weights" -> 2
                              [] x = "dat_offsets" -> 3 [] x = "dat_scales" -> 4]

\* The arrays of a read are those of one content of the status buffer, however
\* it has changed since, and nothing else is allocated.
ReadOk ==
    /\ sub.p = Places /\ "p" \in DOMAIN sub
    /\ DOMAIN heap = 1 .. 4
    /\ \E s \in Statuses : /\ ~Missing(s) /\ hdr = ReadDims(s)
                           /\ \A x \in Arrays : heap[Places[x]] = Filled(s, hdr)[x]

\* The inductive invariant of the parameters.
ParInv ==
    IF part = "params"
    THEN /\ status \in Statuses
         /\ par_pc # "corrupt"
         /\ par_pc = "new" => DOMAIN heap = {} /\ sub.p = [x \in Arrays |-> NULL]
         /\ par_pc = "freed" => DOMAIN heap = {}
         /\ par_pc = "read" => ReadOk
    ELSE par_pc = "new"

\* The first four addresses are free.
LEMMA FirstPlaces ==
    ASSUME NEW mem, DOMAIN mem = {}
    PROVE  Allocated(mem) = Places
<1>1. Cardinality(DOMAIN mem) = 0
  BY FS_EmptySet
<1> DEFINE free == (1 .. Cardinality(DOMAIN mem) + 4) \ DOMAIN mem
           Kth(k) == CHOOSE a \in free : Cardinality({b \in free : b <= a}) = k
<1>2. free = 1 .. 4
  BY <1>1
<1>3. ASSUME NEW a \in 1 .. 4 PROVE Cardinality({b \in free : b <= a}) = a
  <2>1. {b \in free : b <= a} = 1 .. a
    BY <1>2
  <2>2. Cardinality(1 .. a) = IF 1 > a THEN 0 ELSE a - 1 + 1
    BY FS_Interval
  <2>3. (IF 1 > a THEN 0 ELSE a - 1 + 1) = a
    OBVIOUS
  <2> HIDE DEF free
  <2> QED BY <2>1, <2>2, <2>3
<1>4. ASSUME NEW k \in 1 .. 4 PROVE Kth(k) = k
  <2> HIDE DEF free
  <2>1. k \in free /\ Cardinality({b \in free : b <= k}) = k
    BY <1>2, <1>3
  <2>2. \A a \in free : Cardinality({b \in free : b <= a}) = k => a = k
    BY <1>2, <1>3
  <2> QED BY <2>1, <2>2
<1> HIDE DEF Kth
<1>5. Kth(1) = 1 /\ Kth(2) = 2 /\ Kth(3) = 3 /\ Kth(4) = 4
  BY <1>4
<1>6. Allocated(mem) = [x \in Arrays |-> CASE x = "dat_freqs" -> Kth(1)
                          [] x = "dat_weights" -> Kth(2) [] x = "dat_offsets" -> Kth(3)
                          [] x = "dat_scales" -> Kth(4)]
  BY DEF Allocated, Kth
<1> QED BY <1>5, <1>6 DEF Places

\* They are the numbers 1 to 4, each once.
LEMMA PlacesDiffer ==
    /\ \A x \in Arrays : Places[x] \in 1 .. 4 /\ Places[x] # NULL
    /\ \A x, y \in Arrays : Places[x] = Places[y] => x = y
    /\ {Places[x] : x \in Arrays} = 1 .. 4
<1>1. \A x \in Arrays : x = "dat_freqs" \/ x = "dat_weights" \/ x = "dat_offsets" \/ x = "dat_scales"
  BY DEF Arrays
<1>2. /\ Places["dat_freqs"] = 1 /\ Places["dat_weights"] = 2
      /\ Places["dat_offsets"] = 3 /\ Places["dat_scales"] = 4
  BY DEF Places, Arrays
<1>3. {Places[x] : x \in Arrays} = {1, 2, 3, 4}
  BY <1>2 DEF Arrays
<1>4. 1 .. 4 = {1, 2, 3, 4}
  OBVIOUS
<1> QED BY <1>1, <1>2, <1>3, <1>4 DEF NULL

\* Each array has as many elements as were asked for.
LEMMA FilledDomain ==
    ASSUME NEW s, NEW h, NEW x \in Arrays
    PROVE  DOMAIN Filled(s, h)[x] = 0 .. ArrayLen(h)[x] - 1
<1>1. x = "dat_freqs" \/ x = "dat_weights" \/ x = "dat_offsets" \/ x = "dat_scales"
  BY DEF Arrays
<1>2. CASE x = "dat_freqs"
  BY <1>2 DEF Filled, ArrayLen
<1>3. CASE x = "dat_weights"
  BY <1>3 DEF Filled, ArrayLen
<1>4. CASE x = "dat_offsets" \/ x = "dat_scales"
  BY <1>4 DEF Filled, ArrayLen
<1> QED BY <1>1, <1>2, <1>3, <1>4

\* Filled is made of functions.
LEMMA FilledIsFunction ==
    ASSUME NEW s, NEW h, NEW x \in Arrays
    PROVE  Filled(s, h)[x] = [i \in DOMAIN Filled(s, h)[x] |-> Filled(s, h)[x][i]]
<1>1. x = "dat_freqs" \/ x = "dat_weights" \/ x = "dat_offsets" \/ x = "dat_scales"
  BY DEF Arrays
<1> QED BY <1>1 DEF Filled

\* As many values as numbers, when different numbers have different values.
LEMMA CountValues ==
    ASSUME NEW n \in Nat, NEW f, \A i, j \in 0 .. n - 1 : f[i] = f[j] => i = j
    PROVE  Cardinality({f[i] : i \in 0 .. n - 1}) = n
<1> DEFINE I == 0 .. n - 1
           V == {f[i] : i \in I}
           g == [i \in I |-> f[i]]
<1>1. g \in [I -> V] /\ \A v \in V : \E i \in I : g[i] = v
  OBVIOUS
<1>2. \A i, j \in I : g[i] = g[j] => i = j
  OBVIOUS
<1>3. g \in Bijection(I, V)
  <2> HIDE DEF g, I, V
  <2> QED BY <1>1, <1>2 DEF Bijection, Injection, Surjection, IsInjective
<1>4. ExistsBijection(I, V)
  BY <1>3 DEF ExistsBijection
<1>5. IsFiniteSet(I) /\ Cardinality(I) = n
  <2>1. 0 \in Int /\ n - 1 \in Int
    OBVIOUS
  <2>2. /\ IsFiniteSet(0 .. n - 1)
        /\ Cardinality(0 .. n - 1) = IF 0 > n - 1 THEN 0 ELSE (n - 1) - 0 + 1
    BY <2>1, FS_Interval
  <2> QED BY <2>2
<1>6. Cardinality(V) = Cardinality(I)
  <2> HIDE DEF I, V
  <2> QED BY <1>4, <1>5, FS_Bijection
<1> QED BY <1>5, <1>6

\* The values of a polarisation are at the distance of nchan.
LEMMA PolarisationValues ==
    ASSUME NEW s \in Statuses, ~Missing(s), NEW h, h = ReadDims(s),
           NEW x \in {"dat_offsets", "dat_scales"}, NEW ch \in 0 .. h.nchan - 1
    PROVE  Cardinality({Filled(s, h)[x][pol * h.nchan + ch] : pol \in 0 .. h.npol - 1}) = h.npol
<1>1. PICK n \in Nat \ {0}, m \in Nat \ {0} : n = h.nchan /\ m = h.npol /\ m = s.npol
  BY ParAssumption DEF ReadDims, Missing
<1>2. Filled(s, h)[x] = [i \in 0 .. n * m - 1 |-> <<x, s.pols[(i \div n) + 1]>>]
  BY <1>1 DEF Filled, Arrays
<1> DEFINE f == [pol \in 0 .. m - 1 |-> <<x, s.pols[pol + 1]>>]
<1>3. ASSUME NEW pol \in 0 .. m - 1
      PROVE  Filled(s, h)[x][pol * n + ch] = f[pol]
  <2>1. PICK i \in Int : i = pol * n + ch
    BY <1>1
  <2>2. i = n * pol + ch /\ ch \in 0 .. n - 1
    BY <1>1, <2>1
  <2>3. i \div n = pol
    BY <2>2, StrideQuotient
  <2>4. i \in 0 .. n * m - 1
    <3>1. n * pol + ch \in 0 .. m * n - 1
      BY <2>2, StrideBound
    <3>2. m * n = n * m
      OBVIOUS
    <3> QED BY <2>2, <3>1, <3>2
  <2> QED BY <1>2, <2>1, <2>3, <2>4
<1>4. \A i, j \in 0 .. m - 1 : f[i] = f[j] => i = j
  <2> SUFFICES ASSUME NEW i \in 0 .. m - 1, NEW j \in 0 .. m - 1, f[i] = f[j] PROVE i = j
    OBVIOUS
  <2>1. s.pols[i + 1] = s.pols[j + 1]
    OBVIOUS
  <2>2. i + 1 \in 1 .. s.npol /\ j + 1 \in 1 .. s.npol
    BY <1>1
  <2>3. i + 1 = j + 1
    BY <2>1, <2>2, ParAssumption
  <2> QED BY <2>3
<1>5. {Filled(s, h)[x][pol * n + ch] : pol \in 0 .. m - 1} = {f[pol] : pol \in 0 .. m - 1}
  BY <1>3
<1>6. Cardinality({f[pol] : pol \in 0 .. m - 1}) = m
  <2> HIDE DEF f
  <2> QED BY <1>4, CountValues
<1> QED BY <1>1, <1>5, <1>6

\* The invariant gives the arrays of the property.
LEMMA ParInvHolds == ParInv => ArraysFit
<1> SUFFICES ASSUME ParInv PROVE ArraysFit
  OBVIOUS
<1>1. par_pc # "corrupt" /\ (par_pc = "freed" => DOMAIN heap = {})
  BY DEF ParInv
<1>2. ASSUME par_pc = "read"
      PROVE  /\ DOMAIN heap = {sub.p[x] : x \in Arrays} /\ Cardinality(DOMAIN heap) = 4
             /\ \A x \in Arrays :
                  Cardinality(DOMAIN heap[sub.p[x]])
                    = hdr.nchan * (IF x \in {"dat_freqs", "dat_weights"} THEN 1 ELSE hdr.npol)
             /\ \A x \in {"dat_offsets", "dat_scales"} : \A ch \in 0 .. hdr.nchan - 1 :
                  Cardinality({heap[sub.p[x]][pol * hdr.nchan + ch] : pol \in 0 .. hdr.npol - 1})
                    = hdr.npol
             /\ status.blocsize >= 4 * hdr.nchan =>
                  LET n == calc_ntime_per_block(status.blocsize, hdr.nchan)
                  IN  4 * hdr.nchan * n <= status.blocsize /\ status.blocsize < 8 * hdr.nchan * n
  <2>1. ReadOk /\ status \in Statuses
    BY <1>2 DEF ParInv
  <2>2. PICK s \in Statuses : /\ ~Missing(s) /\ hdr = ReadDims(s)
                              /\ \A x \in Arrays : heap[Places[x]] = Filled(s, hdr)[x]
    BY <2>1 DEF ReadOk
  <2>3. PICK n \in Nat \ {0}, m \in Nat \ {0} : n = hdr.nchan /\ m = hdr.npol
    BY <2>2, ParAssumption DEF ReadDims, Missing
  <2>4. sub.p = Places /\ DOMAIN heap = {Places[x] : x \in Arrays} /\ DOMAIN heap = 1 .. 4
    BY <2>1, PlacesDiffer DEF ReadOk
  <2>5. Cardinality(1 .. 4) = 4
    <3>1. PICK l \in Int : l = 4
      OBVIOUS
    <3>2. Cardinality(1 .. l) = IF 1 > l THEN 0 ELSE l - 1 + 1
      BY FS_Interval
    <3> QED BY <3>1, <3>2
  <2>6. ASSUME NEW x \in Arrays
        PROVE  Cardinality(DOMAIN heap[Places[x]])
                 = n * (IF x \in {"dat_freqs", "dat_weights"} THEN 1 ELSE m)
    <3>1. DOMAIN heap[Places[x]] = 0 .. ArrayLen(hdr)[x] - 1
      <4>1. heap[Places[x]] = Filled(s, hdr)[x]
        BY <2>2
      <4>2. DOMAIN Filled(s, hdr)[x] = 0 .. ArrayLen(hdr)[x] - 1
        BY FilledDomain
      <4> QED BY <4>1, <4>2
    <3>2. PICK l \in Nat : /\ l = ArrayLen(hdr)[x]
                           /\ l = n * (IF x \in {"dat_freqs", "dat_weights"} THEN 1 ELSE m)
      <4>1. n * m \in Nat /\ n * 1 = n
        OBVIOUS
      <4> QED BY <2>3, <4>1 DEF ArrayLen
    <3>3. Cardinality(0 .. l - 1) = l
      <4>1. 0 \in Int /\ l - 1 \in Int
        OBVIOUS
      <4>2. Cardinality(0 .. l - 1) = IF 0 > l - 1 THEN 0 ELSE (l - 1) - 0 + 1
        BY <4>1, FS_Interval
      <4> QED BY <4>2
    <3> QED BY <3>1, <3>2, <3>3
  <2>7. ASSUME NEW x \in {"dat_offsets", "dat_scales"}, NEW ch \in 0 .. hdr.nchan - 1
        PROVE  Cardinality({heap[Places[x]][pol * hdr.nchan + ch] : pol \in 0 .. hdr.npol - 1})
                 = hdr.npol
    <3>1. heap[Places[x]] = Filled(s, hdr)[x]
      BY <2>2 DEF Arrays
    <3> QED BY <2>2, <3>1, PolarisationValues
  <2>8. ASSUME status.blocsize >= 4 * hdr.nchan
        PROVE  LET k == calc_ntime_per_block(status.blocsize, hdr.nchan)
               IN  4 * hdr.nchan * k <= status.blocsize /\ status.blocsize < 8 * hdr.nchan * k
    <3>1. PICK size \in Nat : size = status.blocsize
      BY <2>1, ParAssumption
    <3> QED BY <2>3, <2>8, <3>1, SamplesFit
  <2> QED BY <2>3, <2>4, <2>5, <2>6, <2>7, <2>8
<1> QED BY <1>1, <1>2 DEF ArraysFit

\* Nothing is allocated.
LEMMA InitParInv == Init => ParInv
<1> SUFFICES ASSUME Init PROVE ParInv
  OBVIOUS
<1>1. /\ status \in MayStart("params", Statuses) /\ par_pc = "new" /\ DOMAIN heap = {}
      /\ sub.p = [x \in Arrays |-> NULL]
  BY DEF Init, ParInit
<1> QED BY <1>1 DEF ParInv, MayStart

\* A read frees what the one before allocated and allocates it again.
LEMMA ReadParInv ==
    ASSUME ParInv, part = "params", part' = part, hpguppi_read_obs_params
    PROVE  ParInv'
<1> DEFINE size == ReadSubintSize(status, hdr')
           freed == hpguppi_free_psrfits(sub.p, heap)
           p == Allocated(freed)
           at == hpguppi_read_subint_params(status, hdr', size.tsubint)
           data == Filled(status, hdr')
           len == ArrayLen(hdr')
<1>1. /\ par_pc \in {"new", "read"} /\ ~Missing(status) /\ hdr' = ReadDims(status)
      /\ heap' = [a \in DOMAIN freed \cup {p[x] : x \in Arrays} |->
                    IF a \in DOMAIN freed THEN freed[a]
                    ELSE LET x == CHOOSE x \in Arrays : p[x] = a
                         IN  [i \in 0 .. len[x] - 1 |-> data[x][i]]]
      /\ sub' = [p |-> p, size |-> [size EXCEPT !.tsubint = at.tsubint],
                 packets_per_block |-> at.packets_per_block, offs |-> at.offs]
      /\ par_pc' = IF FreesTwice(sub.p, heap)
                      \/ \E x \in Arrays : DOMAIN data[x] # 0 .. len[x] - 1
                   THEN "corrupt" ELSE "read"
      /\ status' = status
  BY DEF hpguppi_read_obs_params
<1>2. status \in Statuses
  BY DEF ParInv
<1>3. DOMAIN freed = {} /\ ~FreesTwice(sub.p, heap)
  <2>1. CASE par_pc = "new"
    <3>1. DOMAIN heap = {} /\ sub.p = [x \in Arrays |-> NULL]
      BY <2>1 DEF ParInv
    <3> QED BY <3>1 DEF hpguppi_free_psrfits, FreesTwice
  <2>2. CASE par_pc = "read"
    <3>1. sub.p = Places /\ DOMAIN heap = {Places[x] : x \in Arrays}
      BY <2>2, PlacesDiffer DEF ParInv, ReadOk
    <3> QED BY <3>1 DEF hpguppi_free_psrfits, FreesTwice
  <2> QED BY <1>1, <2>1, <2>2
<1>4. p = Places
  <2> HIDE DEF freed
  <2> QED BY <1>3, FirstPlaces
<1>5. \A x \in Arrays : /\ DOMAIN data[x] = 0 .. len[x] - 1
                        /\ data[x] = [i \in DOMAIN data[x] |-> data[x][i]]
  BY FilledDomain, FilledIsFunction
<1> HIDE DEF size, freed, p, at, data, len
<1>6. DOMAIN heap' = 1 .. 4
  BY <1>1, <1>3, <1>4, PlacesDiffer
<1>7. ASSUME NEW x \in Arrays PROVE heap'[Places[x]] = data[x]
  <2>1. Places[x] \in DOMAIN heap'
    BY <1>6, PlacesDiffer
  <2>2. (CHOOSE y \in Arrays : p[y] = Places[x]) = x
    BY <1>4, PlacesDiffer
  <2>3. heap'[Places[x]] = [i \in 0 .. len[x] - 1 |-> data[x][i]]
    BY <1>1, <1>3, <2>1, <2>2
  <2> QED BY <1>5, <2>3
<1>8. par_pc' = "read"
  BY <1>1, <1>3, <1>5
<1>9. sub'.p = Places /\ "p" \in DOMAIN sub'
  BY <1>1, <1>4
<1>10. ReadOk'
  BY <1>1, <1>2, <1>6, <1>7, <1>9 DEF ReadOk, data
<1> QED BY <1>1, <1>2, <1>8, <1>10 DEF ParInv

\* However often the parameters are read, whatever the operator writes in
\* between: no array is freed twice, leaked, too short or mixed up.
THEOREM ParameterArraysFit == Spec => []ArraysFit
<1>1. Init => ParInv
  BY InitParInv
<1>2. ParInv /\ [Next]_<<part, mkVars, udpVars, convVars, parVars>> => ParInv'
  <2> SUFFICES ASSUME ParInv, [Next]_<<part, mkVars, udpVars, convVars, parVars>> PROVE ParInv'
    OBVIOUS
  <2>1. CASE UNCHANGED <<part, parVars>>
    BY <2>1 DEF ParInv, ReadOk, parVars
  <2>2. CASE part = "params" /\ ParNext /\ part' = part
    <3>1. CASE SetStatus
      BY <2>2, <3>1 DEF ParInv, ReadOk, SetStatus
    <3>2. CASE ReadFails
      BY <2>2, <3>2 DEF ParInv, ReadFails
    <3>3. CASE hpguppi_read_obs_params
      BY <2>2, <3>3, ReadParInv
    <3>4. CASE ReadSubint
      <4>1. PICK at : sub' = [sub EXCEPT !.size.tsubint = at.tsubint, !.offs = at.offs,
                                         !.packets_per_block = at.packets_per_block]
        BY <3>4 DEF ReadSubint
      <4>2. ReadOk /\ par_pc = "read" /\ UNCHANGED <<status, hdr, heap, par_pc>>
        BY <2>2, <3>4 DEF ReadSubint, ParInv
      <4>3. sub'.p = sub.p /\ "p" \in DOMAIN sub'
        BY <4>1, <4>2 DEF ReadOk
      <4>4. ReadOk'
        BY <4>2, <4>3 DEF ReadOk
      <4> QED BY <2>2, <4>2, <4>4 DEF ParInv
    <3>5. CASE FreeAtEnd
      <4>1. ReadOk
        BY <2>2, <3>5 DEF FreeAtEnd, ParInv
      <4>2. DOMAIN heap' = {}
        BY <3>5, <4>1, PlacesDiffer DEF FreeAtEnd, hpguppi_free_psrfits, ReadOk
      <4> QED BY <2>2, <3>5, <4>2 DEF ParInv, FreeAtEnd
    <3> QED BY <2>2, <3>1, <3>2, <3>3, <3>4, <3>5 DEF ParNext
  <2> QED BY <2>1, <2>2 DEF Next
<1>3. ParInv => ArraysFit
  BY ParInvHolds
<1> QED BY <1>1, <1>2, <1>3, PTL DEF Spec
==============================================================================

--------------------------- MODULE PoolOpsTheorems ---------------------------
(***************************************************************************)
(* What findEmpty and findLowest return, for every orderNo array, and the  *)
(* facts about natural numbers that the proofs share.                      *)
(***************************************************************************)
EXTENDS PoolOps, TLAPS, WellFoundedInduction

\* Every nonempty set of naturals has a least element.
LEMMA LeastNat ==
    ASSUME NEW S \in SUBSET Nat, S # {}
    PROVE  \E x \in S : \A y \in S : x <= y
<1>1. PICK x \in S : \A y \in S : ~(<<y, x>> \in OpToRel(<, Nat))
  BY NatLessThanWellFounded, WFMin, Zenon
<1>2. ASSUME NEW y \in S PROVE x <= y
  <2>1. <<y, x>> \notin {ss \in Nat \X Nat : ss[1] < ss[2]}
    BY <1>1 DEF OpToRel
  <2> QED BY <2>1
<1> QED BY <1>2

\* Induction, over a set of numbers: tlapm's provers cannot use the library's
\* theorem, which is about a predicate.
LEMMA NatSetInduction ==
    ASSUME NEW G \in SUBSET Nat, 0 \in G, \A n \in G : n + 1 \in G
    PROVE  G = Nat
<1> SUFFICES ASSUME G # Nat PROVE FALSE
  OBVIOUS
<1> DEFINE B == Nat \ G
<1>1. PICK m \in B : \A y \in B : m <= y
  <2>1. B \in SUBSET Nat /\ B # {}
    OBVIOUS
  <2> HIDE DEF B
  <2> QED BY <2>1, LeastNat
<1>2. m \in Nat \ {0} /\ m - 1 \in Nat
  OBVIOUS
<1>3. m - 1 \in G
  BY <1>1, <1>2
<1>4. (m - 1) + 1 = m
  BY <1>2
<1> QED BY <1>1, <1>3, <1>4

\* Remainders are unique.
LEMMA ModUnique ==
    ASSUME NEW R \in Nat \ {0}, NEW q \in Int, NEW r \in 0 .. R - 1
    PROVE  (R * q + r) % R = r
OBVIOUS

\* A number is given by quotient and remainder in one way.
LEMMA StrideUnique ==
    ASSUME NEW n \in Nat \ {0}, NEW q \in Int, NEW p \in Int, NEW r \in 0 .. n - 1,
           NEW t \in 0 .. n - 1, n * q + r = n * p + t
    PROVE  q = p /\ r = t
<1>1. r = t
  BY ModUnique
<1>2. n * q = n * p
  <2>1. PICK x \in Int, y \in Int : x = n * q /\ y = n * p
    OBVIOUS
  <2> QED BY <1>1, <2>1
<1>3. ~(q < p)
  <2> SUFFICES ASSUME q < p PROVE FALSE
    OBVIOUS
  <2>1. PICK d \in Nat \ {0} : p = q + d
    <3>1. p - q \in Nat \ {0} /\ p = q + (p - q)
      OBVIOUS
    <3> QED BY <3>1
  <2>2. n * p = n * q + n * d /\ n * d > 0 /\ n * d \in Int /\ n * q \in Int
    BY <2>1
  <2> QED BY <1>2, <2>2
<1>4. ~(p < q)
  <2> SUFFICES ASSUME p < q PROVE FALSE
    OBVIOUS
  <2>1. PICK d \in Nat \ {0} : q = p + d
    <3>1. q - p \in Nat \ {0} /\ q = p + (q - p)
      OBVIOUS
    <3> QED BY <3>1
  <2>2. n * q = n * p + n * d /\ n * d > 0 /\ n * d \in Int /\ n * p \in Int
    BY <2>1
  <2> QED BY <1>2, <2>2
<1> QED BY <1>1, <1>3, <1>4

\* A remainder below n after q whole strides is below m strides if q is.
LEMMA StrideBound ==
    ASSUME NEW n \in Nat \ {0}, NEW m \in Nat, NEW q \in 0 .. m - 1, NEW r \in 0 .. n - 1
    PROVE  n * q + r \in 0 .. m * n - 1
<1>1. PICK d \in Nat : m = q + 1 + d
  <2>1. m - (q + 1) \in Nat /\ m = q + 1 + (m - (q + 1))
    OBVIOUS
  <2> QED BY <2>1
<1>2. m * n = n * q + n + n * d /\ n * d >= 0 /\ n * q >= 0
  BY <1>1
<1>3. n * q \in Int /\ n * d \in Int /\ m * n \in Int
  OBVIOUS
<1> QED BY <1>2, <1>3

\* findEmpty (full_custom/common.c) returns a buffer of the pool marked
\* empty, or -1 when there is none.
LEMMA FindEmptyResult ==
    ASSUME NEW n \in Nat, NEW no \in [0 .. n - 1 -> Int]
    PROVE  /\ findEmpty(no) = NotFound <=> EmptyBuffers(no) = {}
           /\ findEmpty(no) # NotFound => /\ findEmpty(no) \in 0 .. n - 1
                                          /\ no[findEmpty(no)] = Empty
<1> DEFINE S == EmptyBuffers(no)
<1>1. S \subseteq 0 .. n - 1 /\ S \in SUBSET Nat
  BY DEF EmptyBuffers
<1>2. CASE S = {}
  BY <1>2 DEF findEmpty, NotFound
<1>3. CASE S # {}
  <2>1. \E b \in S : \A c \in S : b <= c
    BY <1>1, <1>3, LeastNat
  <2>2. findEmpty(no) = CHOOSE b \in S : \A c \in S : b <= c
    BY <1>3 DEF findEmpty
  <2>3. findEmpty(no) \in S
    BY <2>1, <2>2
  <2> QED BY <1>1, <1>3, <2>3 DEF EmptyBuffers, NotFound
<1> QED BY <1>2, <1>3

\* findLowest (full_custom/common.c) returns a ready buffer whose order
\* number no ready buffer undercuts, or -1 when no order number is below
\* INT_MAX.
LEMMA FindLowestResult ==
    ASSUME NEW n \in Nat, NEW no \in [0 .. n - 1 -> Int], NEW intMax \in Int
    PROVE  /\ findLowest(no, intMax) = NotFound <=> ReadyBelow(no, intMax) = {}
           /\ findLowest(no, intMax) # NotFound =>
                /\ findLowest(no, intMax) \in ReadyBelow(no, intMax)
                /\ findLowest(no, intMax) \in 0 .. n - 1
                /\ \A c \in ReadyBelow(no, intMax) : no[findLowest(no, intMax)] <= no[c]
<1> DEFINE S == ReadyBelow(no, intMax)
           Before(b, c) == no[b] < no[c] \/ (no[b] = no[c] /\ b <= c)
<1>1. S \subseteq 0 .. n - 1 /\ \A b \in S : no[b] \in Nat /\ b \in Nat
  BY DEF ReadyBelow
<1>2. CASE S = {}
  BY <1>2 DEF findLowest, NotFound
<1>3. CASE S # {}
  <2> DEFINE V == {no[b] : b \in S}
  <2>1. V \in SUBSET Nat /\ V # {}
    BY <1>1, <1>3
  <2>2. PICK b0 \in S : \A c \in S : no[b0] <= no[c]
    <3> HIDE DEF V
    <3>1. PICK v \in V : \A w \in V : v <= w
      BY <2>1, LeastNat
    <3> QED BY <3>1 DEF V
  <2> DEFINE L == {b \in S : no[b] = no[b0]}
  <2>3. \E b \in L : \A c \in L : b <= c
    BY <1>1, <2>2, LeastNat
  <2>4. PICK b1 \in L : \A c \in L : b1 <= c
    BY <2>3
  <2>5. \E b \in S : \A c \in S : Before(b, c)
    <3>1. ASSUME NEW c \in S PROVE Before(b1, c)
      BY <1>1, <2>2, <2>4
    <3> QED BY <3>1, <2>4
  <2>6. findLowest(no, intMax) = CHOOSE b \in S : \A c \in S : Before(b, c)
    BY <1>3 DEF findLowest
  <2>7. findLowest(no, intMax) \in S /\ \A c \in S : Before(findLowest(no, intMax), c)
    BY <2>5, <2>6
  <2>8. \A c \in S : no[findLowest(no, intMax)] <= no[c]
    BY <1>1, <2>7
  <2>9. findLowest(no, intMax) \in 0 .. n - 1
    BY <1>1, <2>7
  <2> QED BY <1>3, <2>7, <2>8, <2>9 DEF NotFound
<1> QED BY <1>2, <1>3

\* t lists the states of findLowest's loop after 0, 1, ... up to m turns.
IsScan(t, no, intMax, m) ==
    t = [k \in 0 .. m |-> IF k = 0 THEN [lowVal |-> intMax, retVal |-> NotFound]
                                  ELSE LowestTurn(no, k - 1, t[k - 1])]

LEMMA ScanExists ==
    ASSUME NEW no, NEW intMax, NEW n \in Nat
    PROVE  \E t : IsScan(t, no, intMax, n)
<1> DEFINE G == {m \in Nat : \E t : IsScan(t, no, intMax, m)}
           first == [lowVal |-> intMax, retVal |-> NotFound]
           e(t, k) == IF k = 0 THEN first ELSE LowestTurn(no, k - 1, t[k - 1])
<1>1. 0 \in G
  <2> DEFINE t == [k \in 0 .. 0 |-> first]
  <2>1. IsScan(t, no, intMax, 0)
    BY DEF IsScan
  <2> QED BY <2>1
<1>2. ASSUME NEW m \in G PROVE m + 1 \in G
  <2>1. PICK t : IsScan(t, no, intMax, m)
    OBVIOUS
  <2> DEFINE u == [k \in 0 .. m + 1 |-> IF k = m + 1 THEN e(t, k) ELSE t[k]]
  <2>2. ASSUME NEW k \in 0 .. m + 1 PROVE u[k] = e(u, k)
    <3>1. k # 0 => k - 1 \in 0 .. m /\ k - 1 # m + 1 /\ k - 1 \in 0 .. m + 1
      OBVIOUS
    <3>2. k # 0 => u[k - 1] = t[k - 1]
      BY <3>1
    <3>3. CASE k = m + 1
      BY <3>2, <3>3
    <3>4. CASE k # m + 1
      <4>1. k \in 0 .. m
        BY <3>4
      <4>2. t[k] = e(t, k)
        BY <2>1, <4>1 DEF IsScan
      <4> QED BY <3>2, <3>4, <4>2
    <3> QED BY <3>3, <3>4
  <2>3. u = [k \in 0 .. m + 1 |-> e(u, k)]
    <3> HIDE DEF e
    <3>1. u = [k \in 0 .. m + 1 |-> u[k]]
      OBVIOUS
    <3> HIDE DEF u
    <3> QED BY <2>2, <3>1
  <2>4. IsScan(u, no, intMax, m + 1)
    <3> HIDE DEF u
    <3> QED BY <2>3 DEF IsScan
  <2> QED BY <2>4
<1>3. G = Nat
  <2>1. G \in SUBSET Nat
    OBVIOUS
  <2> HIDE DEF G
  <2> QED BY <1>1, <1>2, <2>1, NatSetInduction
<1> QED BY <1>3

\* After k turns the loop has the first of the least order numbers among the
\* first k buffers.
Scanned(st, no, intMax, k) ==
    \/ /\ st.retVal = NotFound /\ st.lowVal = intMax
       /\ \A c \in ReadyBelow(no, intMax) : c >= k
    \/ /\ st.retVal \in ReadyBelow(no, intMax) /\ st.retVal < k
       /\ st.lowVal = no[st.retVal]
       /\ \A c \in ReadyBelow(no, intMax) :
            c < k => \/ no[st.retVal] < no[c]
                     \/ no[st.retVal] = no[c] /\ st.retVal <= c

LEMMA OneTurn ==
    ASSUME NEW n \in Nat, NEW no \in [0 .. n - 1 -> Int], NEW intMax \in Int,
           NEW k \in 0 .. n - 1, NEW st, Scanned(st, no, intMax, k)
    PROVE  Scanned(LowestTurn(no, k, st), no, intMax, k + 1)
<1> DEFINE S == ReadyBelow(no, intMax)
<1>1. \A c : c \in S <=> c \in 0 .. n - 1 /\ no[c] > 0 /\ no[c] < intMax
  BY DEF ReadyBelow
<1>2. \A c \in S : c \in Int /\ no[c] \in Int /\ (c < k + 1 <=> c < k \/ c = k)
  BY <1>1
<1>3. no[k] \in Int
  OBVIOUS
<1>4. CASE st.retVal = NotFound /\ st.lowVal = intMax /\ \A c \in S : c >= k
  <2>1. CASE no[k] < st.lowVal /\ no[k] > 0
    <3>1. LowestTurn(no, k, st) = [lowVal |-> no[k], retVal |-> k]
      BY <2>1 DEF LowestTurn
    <3>2. k \in S /\ k < k + 1
      BY <1>1, <1>4, <2>1
    <3>3. \A c \in S : c < k + 1 => no[k] = no[c] /\ k <= c
      BY <1>2, <1>4
    <3> QED BY <3>1, <3>2, <3>3 DEF Scanned
  <2>2. CASE ~(no[k] < st.lowVal /\ no[k] > 0)
    <3>1. LowestTurn(no, k, st) = st
      BY <2>2 DEF LowestTurn
    <3>2. k \notin S
      BY <1>1, <1>4, <2>2
    <3>3. \A c \in S : c >= k + 1
      BY <1>2, <1>4, <3>2
    <3> QED BY <1>4, <3>1, <3>3 DEF Scanned
  <2> QED BY <2>1, <2>2
<1>5. CASE /\ st.retVal \in S /\ st.retVal < k /\ st.lowVal = no[st.retVal]
           /\ \A c \in S : c < k => \/ no[st.retVal] < no[c]
                                    \/ no[st.retVal] = no[c] /\ st.retVal <= c
  <2>1. PICK b \in S : b = st.retVal
    BY <1>5
  <2>2. b \in Int /\ no[b] \in Int /\ b < k /\ st.lowVal = no[b] /\ no[b] < intMax
    BY <1>1, <1>2, <1>5, <2>1
  <2>3. CASE no[k] < st.lowVal /\ no[k] > 0
    <3>1. LowestTurn(no, k, st) = [lowVal |-> no[k], retVal |-> k]
      BY <2>3 DEF LowestTurn
    <3>2. k \in S /\ k < k + 1
      BY <1>1, <1>3, <2>2, <2>3
    <3>3. ASSUME NEW c \in S, c < k + 1 PROVE no[k] < no[c] \/ (no[k] = no[c] /\ k <= c)
      <4>1. CASE c < k
        <5>1. no[b] <= no[c] /\ no[k] < no[b] /\ no[c] \in Int
          <6> HIDE DEF S
          <6>1. no[b] < no[c] \/ no[b] = no[c]
            BY <1>5, <2>1, <4>1
          <6>2. no[c] \in Int /\ no[b] \in Int
            BY <1>2, <2>2
          <6>3. no[k] < no[b]
            BY <2>2, <2>3
          <6> QED BY <6>1, <6>2, <6>3
        <5> QED BY <1>3, <2>2, <5>1
      <4>2. CASE c = k
        BY <4>2
      <4> QED BY <1>2, <3>3, <4>1, <4>2
    <3> QED BY <3>1, <3>2, <3>3 DEF Scanned
  <2>4. CASE ~(no[k] < st.lowVal /\ no[k] > 0)
    <3>1. LowestTurn(no, k, st) = st
      BY <2>4 DEF LowestTurn
    <3>2. ASSUME NEW c \in S, c < k + 1 PROVE no[b] < no[c] \/ (no[b] = no[c] /\ b <= c)
      <4>1. CASE c < k
        BY <1>5, <2>1, <4>1
      <4>2. CASE c = k
        BY <1>1, <1>3, <2>2, <2>4, <4>2
      <4> QED BY <1>2, <3>2, <4>1, <4>2
    <3> QED BY <1>5, <2>1, <2>2, <3>1, <3>2 DEF Scanned
  <2> QED BY <2>3, <2>4
<1> QED BY <1>4, <1>5 DEF Scanned

\* The loop of findLowest (full_custom/common.c), which remembers the least
\* order number it met and the index it met it at, returns what the modules of
\* the threads take it to: the first ready buffer of least order number, or -1
\* when no order number is below INT_MAX.
THEOREM FindLowestLoop ==
    ASSUME NEW n \in Nat, NEW no \in [0 .. n - 1 -> Int], NEW intMax \in Int
    PROVE  findLowestLoop(no, n, intMax) = findLowest(no, intMax)
<1> DEFINE S == ReadyBelow(no, intMax)
           Before(b, c) == no[b] < no[c] \/ (no[b] = no[c] /\ b <= c)
           Scan(k, st) == IF k = 0 THEN [lowVal |-> intMax, retVal |-> NotFound]
                                   ELSE LowestTurn(no, k - 1, st[k - 1])
           st == CHOOSE st : st = [k \in 0 .. n |-> Scan(k, st)]
<1>1. findLowestLoop(no, n, intMax) = st[n].retVal
  BY DEF findLowestLoop
<1>2. IsScan(st, no, intMax, n)
  <2>1. PICK t : IsScan(t, no, intMax, n)
    BY ScanExists
  <2> QED BY <2>1 DEF IsScan
<1> HIDE DEF st
<1>3. /\ st[0] = [lowVal |-> intMax, retVal |-> NotFound]
      /\ \A k \in 1 .. n : st[k] = LowestTurn(no, k - 1, st[k - 1])
  BY <1>2 DEF IsScan
<1>4. \A c \in S : c \in Nat /\ c < n /\ no[c] \in Int
  BY DEF ReadyBelow
<1> DEFINE G == {k \in Nat : k <= n => Scanned(st[k], no, intMax, k)}
<1>5. 0 \in G
  BY <1>3, <1>4 DEF Scanned
<1>6. ASSUME NEW k \in G PROVE k + 1 \in G
  <2> SUFFICES ASSUME k + 1 <= n PROVE Scanned(st[k + 1], no, intMax, k + 1)
    OBVIOUS
  <2>1. k \in 0 .. n - 1 /\ k + 1 \in 1 .. n /\ (k + 1) - 1 = k /\ Scanned(st[k], no, intMax, k)
    OBVIOUS
  <2>2. st[k + 1] = LowestTurn(no, k, st[k])
    BY <1>3, <2>1
  <2> QED BY <2>1, <2>2, OneTurn
<1>7. Scanned(st[n], no, intMax, n)
  <2>1. G = Nat
    <3>1. G \in SUBSET Nat
      OBVIOUS
    <3> HIDE DEF G
    <3> QED BY <1>5, <1>6, <3>1, NatSetInduction
  <2> QED BY <2>1
<1>8. CASE S = {}
  BY <1>1, <1>7, <1>8 DEF Scanned, findLowest
<1>9. CASE S # {}
  <2>1. PICK b \in S : b = st[n].retVal /\ \A c \in S : Before(b, c)
    BY <1>4, <1>7, <1>9 DEF Scanned
  <2>2. findLowest(no, intMax) = CHOOSE x \in S : \A c \in S : Before(x, c)
    BY <1>9 DEF findLowest
  <2>3. PICK x \in S : x = findLowest(no, intMax) /\ \A c \in S : Before(x, c)
    BY <2>1, <2>2
  <2>4. x = b
    <3>1. Before(b, x) /\ Before(x, b)
      BY <2>1, <2>3
    <3>2. b \in Nat /\ x \in Nat /\ no[b] \in Int /\ no[x] \in Int
      BY <1>4, <2>1, <2>3
    <3> QED BY <3>1, <3>2
  <2> QED BY <1>1, <2>1, <2>3, <2>4
<1> QED BY <1>8, <1>9
==============================================================================

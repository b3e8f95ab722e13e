---------------------------- MODULE RawspecProofs ----------------------------
(***************************************************************************)
(* The files of hpguppi_rawspec.c, for any number of products, any buffer  *)
(* size and any pattern of short writes and failures: RawInv is inductive  *)
(* and implies DumpsIntact.                                                *)
(***************************************************************************)
EXTENDS Rawspec, FiniteSetTheorems, FunctionTheorems, TLAPS

------------------------------------------------------------------------------
\* What a file looks like

FileCells == [dump : 1 .. MaxDumps, unit : Units]

Before(c, d) == c.dump < d.dump \/ (c.dump = d.dump /\ c.unit < d.unit)

Ordered(f) == \A k, m \in 1 .. Len(f) : k < m => Before(f[k], f[m])

NoGaps(f) ==
    \A k \in 1 .. Len(f) :
      f[k].unit = 0 \/ (k > 1 /\ f[k - 1].dump = f[k].dump /\ f[k - 1].unit = f[k].unit - 1)

\* Nothing is in the file after the first w units of dump d ...
UpTo(f, d, w) ==
    \A k \in 1 .. Len(f) : f[k].dump < d \/ (f[k].dump = d /\ f[k].unit < w)

\* ... and those units are.
Holds(f, d, w) ==
    \A u \in 0 .. w - 1 : \E k \in 1 .. Len(f) : f[k] = [dump |-> d, unit |-> u]

EndsWith(f, d, w) == w > 0 => Len(f) > 0 /\ f[Len(f)] = [dump |-> d, unit |-> w - 1]

------------------------------------------------------------------------------
\* The inductive invariant

TypeOK ==
    /\ gpu \in [Products -> {"idle", "pre", "copy", "post"}]
    /\ dump \in [Products -> 0 .. MaxDumps]
    /\ h_pwrbuf \in [Products -> [Units -> 0 .. MaxDumps]]
    /\ nCopied \in [Products -> Units]
    /\ output_thread_valid \in [Products -> BOOLEAN]
    /\ thread \in [Products -> {"none", "running", "ended"}]
    /\ bytes_remaining \in [Products -> 0 .. h_pwrbuf_size]
    /\ fd \in [Products -> {"open", "closed"}]
    /\ file \in [Products -> Seq(FileCells)]
    /\ stop \in -1 .. No + 1
    /\ broken \in [Products -> SUBSET Nat]
    /\ nFaults \in Nat

\* The last dump that is complete in the host buffer.
Newest(i) == IF gpu[i] = "idle" THEN dump[i] ELSE dump[i] - 1

\* Between the callbacks, the buffer holds one dump; while it is copied there
\* is no thread.
BufferInv(i) ==
    /\ gpu[i] # "idle" => dump[i] > 0
    /\ gpu[i] \in {"idle", "pre"} => h_pwrbuf[i] = [u \in Units |-> Newest(i)]
    /\ gpu[i] = "copy" => \A u \in Units : u < nCopied[i] => h_pwrbuf[i][u] = dump[i]
    /\ gpu[i] = "post" => h_pwrbuf[i] = [u \in Units |-> dump[i]]
    /\ gpu[i] # "copy" => nCopied[i] = 0
    /\ gpu[i] \in {"copy", "post"} => thread[i] # "running"
    /\ thread[i] = "running" => /\ output_thread_valid[i] /\ Newest(i) > 0
                                /\ bytes_remaining[i] > 0

Taken(i) == h_pwrbuf_size - bytes_remaining[i]

FileInv(i) ==
    /\ Ordered(file[i]) /\ NoGaps(file[i])
    /\ thread[i] = "running" => /\ UpTo(file[i], Newest(i), Taken(i))
                                /\ Holds(file[i], Newest(i), Taken(i))
                                /\ EndsWith(file[i], Newest(i), Taken(i))
    /\ thread[i] # "running" => UpTo(file[i], Newest(i), h_pwrbuf_size)
    /\ \A d \in (1 .. Newest(i)) \ broken[i] :
         (thread[i] = "running" /\ d = Newest(i)) \/ Holds(file[i], d, h_pwrbuf_size)

\* rawspec_stop has joined and closed the products before the one it is at.
StopInv ==
    /\ stop >= 1 => \A i \in Products : gpu[i] = "idle"
    /\ \A i \in Products : thread[i] = "running" => stop <= i
    /\ \A i \in Products : stop <= i => fd[i] = "open"

RawInv == TypeOK /\ StopInv /\ \A i \in Products : BufferInv(i) /\ FileInv(i)

------------------------------------------------------------------------------
\* Files

LEMMA ConcatRun ==
    ASSUME NEW S, NEW f \in Seq(S), NEW n \in Nat, NEW s \in [1 .. n -> S]
    PROVE  /\ f \o s \in Seq(S) /\ Len(f \o s) = Len(f) + n
           /\ \A k \in 1 .. Len(f) : (f \o s)[k] = f[k]
           /\ \A k \in Len(f) + 1 .. Len(f) + n : (f \o s)[k] = s[k - Len(f)]
<1>1. s \in Seq(S) /\ Len(s) = n
  OBVIOUS
<1> QED BY <1>1

\* Writing the next n units of dump d to a file that ends with its first w.
LEMMA FileExtended ==
    ASSUME NEW f \in Seq(FileCells), NEW d \in 1 .. MaxDumps, NEW w \in Nat, NEW n \in Nat,
           n > 0, w + n <= h_pwrbuf_size,
           Ordered(f), NoGaps(f), UpTo(f, d, w), EndsWith(f, d, w), Holds(f, d, w)
    PROVE  LET g == f \o [k \in 1 .. n |-> [dump |-> d, unit |-> w + k - 1]]
           IN  /\ g \in Seq(FileCells) /\ Ordered(g) /\ NoGaps(g)
               /\ UpTo(g, d, w + n) /\ EndsWith(g, d, w + n) /\ Holds(g, d, w + n)
               /\ \A e \in Nat : Holds(f, e, h_pwrbuf_size) => Holds(g, e, h_pwrbuf_size)
<1> DEFINE s == [k \in 1 .. n |-> [dump |-> d, unit |-> w + k - 1]]
           g == f \o s
           L == Len(f)
<1>1. L \in Nat /\ h_pwrbuf_size \in Nat \ {0}
  BY RawAssumption
<1>2. s \in [1 .. n -> FileCells]
  <2>1. ASSUME NEW k \in 1 .. n PROVE w + k - 1 \in Units
    BY RawAssumption DEF Units
  <2> QED BY <2>1 DEF FileCells
<1>3. /\ g \in Seq(FileCells) /\ Len(g) = L + n
      /\ \A k \in 1 .. L : g[k] = f[k]
      /\ \A k \in L + 1 .. L + n : g[k] = s[k - L]
  <2> HIDE DEF s
  <2> QED BY <1>2, ConcatRun
<1>4. ASSUME NEW k \in L + 1 .. L + n
      PROVE  /\ g[k] = [dump |-> d, unit |-> w + (k - L) - 1]
             /\ g[k].dump = d /\ g[k].unit = w + (k - L) - 1
  <2>1. k - L \in 1 .. n
    BY <1>1
  <2> QED BY <1>3, <2>1
<1>5. \A k \in 1 .. L : f[k] \in FileCells
  OBVIOUS
<1>6. ASSUME NEW k \in 1 .. L PROVE f[k].dump \in Nat /\ f[k].unit \in Nat
  <2>1. f[k] \in FileCells
    BY <1>5
  <2> QED BY <2>1, RawAssumption DEF FileCells, Units
<1> HIDE DEF g, s
<1>7. ASSUME NEW k \in 1 .. Len(g) PROVE k \in 1 .. L \/ k \in L + 1 .. L + n
  BY <1>1, <1>3
<1>10. Ordered(g)
  <2> SUFFICES ASSUME NEW k \in 1 .. Len(g), NEW m \in 1 .. Len(g), k < m
               PROVE  Before(g[k], g[m])
    BY DEF Ordered
  <2>1. CASE m \in 1 .. L
    <3>1. k \in 1 .. L
      BY <1>1, <1>3, <2>1
    <3> QED BY <1>3, <2>1, <3>1 DEF Ordered
  <2>2. CASE m \in L + 1 .. L + n /\ k \in 1 .. L
    <3>1. f[k].dump < d \/ (f[k].dump = d /\ f[k].unit < w)
      BY <2>2 DEF UpTo
    <3>2. g[m].dump = d /\ g[m].unit = w + (m - L) - 1 /\ m - L >= 1 /\ g[k] = f[k]
      <4>1. g[m].dump = d /\ g[m].unit = w + (m - L) - 1
        BY <1>4, <2>2
      <4> QED BY <1>1, <1>3, <2>2, <4>1
    <3> QED BY <1>1, <1>6, <2>2, <3>1, <3>2 DEF Before
  <2>3. CASE m \in L + 1 .. L + n /\ k \in L + 1 .. L + n
    <3>1. /\ g[m].dump = d /\ g[m].unit = w + (m - L) - 1
          /\ g[k].dump = d /\ g[k].unit = w + (k - L) - 1
      BY <1>4, <2>3
    <3> QED BY <1>1, <3>1 DEF Before
  <2> QED BY <1>7, <2>1, <2>2, <2>3
<1>11. NoGaps(g)
  <2> SUFFICES ASSUME NEW k \in 1 .. Len(g)
               PROVE  \/ g[k].unit = 0
                      \/ k > 1 /\ g[k - 1].dump = g[k].dump /\ g[k - 1].unit = g[k].unit - 1
    BY DEF NoGaps
  <2>1. CASE k \in 1 .. L
    <3>1. k > 1 => k - 1 \in 1 .. L
      BY <1>1, <2>1
    <3> QED BY <1>3, <2>1, <3>1 DEF NoGaps
  <2>2. CASE k = L + 1
    <3>1. g[k].dump = d /\ g[k].unit = w
      <4>1. k \in L + 1 .. L + n /\ w + (k - L) - 1 = w
        BY <1>1, <2>2
      <4> QED BY <1>4, <4>1
    <3>2. CASE w > 0
      <4>1. L > 0 /\ f[L].dump = d /\ f[L].unit = w - 1
        BY <3>2 DEF EndsWith
      <4>2. k - 1 = L /\ g[L] = f[L] /\ k > 1
        BY <1>1, <1>3, <2>2, <4>1
      <4> QED BY <3>1, <4>1, <4>2
    <3> QED BY <3>1, <3>2
  <2>3. CASE k \in L + 2 .. L + n
    <3>1. k - 1 \in L + 1 .. L + n /\ k \in L + 1 .. L + n /\ k > 1
      BY <1>1, <2>3
    <3>2. /\ g[k].dump = d /\ g[k].unit = w + (k - L) - 1
          /\ g[k - 1].dump = d /\ g[k - 1].unit = w + ((k - 1) - L) - 1
      BY <1>4, <3>1
    <3> QED BY <1>1, <3>1, <3>2
  <2> QED BY <1>1, <1>7, <2>1, <2>2, <2>3
<1>12. UpTo(g, d, w + n)
  <2> SUFFICES ASSUME NEW k \in 1 .. Len(g)
               PROVE  g[k].dump < d \/ (g[k].dump = d /\ g[k].unit < w + n)
    BY DEF UpTo
  <2>1. CASE k \in 1 .. L
    BY <1>3, <1>6, <2>1 DEF UpTo
  <2>2. CASE k \in L + 1 .. L + n
    <3>1. g[k].dump = d /\ g[k].unit = w + (k - L) - 1
      BY <1>4, <2>2
    <3> QED BY <1>1, <2>2, <3>1
  <2> QED BY <1>7, <2>1, <2>2
<1>13. EndsWith(g, d, w + n)
  <2>1. L + n \in L + 1 .. L + n /\ w + ((L + n) - L) - 1 = (w + n) - 1 /\ L + n > 0
    BY <1>1
  <2>2. g[L + n] = [dump |-> d, unit |-> w + ((L + n) - L) - 1]
    BY <1>4, <2>1
  <2> QED BY <1>3, <2>1, <2>2 DEF EndsWith
<1>14. ASSUME NEW e, NEW u, \E k \in 1 .. L : f[k] = [dump |-> e, unit |-> u]
       PROVE  \E k \in 1 .. Len(g) : g[k] = [dump |-> e, unit |-> u]
  <2>1. PICK k \in 1 .. L : f[k] = [dump |-> e, unit |-> u]
    BY <1>14
  <2>2. k \in 1 .. Len(g)
    BY <1>1, <1>3
  <2> QED BY <1>3, <2>1, <2>2
<1>15. Holds(g, d, w + n)
  <2> SUFFICES ASSUME NEW u \in 0 .. (w + n) - 1
               PROVE  \E k \in 1 .. Len(g) : g[k] = [dump |-> d, unit |-> u]
    BY DEF Holds
  <2>1. CASE u < w
    <3>1. u \in 0 .. w - 1
      BY <2>1
    <3> QED BY <1>14, <3>1 DEF Holds
  <2>2. CASE u >= w
    <3>1. /\ L + (u - w) + 1 \in L + 1 .. L + n /\ L + (u - w) + 1 \in 1 .. Len(g)
          /\ w + ((L + (u - w) + 1) - L) - 1 = u
      BY <1>1, <1>3, <2>2
    <3>2. g[L + (u - w) + 1] = [dump |-> d, unit |-> u]
      BY <1>4, <3>1
    <3> QED BY <3>1, <3>2
  <2> QED BY <2>1, <2>2
<1>16. \A e \in Nat : Holds(f, e, h_pwrbuf_size) => Holds(g, e, h_pwrbuf_size)
  BY <1>14 DEF Holds
<1> QED BY <1>3, <1>10, <1>11, <1>12, <1>13, <1>15, <1>16 DEF g, s

\* A dump that is whole in an ordered file is there once.
LEMMA WholeDump ==
    ASSUME NEW f \in Seq(FileCells), NEW d \in Nat, Ordered(f), Holds(f, d, h_pwrbuf_size)
    PROVE  Cardinality({k \in DOMAIN f : f[k].dump = d}) = h_pwrbuf_size
<1> DEFINE W == {k \in DOMAIN f : f[k].dump = d}
           g == [k \in W |-> f[k].unit]
<1>1. DOMAIN f = 1 .. Len(f) /\ Len(f) \in Nat
  OBVIOUS
<1>2. \A k \in DOMAIN f : f[k] \in FileCells
  BY <1>1
<1>3. g \in [W -> Units]
  BY <1>2 DEF FileCells
<1>4. ASSUME NEW k \in W, NEW m \in W, g[k] = g[m]
      PROVE  k = m
  <2>1. f[k].dump = f[m].dump /\ f[k].unit = f[m].unit /\ k \in 1 .. Len(f)
        /\ m \in 1 .. Len(f)
    BY <1>1, <1>4
  <2>2. f[k].unit \in Int /\ f[k].dump \in Int
    <3>1. f[k] \in FileCells
      BY <1>2
    <3> QED BY <3>1, RawAssumption DEF FileCells, Units
  <2>3. ~Before(f[k], f[m]) /\ ~Before(f[m], f[k])
    BY <2>1, <2>2 DEF Before
  <2>4. ~(k < m) /\ ~(m < k)
    BY <2>1, <2>3 DEF Ordered
  <2> QED BY <2>1, <2>4
<1>5. ASSUME NEW u \in Units PROVE \E k \in W : g[k] = u
  <2>1. u \in 0 .. h_pwrbuf_size - 1
    BY DEF Units
  <2>2. PICK k \in 1 .. Len(f) : f[k] = [dump |-> d, unit |-> u]
    BY <2>1 DEF Holds
  <2> QED BY <1>1, <2>2
<1>6. g \in Bijection(W, Units)
  <2> HIDE DEF g, W
  <2> QED BY <1>3, <1>4, <1>5 DEF Bijection, Injection, Surjection, IsInjective
<1>7. ExistsBijection(Units, W)
  <2>1. ExistsBijection(W, Units)
    BY <1>6 DEF ExistsBijection
  <2> HIDE DEF g, W
  <2> QED BY <2>1, Fun_ExistsBijSymmetric
<1>8. IsFiniteSet(Units) /\ Cardinality(Units) = h_pwrbuf_size
  <2>1. h_pwrbuf_size - 1 \in Int /\ ~(0 > h_pwrbuf_size - 1)
        /\ h_pwrbuf_size - 1 - 0 + 1 = h_pwrbuf_size
    BY RawAssumption
  <2> QED BY <2>1, FS_Interval DEF Units
<1> QED BY <1>7, <1>8, FS_Bijection

\* What the invariant says of the files.
LEMMA InvImpliesIntact == RawInv => DumpsIntact
<1> SUFFICES ASSUME RawInv, NEW i \in Products
             PROVE  LET cells == {[dump |-> d, unit |-> u] : d \in 1 .. MaxDumps, u \in Units}
                        Written(d) == {k \in DOMAIN file[i] : file[i][k].dump = d}
                    IN  /\ \A k \in DOMAIN file[i] :
                             /\ file[i][k] \in cells
                             /\ file[i][k].unit = 0 \/ /\ k > 1
                                                       /\ file[i][k - 1].dump = file[i][k].dump
                                                       /\ file[i][k - 1].unit = file[i][k].unit - 1
                             /\ k > 1 => \/ file[i][k - 1].dump < file[i][k].dump
                                         \/ /\ file[i][k - 1].dump = file[i][k].dump
                                            /\ file[i][k].unit > 0
                        /\ \A d \in (1 .. dump[i]) \ broken[i] :
                             d < dump[i] \/ gpu[i] = "idle" =>
                               \/ Cardinality(Written(d)) = h_pwrbuf_size
                               \/ thread[i] = "running" /\ h_pwrbuf[i] = [u \in Units |-> d]
                        /\ thread[i] = "running" => fd[i] = "open"
  BY DEF DumpsIntact
<1> DEFINE cells == {[dump |-> d, unit |-> u] : d \in 1 .. MaxDumps, u \in Units}
           Written(d) == {k \in DOMAIN file[i] : file[i][k].dump = d}
<1>0. TypeOK /\ StopInv /\ BufferInv(i) /\ FileInv(i)
  BY DEF RawInv
<1>1. PICK f \in Seq(FileCells) : f = file[i]
  BY <1>0 DEF TypeOK
<1>2. Ordered(f) /\ NoGaps(f)
  BY <1>0, <1>1 DEF FileInv
<1>3. DOMAIN f = 1 .. Len(f) /\ Len(f) \in Nat /\ \A k \in 1 .. Len(f) : f[k] \in FileCells
  OBVIOUS
<1>4. ASSUME NEW k \in DOMAIN f
      PROVE  /\ f[k] \in cells
             /\ f[k].unit = 0 \/ (k > 1 /\ f[k - 1].dump = f[k].dump
                                  /\ f[k - 1].unit = f[k].unit - 1)
             /\ k > 1 => \/ f[k - 1].dump < f[k].dump
                         \/ f[k - 1].dump = f[k].dump /\ f[k].unit > 0
  <2>1. f[k] \in FileCells /\ k \in 1 .. Len(f)
    BY <1>3
  <2>2. f[k] \in cells
    BY <2>1 DEF FileCells
  <2>3. ASSUME k > 1
        PROVE  \/ f[k - 1].dump < f[k].dump
               \/ f[k - 1].dump = f[k].dump /\ f[k].unit > 0
    <3>1. k - 1 \in 1 .. Len(f) /\ k - 1 < k
      BY <1>3, <2>1, <2>3
    <3>2. Before(f[k - 1], f[k])
      BY <1>2, <2>1, <3>1 DEF Ordered
    <3>3. f[k - 1].unit \in Nat /\ f[k].unit \in Nat
      <4>1. f[k - 1] \in FileCells
        BY <1>3, <3>1
      <4> QED BY <2>1, <4>1, RawAssumption DEF FileCells, Units
    <3> QED BY <3>2, <3>3 DEF Before
  <2> QED BY <1>2, <2>1, <2>2, <2>3 DEF NoGaps
<1>5. ASSUME NEW d \in (1 .. dump[i]) \ broken[i], d < dump[i] \/ gpu[i] = "idle"
      PROVE  \/ Cardinality(Written(d)) = h_pwrbuf_size
             \/ thread[i] = "running" /\ h_pwrbuf[i] = [u \in Units |-> d]
  <2>1. dump[i] \in Nat
    BY <1>0, RawAssumption DEF TypeOK
  <2>2. d \in (1 .. Newest(i)) \ broken[i] /\ d \in Nat
    BY <1>5, <2>1 DEF Newest
  <2>3. CASE thread[i] = "running" /\ d = Newest(i)
    <3>1. gpu[i] \in {"idle", "pre"}
      BY <1>0, <2>3 DEF BufferInv, TypeOK
    <3> QED BY <1>0, <2>3, <3>1 DEF BufferInv
  <2>4. CASE Holds(file[i], d, h_pwrbuf_size)
    BY <1>1, <1>2, <2>2, <2>4, WholeDump
  <2> QED BY <1>0, <2>2, <2>3, <2>4 DEF FileInv
<1>6. thread[i] = "running" => fd[i] = "open"
  BY <1>0 DEF StopInv
<1> QED BY <1>1, <1>4, <1>5, <1>6

------------------------------------------------------------------------------
\* The steps

SameProduct(i) ==
    /\ gpu'[i] = gpu[i] /\ dump'[i] = dump[i] /\ h_pwrbuf'[i] = h_pwrbuf[i]
    /\ nCopied'[i] = nCopied[i] /\ output_thread_valid'[i] = output_thread_valid[i]
    /\ thread'[i] = thread[i] /\ bytes_remaining'[i] = bytes_remaining[i]
    /\ file'[i] = file[i] /\ broken'[i] = broken[i]

\* A product that a step leaves alone.
LEMMA OtherProduct ==
    ASSUME NEW i \in Products, BufferInv(i), FileInv(i), SameProduct(i)
    PROVE  BufferInv(i)' /\ FileInv(i)'
<1>1. Newest(i)' = Newest(i) /\ Taken(i)' = Taken(i)
  BY DEF Newest, Taken, SameProduct
<1>2. BufferInv(i)'
  BY <1>1 DEF BufferInv, SameProduct
<1>3. FileInv(i)'
  BY <1>1 DEF FileInv, SameProduct
<1> QED BY <1>2, <1>3

LEMMA DumpInitInv == DumpInit => RawInv
<1> SUFFICES ASSUME DumpInit PROVE RawInv
  OBVIOUS
<1>0. 0 \in Units /\ 0 \in 0 .. MaxDumps /\ 0 \in 0 .. h_pwrbuf_size /\ NotCalled \in -1 .. No + 1
  BY RawAssumption DEF Units, NotCalled
<1>1. TypeOK
  BY <1>0 DEF DumpInit, TypeOK
<1>2. StopInv
  BY RawAssumption DEF DumpInit, StopInv, NotCalled, Products
<1>3. ASSUME NEW i \in Products PROVE BufferInv(i) /\ FileInv(i)
  <2>1. BufferInv(i)
    BY <1>3 DEF DumpInit, BufferInv, Newest
  <2>2. file[i] = <<>> /\ thread[i] = "none" /\ Newest(i) = 0
    BY DEF DumpInit, Newest
  <2>3. FileInv(i)
    BY <2>2 DEF FileInv, Ordered, NoGaps, UpTo
  <2> QED BY <2>1, <2>3
<1> QED BY <1>1, <1>2, <1>3 DEF RawInv

LEMMA StartDumpStep ==
    ASSUME RawInv, NEW j \in Products, StartDump(j)
    PROVE  RawInv'
<1> USE DEF threadVars
<1>0. TypeOK /\ StopInv /\ \A i \in Products : BufferInv(i) /\ FileInv(i)
  BY DEF RawInv
<1>1. dump[j] + 1 \in 1 .. MaxDumps /\ dump[j] \in Nat
  BY <1>0, RawAssumption DEF TypeOK, StartDump
<1>2. TypeOK'
  BY <1>0, <1>1 DEF TypeOK, StartDump
<1>3. StopInv'
  BY <1>0 DEF TypeOK, StartDump, StopInv, NotCalled
<1>4. ASSUME NEW i \in Products, i # j PROVE BufferInv(i)' /\ FileInv(i)'
  <2>1. SameProduct(i)
    BY <1>0, <1>4 DEF TypeOK, StartDump, SameProduct
  <2> QED BY <1>0, <2>1, OtherProduct
<1>5. /\ gpu[j] = "idle" /\ gpu'[j] = "pre" /\ dump'[j] = dump[j] + 1
      /\ UNCHANGED <<h_pwrbuf, nCopied, output_thread_valid, thread, bytes_remaining, file,
                     broken>>
  BY <1>0 DEF StartDump, TypeOK
<1>6. Newest(j)' = Newest(j) /\ Taken(j)' = Taken(j)
  BY <1>1, <1>5 DEF Newest, Taken
<1>7. BufferInv(j)'
  <2>1. dump'[j] > 0
    BY <1>1, <1>5
  <2>2. h_pwrbuf[j] = [u \in Units |-> Newest(j)] /\ nCopied[j] = 0
    BY <1>0, <1>5 DEF BufferInv
  <2>3. thread[j] = "running" => /\ output_thread_valid[j] /\ Newest(j) > 0
                                 /\ bytes_remaining[j] > 0
    BY <1>0 DEF BufferInv
  <2> QED BY <1>5, <1>6, <2>1, <2>2, <2>3 DEF BufferInv
<1>8. FileInv(j)'
  BY <1>0, <1>5, <1>6 DEF FileInv
<1> QED BY <1>2, <1>3, <1>4, <1>7, <1>8 DEF RawInv

LEMMA CopyUnitStep ==
    ASSUME RawInv, NEW j \in Products, CopyUnit(j)
    PROVE  RawInv'
<1> USE DEF threadVars
<1>0. TypeOK /\ StopInv /\ \A i \in Products : BufferInv(i) /\ FileInv(i)
  BY DEF RawInv
<1>1. PICK n \in Units, d \in 0 .. MaxDumps : n = nCopied[j] /\ d = dump[j]
  BY <1>0 DEF TypeOK
<1>2. /\ gpu[j] = "copy" /\ h_pwrbuf' = [h_pwrbuf EXCEPT ![j][n] = d]
      /\ nCopied' = [nCopied EXCEPT ![j] = (n + 1) % h_pwrbuf_size]
      /\ gpu' = [gpu EXCEPT ![j] = IF n + 1 = h_pwrbuf_size THEN "post" ELSE "copy"]
      /\ UNCHANGED <<dump, threadVars, fd, file, stop, broken, nFaults>>
  BY <1>1 DEF CopyUnit
<1>3. /\ (n + 1) % h_pwrbuf_size = IF n + 1 = h_pwrbuf_size THEN 0 ELSE n + 1
      /\ (n + 1) % h_pwrbuf_size \in Units
  BY RawAssumption DEF Units
<1>4. TypeOK'
  BY <1>0, <1>2, <1>3 DEF TypeOK
<1>5. StopInv'
  <2>1. ~(stop >= 1)
    BY <1>0, <1>2 DEF StopInv
  <2> QED BY <1>0, <1>2, <2>1 DEF StopInv
<1>6. ASSUME NEW i \in Products, i # j PROVE BufferInv(i)' /\ FileInv(i)'
  <2>1. SameProduct(i)
    BY <1>0, <1>2, <1>6 DEF TypeOK, SameProduct
  <2> QED BY <1>0, <2>1, OtherProduct
<1>7. /\ gpu'[j] = (IF n + 1 = h_pwrbuf_size THEN "post" ELSE "copy")
      /\ nCopied'[j] = IF n + 1 = h_pwrbuf_size THEN 0 ELSE n + 1
      /\ h_pwrbuf'[j] \in [Units -> 0 .. MaxDumps]
      /\ \A u \in Units : h_pwrbuf'[j][u] = IF u = n THEN d ELSE h_pwrbuf[j][u]
  BY <1>0, <1>2, <1>3 DEF TypeOK
<1>8. \A u \in Units : u <= n => h_pwrbuf'[j][u] = d
  <2>1. \A u \in Units : u < n => h_pwrbuf[j][u] = d
    BY <1>0, <1>1, <1>2 DEF BufferInv
  <2>2. \A u \in Units : u <= n => u = n \/ u < n
    BY RawAssumption DEF Units
  <2> QED BY <1>7, <2>1, <2>2
<1>9. Newest(j)' = Newest(j) /\ Taken(j)' = Taken(j) /\ thread[j] # "running"
  BY <1>0, <1>2, <1>7 DEF Newest, Taken, BufferInv
<1>10. BufferInv(j)'
  <2>1. dump[j] > 0
    BY <1>0, <1>2 DEF BufferInv
  <2>2. CASE n + 1 = h_pwrbuf_size
    <3>1. \A u \in Units : h_pwrbuf'[j][u] = d
      <4>1. \A u \in Units : u <= n
        BY <2>2, RawAssumption DEF Units
      <4> QED BY <1>8, <4>1
    <3>2. h_pwrbuf'[j] = [u \in Units |-> d]
      BY <1>7, <3>1
    <3> QED BY <1>1, <1>2, <1>7, <1>9, <2>1, <2>2, <3>2 DEF BufferInv
  <2>3. CASE n + 1 # h_pwrbuf_size
    <3>1. \A u \in Units : u < n + 1 => h_pwrbuf'[j][u] = d
      <4>1. \A u \in Units : u < n + 1 => u <= n
        BY RawAssumption DEF Units
      <4> QED BY <1>8, <4>1
    <3> QED BY <1>1, <1>2, <1>7, <1>9, <2>1, <2>3, <3>1 DEF BufferInv
  <2> QED BY <2>2, <2>3
<1>11. FileInv(j)'
  BY <1>0, <1>2, <1>9 DEF FileInv
<1> QED BY <1>4, <1>5, <1>6, <1>10, <1>11 DEF RawInv

LEMMA PreDumpStep ==
    ASSUME RawInv, NEW j \in Products, PreDump(j)
    PROVE  RawInv'
<1>0. TypeOK /\ StopInv /\ \A i \in Products : BufferInv(i) /\ FileInv(i)
  BY DEF RawInv
<1>1. TypeOK'
  BY <1>0 DEF TypeOK, PreDump
<1>2. StopInv'
  <2>1. ~(stop >= 1)
    BY <1>0 DEF StopInv, PreDump
  <2> QED BY <1>0, <2>1 DEF StopInv, PreDump
<1>3. ASSUME NEW i \in Products, i # j PROVE BufferInv(i)' /\ FileInv(i)'
  <2>1. SameProduct(i)
    BY <1>0, <1>3 DEF TypeOK, PreDump, SameProduct
  <2> QED BY <1>0, <2>1, OtherProduct
<1>4. thread[j] # "running"
  BY <1>0 DEF PreDump, MayJoin, BufferInv
<1>5. /\ gpu[j] = "pre" /\ gpu'[j] = "copy" /\ nCopied[j] = 0
      /\ UNCHANGED <<dump, h_pwrbuf, nCopied, thread, bytes_remaining, file, broken>>
  BY <1>0 DEF PreDump, TypeOK, BufferInv
<1>6. Newest(j)' = Newest(j) /\ Taken(j)' = Taken(j)
  BY <1>5 DEF Newest, Taken
<1>7. BufferInv(j)'
  <2>1. \A u \in Units : ~(u < 0)
    BY RawAssumption DEF Units
  <2> QED BY <1>0, <1>4, <1>5, <2>1 DEF BufferInv
<1>8. FileInv(j)'
  BY <1>0, <1>4, <1>5, <1>6 DEF FileInv
<1> QED BY <1>1, <1>2, <1>3, <1>7, <1>8 DEF RawInv

LEMMA PostDumpStep ==
    ASSUME RawInv, NEW j \in Products, PostDump(j)
    PROVE  RawInv'
<1> USE DEF threadVars
<1>0. TypeOK /\ StopInv /\ \A i \in Products : BufferInv(i) /\ FileInv(i)
  BY DEF RawInv
<1>1. /\ gpu[j] = "post" /\ gpu' = [gpu EXCEPT ![j] = "idle"] /\ gpu'[j] = "idle"
      /\ UNCHANGED <<dump, h_pwrbuf, nCopied, fd, file, stop>>
  BY <1>0 DEF PostDump, TypeOK
<1>2. PICK d \in 1 .. MaxDumps : d = dump[j]
  <2>1. dump[j] \in 0 .. MaxDumps
    BY <1>0 DEF TypeOK
  <2>2. dump[j] > 0
    BY <1>0, <1>1 DEF BufferInv
  <2> QED BY <2>1, <2>2, RawAssumption
<1>3. Newest(j) = d - 1 /\ Newest(j)' = d /\ d \in Nat
  BY <1>1, <1>2, RawAssumption DEF Newest
<1>4. /\ h_pwrbuf[j] = [u \in Units |-> d] /\ nCopied[j] = 0 /\ thread[j] # "running"
  BY <1>0, <1>1, <1>2 DEF BufferInv
<1>5. ~(stop >= 1)
  BY <1>0, <1>1 DEF StopInv
<1>6. Ordered(file[j]) /\ NoGaps(file[j]) /\ UpTo(file[j], d - 1, h_pwrbuf_size)
      /\ \A e \in (1 .. d - 1) \ broken[j] : Holds(file[j], e, h_pwrbuf_size)
  BY <1>0, <1>3, <1>4 DEF FileInv
<1>7. UpTo(file[j], d, 0)
  <2>1. PICK f \in Seq(FileCells) : f = file[j]
    BY <1>0 DEF TypeOK
  <2>2. ASSUME NEW k \in 1 .. Len(f) PROVE f[k].dump < d
    <3>1. f[k] \in FileCells
      OBVIOUS
    <3>2. f[k].dump \in Nat /\ f[k].dump <= d - 1
      <4>1. f[k].dump \in Nat
        BY <3>1, RawAssumption DEF FileCells
      <4>2. f[k].dump < d - 1 \/ f[k].dump = d - 1
        BY <1>6, <2>1 DEF UpTo
      <4> QED BY <1>3, <4>1, <4>2
    <3> QED BY <1>3, <3>2
  <2> QED BY <2>1, <2>2 DEF UpTo
<1>8. CASE /\ thread' = [thread EXCEPT ![j] = "running"]
           /\ bytes_remaining' = [bytes_remaining EXCEPT ![j] = h_pwrbuf_size]
           /\ output_thread_valid' = [output_thread_valid EXCEPT ![j] = TRUE]
           /\ UNCHANGED <<broken, nFaults>>
  <2>1. TypeOK'
    BY <1>0, <1>1, <1>8, RawAssumption DEF TypeOK
  <2>2. StopInv'
    BY <1>0, <1>1, <1>5, <1>8 DEF StopInv, TypeOK, Products
  <2>3. ASSUME NEW i \in Products, i # j PROVE BufferInv(i)' /\ FileInv(i)'
    <3>1. SameProduct(i)
      BY <1>0, <1>1, <1>8, <2>3 DEF TypeOK, SameProduct
    <3> QED BY <1>0, <3>1, OtherProduct
  <2>4. /\ thread'[j] = "running" /\ bytes_remaining'[j] = h_pwrbuf_size
        /\ output_thread_valid'[j] = TRUE
    BY <1>0, <1>8 DEF TypeOK
  <2>5. Taken(j)' = 0 /\ h_pwrbuf_size > 0 /\ d > 0
    BY <1>2, <2>4, RawAssumption DEF Taken
  <2>6. BufferInv(j)'
    BY <1>1, <1>2, <1>3, <1>4, <2>4, <2>5 DEF BufferInv
  <2>7. Holds(file[j], d, 0) /\ EndsWith(file[j], d, 0)
    BY DEF Holds, EndsWith
  <2>8. \A e \in (1 .. d) \ broken[j] : e = d \/ Holds(file[j], e, h_pwrbuf_size)
    <3>1. \A e \in 1 .. d : e = d \/ e \in 1 .. d - 1
      BY <1>3
    <3> QED BY <1>6, <3>1
  <2>9. FileInv(j)'
    BY <1>1, <1>3, <1>6, <1>7, <1>8, <2>4, <2>5, <2>7, <2>8 DEF FileInv
  <2> QED BY <2>1, <2>2, <2>3, <2>6, <2>9 DEF RawInv
<1>9. CASE /\ nFaults' = nFaults + 1
           /\ broken' = [broken EXCEPT ![j] = @ \cup {dump[j]}]
           /\ UNCHANGED threadVars
  <2>1. TypeOK'
    BY <1>0, <1>1, <1>2, <1>3, <1>9 DEF TypeOK
  <2>2. StopInv'
    BY <1>0, <1>1, <1>5, <1>9 DEF StopInv
  <2>3. ASSUME NEW i \in Products, i # j PROVE BufferInv(i)' /\ FileInv(i)'
    <3>1. SameProduct(i)
      BY <1>0, <1>1, <1>9, <2>3 DEF TypeOK, SameProduct
    <3> QED BY <1>0, <3>1, OtherProduct
  <2>4. broken'[j] = broken[j] \cup {d}
    BY <1>0, <1>2, <1>9 DEF TypeOK
  <2>5. BufferInv(j)'
    BY <1>1, <1>2, <1>3, <1>4, <1>9 DEF BufferInv
  <2>6. UpTo(file[j], d, h_pwrbuf_size)
    <3>1. PICK f \in Seq(FileCells) : f = file[j]
      BY <1>0 DEF TypeOK
    <3>2. ASSUME NEW k \in 1 .. Len(f) PROVE f[k].dump < d
      <4>1. f[k] \in FileCells
        OBVIOUS
      <4>2. f[k].dump < d \/ (f[k].dump = d /\ f[k].unit < 0)
        BY <1>7, <3>1 DEF UpTo
      <4> QED BY <4>1, <4>2, RawAssumption DEF FileCells, Units
    <3> QED BY <3>1, <3>2 DEF UpTo
  <2>7. \A e \in (1 .. d) \ broken'[j] : Holds(file[j], e, h_pwrbuf_size)
    <3>1. \A e \in (1 .. d) \ broken'[j] : e \in (1 .. d - 1) \ broken[j]
      BY <1>3, <2>4
    <3> QED BY <1>6, <3>1
  <2>8. FileInv(j)'
    BY <1>1, <1>3, <1>4, <1>6, <1>9, <2>6, <2>7 DEF FileInv
  <2> QED BY <2>1, <2>2, <2>3, <2>5, <2>8 DEF RawInv
<1> QED BY <1>8, <1>9 DEF PostDump

\* What holds of the product whose thread is running.
LEMMA RunningThread ==
    ASSUME RawInv, NEW j \in Products, thread[j] = "running"
    PROVE  /\ gpu[j] \in {"idle", "pre"} /\ nCopied[j] = 0 /\ output_thread_valid[j]
           /\ Newest(j) \in 1 .. MaxDumps
           /\ bytes_remaining[j] \in 1 .. h_pwrbuf_size
           /\ h_pwrbuf[j] = [u \in Units |-> Newest(j)]
<1>0. TypeOK /\ BufferInv(j)
  BY DEF RawInv
<1>1. gpu[j] \in {"idle", "pre"} /\ output_thread_valid[j] /\ bytes_remaining[j] > 0
      /\ Newest(j) > 0
  BY <1>0 DEF BufferInv, TypeOK
<1>2. nCopied[j] = 0 /\ h_pwrbuf[j] = [u \in Units |-> Newest(j)]
  BY <1>0, <1>1 DEF BufferInv
<1>3. dump[j] \in 0 .. MaxDumps /\ bytes_remaining[j] \in 0 .. h_pwrbuf_size
  BY <1>0 DEF TypeOK
<1>4. Newest(j) \in 1 .. MaxDumps
  BY <1>1, <1>3, RawAssumption DEF Newest
<1> QED BY <1>1, <1>2, <1>3, <1>4, RawAssumption

LEMMA WriteSomeStep ==
    ASSUME RawInv, NEW j \in Products, WriteSome(j)
    PROVE  RawInv'
<1> USE DEF gpuVars
<1>0. TypeOK /\ StopInv /\ \A i \in Products : BufferInv(i) /\ FileInv(i)
  BY DEF RawInv
<1>1. thread[j] = "running"
  BY DEF WriteSome
<1>2. PICK b \in 1 .. MaxDumps, r \in 1 .. h_pwrbuf_size :
        b = Newest(j) /\ r = bytes_remaining[j]
  BY <1>1, RunningThread
<1>3. h_pwrbuf[j] = [u \in Units |-> b]
  BY <1>1, <1>2, RunningThread
<1>4. PICK w \in Nat : w = h_pwrbuf_size - r
  BY RawAssumption
<1>5. Taken(j) = w
  BY <1>2, <1>4 DEF Taken
<1>6. PICK n \in 1 .. r :
        /\ file' = [file EXCEPT ![j] = @ \o
                      [k \in 1 .. n |-> [dump |-> h_pwrbuf[j][w + k - 1], unit |-> w + k - 1]]]
        /\ bytes_remaining' = [bytes_remaining EXCEPT ![j] = @ - n]
  BY <1>2, <1>4 DEF WriteSome
<1>7. [k \in 1 .. n |-> [dump |-> h_pwrbuf[j][w + k - 1], unit |-> w + k - 1]]
        = [k \in 1 .. n |-> [dump |-> b, unit |-> w + k - 1]]
  <2>1. ASSUME NEW k \in 1 .. n PROVE h_pwrbuf[j][w + k - 1] = b
    <3>1. w + k - 1 \in Units
      BY <1>4, RawAssumption DEF Units
    <3> QED BY <1>3, <3>1
  <2> QED BY <2>1
<1>8. PICK f \in Seq(FileCells) : f = file[j]
  BY <1>0 DEF TypeOK
<1>9. /\ Ordered(f) /\ NoGaps(f) /\ UpTo(f, b, w) /\ EndsWith(f, b, w) /\ Holds(f, b, w)
      /\ \A d \in (1 .. b) \ broken[j] : d = b \/ Holds(f, d, h_pwrbuf_size)
  BY <1>0, <1>1, <1>2, <1>5, <1>8 DEF FileInv
<1>10. PICK g : g = f \o [k \in 1 .. n |-> [dump |-> b, unit |-> w + k - 1]]
  OBVIOUS
<1>11. /\ g \in Seq(FileCells) /\ Ordered(g) /\ NoGaps(g)
       /\ UpTo(g, b, w + n) /\ EndsWith(g, b, w + n) /\ Holds(g, b, w + n)
       /\ \A e \in Nat : Holds(f, e, h_pwrbuf_size) => Holds(g, e, h_pwrbuf_size)
  <2>1. n \in Nat /\ n > 0 /\ w + n <= h_pwrbuf_size
    BY <1>4, RawAssumption
  <2> QED BY <1>9, <1>10, <2>1, FileExtended
<1>12. file' = [file EXCEPT ![j] = g]
  BY <1>6, <1>7, <1>8, <1>10
<1>13. bytes_remaining' = [bytes_remaining EXCEPT ![j] = r - n] /\ r - n \in 0 .. h_pwrbuf_size
  BY <1>2, <1>6, RawAssumption
<1>14. bytes_remaining'[j] = r - n /\ file'[j] = g
  BY <1>0, <1>12, <1>13 DEF TypeOK
<1>15. /\ thread' = [thread EXCEPT ![j] = IF r - n = 0 THEN "ended" ELSE "running"]
       /\ UNCHANGED <<gpu, dump, h_pwrbuf, nCopied, output_thread_valid, fd, stop, broken,
                      nFaults>>
  BY <1>1, <1>14 DEF WriteSome, AllWritten
<1>16. TypeOK'
  BY <1>0, <1>11, <1>12, <1>13, <1>15 DEF TypeOK
<1>17. StopInv'
  BY <1>0, <1>1, <1>15 DEF StopInv, TypeOK
<1>18. ASSUME NEW i \in Products, i # j PROVE BufferInv(i)' /\ FileInv(i)'
  <2>1. SameProduct(i)
    BY <1>0, <1>12, <1>13, <1>15, <1>18 DEF TypeOK, SameProduct
  <2> QED BY <1>0, <2>1, OtherProduct
<1>19. thread'[j] = (IF r - n = 0 THEN "ended" ELSE "running")
  BY <1>0, <1>15 DEF TypeOK
<1>20. Newest(j)' = b /\ Taken(j)' = w + n
  <2>1. h_pwrbuf_size - (r - n) = w + n
    BY <1>4, RawAssumption
  <2> QED BY <1>2, <1>14, <1>15, <2>1 DEF Newest, Taken
<1>21. BufferInv(j)'
  <2>1. thread'[j] = "running" => bytes_remaining'[j] > 0
    BY <1>13, <1>14, <1>19, RawAssumption
  <2>2. Newest(j)' = Newest(j)
    BY <1>2, <1>20
  <2> QED BY <1>0, <1>1, <1>15, <2>1, <2>2 DEF BufferInv
<1>22. FileInv(j)'
  <2>1. \A d \in (1 .. b) \ broken[j] : d = b \/ Holds(g, d, h_pwrbuf_size)
    <3>1. \A d \in 1 .. b : d \in Nat
      OBVIOUS
    <3> QED BY <1>9, <1>11, <3>1
  <2>2. CASE r - n = 0
    <3>1. w + n = h_pwrbuf_size
      BY <1>4, <2>2, RawAssumption
    <3> QED BY <1>11, <1>14, <1>15, <1>19, <1>20, <2>1, <2>2, <3>1 DEF FileInv
  <2>3. CASE r - n # 0
    BY <1>11, <1>14, <1>15, <1>19, <1>20, <2>1, <2>3 DEF FileInv
  <2> QED BY <2>2, <2>3
<1> QED BY <1>16, <1>17, <1>18, <1>21, <1>22 DEF RawInv

LEMMA WriteFailsStep ==
    ASSUME RawInv, NEW j \in Products, WriteFails(j)
    PROVE  RawInv'
<1> USE DEF gpuVars
<1>0. TypeOK /\ StopInv /\ \A i \in Products : BufferInv(i) /\ FileInv(i)
  BY DEF RawInv
<1>1. thread[j] = "running"
  BY DEF WriteFails
<1>2. PICK b \in 1 .. MaxDumps : b = Newest(j)
  BY <1>1, RunningThread
<1>3. h_pwrbuf[j][0] = b
  <2>1. 0 \in Units
    BY RawAssumption DEF Units
  <2>2. h_pwrbuf[j] = [u \in Units |-> b]
    BY <1>1, <1>2, RunningThread
  <2> QED BY <2>1, <2>2
<1>4. /\ thread' = [thread EXCEPT ![j] = "ended"]
      /\ broken' = [broken EXCEPT ![j] = @ \cup {b}]
      /\ nFaults' = nFaults + 1
      /\ UNCHANGED <<gpu, dump, h_pwrbuf, nCopied, output_thread_valid, bytes_remaining, fd,
                     file, stop>>
  BY <1>3 DEF WriteFails
<1>5. TypeOK'
  <2>1. b \in Nat
    OBVIOUS
  <2> QED BY <1>0, <1>4, <2>1 DEF TypeOK
<1>6. StopInv'
  BY <1>0, <1>1, <1>4 DEF StopInv, TypeOK
<1>7. ASSUME NEW i \in Products, i # j PROVE BufferInv(i)' /\ FileInv(i)'
  <2>1. SameProduct(i)
    BY <1>0, <1>4, <1>7 DEF TypeOK, SameProduct
  <2> QED BY <1>0, <2>1, OtherProduct
<1>8. /\ thread'[j] = "ended" /\ broken'[j] = broken[j] \cup {b} /\ Newest(j)' = Newest(j)
  <2>1. j \in DOMAIN thread /\ j \in DOMAIN broken
    BY <1>0 DEF TypeOK
  <2>2. thread'[j] = "ended" /\ broken'[j] = broken[j] \cup {b}
    BY <1>4, <2>1
  <2>3. dump' = dump /\ gpu' = gpu
    BY <1>4
  <2> QED BY <2>2, <2>3 DEF Newest
<1>9. BufferInv(j)'
  <2>1. UNCHANGED <<gpu, dump, h_pwrbuf, nCopied, output_thread_valid, bytes_remaining>>
    BY <1>4
  <2>2. BufferInv(j)
    BY <1>0
  <2> QED BY <1>8, <2>1, <2>2 DEF BufferInv
<1>10. FileInv(j)'
  <2>1. PICK f \in Seq(FileCells) : f = file[j]
    BY <1>0 DEF TypeOK
  <2>2. UpTo(f, b, Taken(j))
    BY <1>0, <1>1, <1>2, <2>1 DEF FileInv
  <2>3. ASSUME NEW k \in 1 .. Len(f)
        PROVE  f[k].dump < b \/ (f[k].dump = b /\ f[k].unit < h_pwrbuf_size)
    <3>1. f[k] \in FileCells
      OBVIOUS
    <3>2. f[k].unit < h_pwrbuf_size
      BY <3>1, RawAssumption DEF FileCells, Units
    <3> QED BY <2>2, <3>2 DEF UpTo
  <2>4. UpTo(f, b, h_pwrbuf_size)
    BY <2>3 DEF UpTo
  <2>5. Ordered(f) /\ NoGaps(f)
        /\ \A d \in (1 .. b) \ (broken[j] \cup {b}) : Holds(f, d, h_pwrbuf_size)
    BY <1>0, <1>2, <2>1 DEF FileInv
  <2> QED BY <1>2, <1>4, <1>8, <2>1, <2>4, <2>5 DEF FileInv
<1> QED BY <1>5, <1>6, <1>7, <1>9, <1>10 DEF RawInv

\* rawspec_stop: a product is closed when its thread has been joined.
LEMMA StopSteps ==
    ASSUME RawInv, StopCalled \/ StopStep
    PROVE  RawInv'
<1> USE DEF gpuVars, threadVars
<1>0. TypeOK /\ StopInv /\ \A i \in Products : BufferInv(i) /\ FileInv(i)
  BY DEF RawInv
<1>1. CASE StopCalled
  <2>1. TypeOK' /\ StopInv'
    <3>1. stop' \in -1 .. No + 1 /\ stop <= stop' /\ ~(stop' >= 1)
          /\ \A i \in Products : stop <= i /\ stop' <= i
      BY <1>1, RawAssumption DEF StopCalled, Waiting, NotCalled, Products
    <3>2. UNCHANGED <<gpuVars, threadVars, fd, file, broken, nFaults>>
      BY <1>1 DEF StopCalled
    <3>3. TypeOK'
      BY <1>0, <3>1, <3>2 DEF TypeOK
    <3>4. StopInv'
      BY <1>0, <3>1, <3>2 DEF StopInv
    <3> QED BY <3>3, <3>4
  <2>2. \A i \in Products : SameProduct(i)
    BY <1>1 DEF StopCalled, SameProduct
  <2> QED BY <1>0, <2>1, <2>2, OtherProduct DEF RawInv
<1>2. CASE GpuCompleted
  <2>0. stop' = 1 /\ 1 \in -1 .. No + 1 /\ \A i \in Products : 1 <= i
    BY <1>2, RawAssumption DEF GpuCompleted, Products
  <2>1. TypeOK' /\ StopInv'
    <3>1. TypeOK'
      BY <1>0, <1>2, <2>0 DEF TypeOK, GpuCompleted
    <3>2. \A i \in Products : stop <= i
      BY <1>2, RawAssumption DEF GpuCompleted, Waiting, Products
    <3>3. StopInv'
      BY <1>0, <1>2, <2>0, <3>2 DEF StopInv, GpuCompleted
    <3> QED BY <3>1, <3>3
  <2>2. \A i \in Products : SameProduct(i)
    BY <1>2 DEF GpuCompleted, SameProduct
  <2> QED BY <1>0, <2>1, <2>2, OtherProduct DEF RawInv
<1>3. ASSUME NEW j \in Products, StopProduct(j) PROVE RawInv'
  <2>1. j \in Nat /\ j >= 1 /\ j <= No /\ stop = j /\ stop' = j + 1
    BY <1>3, RawAssumption DEF StopProduct, Products
  <2>2. TypeOK'
    <3>1. j + 1 \in -1 .. No + 1
      BY <2>1, RawAssumption
    <3> QED BY <1>0, <1>3, <3>1 DEF TypeOK, StopProduct
  <2>3. thread[j] # "running"
    BY <1>0, <1>3 DEF StopProduct, MayJoin, BufferInv
  <2>4. StopInv'
    <3>1. \A i \in Products : gpu'[i] = "idle"
      BY <1>0, <1>3, <2>1 DEF StopInv, StopProduct
    <3>2. ASSUME NEW i \in Products, thread'[i] = "running" PROVE stop' <= i
      BY <1>0, <1>3, <2>1, <2>3, <3>2 DEF StopInv, StopProduct, Products
    <3>3. ASSUME NEW i \in Products, stop' <= i PROVE fd'[i] = "open"
      <4>1. i # j /\ stop <= i
        BY <2>1, <3>3 DEF Products
      <4> QED BY <1>0, <1>3, <4>1 DEF StopInv, StopProduct, TypeOK
    <3> QED BY <3>1, <3>2, <3>3 DEF StopInv
  <2>5. ASSUME NEW i \in Products PROVE BufferInv(i)' /\ FileInv(i)'
    <3>1. CASE i # j
      <4>1. SameProduct(i)
        BY <1>0, <1>3, <3>1 DEF TypeOK, StopProduct, SameProduct
      <4> QED BY <1>0, <4>1, OtherProduct
    <3>2. CASE i = j
      <4>1. UNCHANGED <<gpu, dump, h_pwrbuf, nCopied, thread, bytes_remaining, file, broken>>
        BY <1>3 DEF StopProduct
      <4>2. Newest(i)' = Newest(i) /\ Taken(i)' = Taken(i) /\ thread[i] # "running"
        BY <2>3, <3>2, <4>1 DEF Newest, Taken
      <4>3. BufferInv(i)'
        BY <1>0, <4>1, <4>2 DEF BufferInv
      <4>4. FileInv(i)'
        BY <1>0, <4>1, <4>2 DEF FileInv
      <4> QED BY <4>3, <4>4
    <3> QED BY <3>1, <3>2
  <2> QED BY <2>2, <2>4, <2>5 DEF RawInv
<1> QED BY <1>1, <1>2, <1>3 DEF StopStep

LEMMA DumpNextInv == RawInv /\ [DumpNext]_dumpVars => RawInv'
<1> SUFFICES ASSUME RawInv, [DumpNext]_dumpVars PROVE RawInv'
  OBVIOUS
<1>1. CASE UNCHANGED dumpVars
  <2>1. TypeOK' /\ StopInv'
    BY <1>1 DEF RawInv, TypeOK, StopInv, dumpVars, gpuVars, threadVars
  <2>2. \A i \in Products : SameProduct(i)
    BY <1>1 DEF SameProduct, dumpVars, gpuVars, threadVars
  <2> QED BY <2>1, <2>2, OtherProduct DEF RawInv
<1>2. CASE \E i \in Products : StartDump(i) \/ GpuStep(i) \/ WriteSome(i) \/ WriteFails(i)
  BY <1>2, StartDumpStep, CopyUnitStep, PreDumpStep, PostDumpStep, WriteSomeStep,
     WriteFailsStep DEF GpuStep
<1>3. CASE StopCalled \/ StopStep
  BY <1>3, StopSteps
<1> QED BY <1>1, <1>2, <1>3 DEF DumpNext

------------------------------------------------------------------------------
\* Joining the last thread before the next dump and before the close is all
\* that hpguppi_rawspec.c needs: every file holds its dumps whole and in order,
\* but for those whose write or thread failed.
THEOREM FilesIntact == DumpSpec => []DumpsIntact
BY DumpInitInv, DumpNextInv, InvImpliesIntact, PTL DEF DumpSpec
==============================================================================

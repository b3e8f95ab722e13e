-------------------------- MODULE OuterWorkersProofs --------------------------
(***************************************************************************)
(* The safety of the receiver built with USE_WORKER_THREADS, for any       *)
(* number of workers, any queue and ring sizes, any stream of packets and  *)
(* any DESTIP strings: AllInv is inductive and implies that the counters   *)
(* of the job queue are right, that open jobs stay inside the blocks they  *)
(* were made for, and that the flows are those of the destination in force.*)
(***************************************************************************)
EXTENDS OuterWorkers, OuterThreadProofs, FiniteSetTheorems

------------------------------------------------------------------------------
\* The inductive invariant, beside OuterInv

WorkerPlaces == {"unborn", "test", "pop", "asleep", "complete", "done"}

JobTypes ==
    /\ pjq \in [idxnew : Entries, idxold : Entries, num_queued : Nat, num_pending : Nat,
                jobs : [Entries -> Jobs \cup {NoJob}]]
    /\ asleep \in BOOLEAN
    /\ wpc \in [Workers -> WorkerPlaces]
    /\ my_job \in [Workers -> Jobs \cup {NoJob}]

\* How many entries before e are queued before it, if it is.
PlaceFrom(o, e) == IF e >= o THEN e - o ELSE e - o + PJQ_NUM_ENTRIES
Place(e) == PlaceFrom(pjq.idxold, e)

\* A worker has a job exactly while it is about to complete it, and a queued
\* entry holds a job.
JobsHeld ==
    /\ \A w \in Workers : wpc[w] = "complete" <=> my_job[w] # NoJob
    /\ \A e \in Entries : Place(e) < pjq.num_queued => pjq.jobs[e] \in Jobs

JobsInv == JobTypes /\ JobsCounted /\ JobsHeld

\* Nothing is pending while the thread has no input block and while it waits
\* for an output block: it has waited for the jobs before.
WithinInv ==
    /\ JobsWithinBlocks
    /\ opc \in {"wait", "done", "waitfree"} => pjq.num_pending = 0

FlowTypes ==
    /\ DESTIP \in Dest /\ dest_ip_stream_str \in Dest /\ dest_ip_stream_str_new \in Dest
    /\ max_flows \in Nat /\ nstreams \in Nat /\ flowFailed \in BOOLEAN

FlowsInv == FlowTypes /\ FlowsInForce

AllInv == OuterInv /\ JobsInv /\ WithinInv /\ FlowsInv

------------------------------------------------------------------------------
\* The ring of the job queue

LEMMA RingSum ==
    ASSUME NEW a \in Entries, NEW k \in Entries
    PROVE  (a + k) % PJQ_NUM_ENTRIES =
             IF a + k < PJQ_NUM_ENTRIES THEN a + k ELSE a + k - PJQ_NUM_ENTRIES
BY JobsAssumption DEF Entries

LEMMA NextEntry ==
    ASSUME NEW e \in Entries
    PROVE  /\ next_idx(e) = IF e = PJQ_NUM_ENTRIES - 1 THEN 0 ELSE e + 1
           /\ next_idx(e) \in Entries
BY JobsAssumption DEF Entries, next_idx

\* The entries from o on, without the remainder.
LEMMA QueuedFrom ==
    ASSUME NEW o \in Entries, NEW q \in Nat, q < PJQ_NUM_ENTRIES
    PROVE  {(o + k) % PJQ_NUM_ENTRIES : k \in 0 .. q - 1}
             = {e \in Entries : PlaceFrom(o, e) < q}
<1>1. ASSUME NEW k \in 0 .. q - 1
      PROVE  (o + k) % PJQ_NUM_ENTRIES \in {e \in Entries : PlaceFrom(o, e) < q}
  <2>1. k \in Entries
    BY JobsAssumption DEF Entries
  <2>2. (o + k) % PJQ_NUM_ENTRIES =
          IF o + k < PJQ_NUM_ENTRIES THEN o + k ELSE o + k - PJQ_NUM_ENTRIES
    BY <2>1, RingSum
  <2> QED BY <2>1, <2>2, JobsAssumption DEF Entries, PlaceFrom
<1>2. ASSUME NEW e \in Entries, PlaceFrom(o, e) < q
      PROVE  \E k \in 0 .. q - 1 : e = (o + k) % PJQ_NUM_ENTRIES
  <2>1. PlaceFrom(o, e) \in 0 .. q - 1 /\ PlaceFrom(o, e) \in Entries
    BY <1>2, JobsAssumption DEF Entries, PlaceFrom
  <2>2. (o + PlaceFrom(o, e)) % PJQ_NUM_ENTRIES =
          IF o + PlaceFrom(o, e) < PJQ_NUM_ENTRIES THEN o + PlaceFrom(o, e)
          ELSE o + PlaceFrom(o, e) - PJQ_NUM_ENTRIES
    BY <2>1, RingSum
  <2>3. (o + PlaceFrom(o, e)) % PJQ_NUM_ENTRIES = e
    BY <2>1, <2>2, JobsAssumption DEF Entries, PlaceFrom
  <2> QED BY <2>1, <2>3
<1> QED BY <1>1, <1>2

\* Pushing an entry: the ring has room unless the next index is the oldest,
\* and the new entry is the last one queued.
LEMMA RingPush ==
    ASSUME NEW o \in Entries, NEW n \in Entries, NEW q \in Nat, q < PJQ_NUM_ENTRIES,
           n = (o + q) % PJQ_NUM_ENTRIES, next_idx(n) # o
    PROVE  /\ q + 1 < PJQ_NUM_ENTRIES
           /\ next_idx(n) = (o + (q + 1)) % PJQ_NUM_ENTRIES
           /\ \A e \in Entries : PlaceFrom(o, e) < q + 1 => PlaceFrom(o, e) < q \/ e = n
           /\ ~(PlaceFrom(o, n) < q)
<1>1. n = IF o + q < PJQ_NUM_ENTRIES THEN o + q ELSE o + q - PJQ_NUM_ENTRIES
  <2>1. q \in Entries
    BY JobsAssumption DEF Entries
  <2> QED BY <2>1, RingSum
<1>2. next_idx(n) = IF n = PJQ_NUM_ENTRIES - 1 THEN 0 ELSE n + 1
  BY NextEntry
<1>3. q + 1 < PJQ_NUM_ENTRIES
  BY <1>1, <1>2, JobsAssumption DEF Entries
<1>4. (o + (q + 1)) % PJQ_NUM_ENTRIES =
        IF o + (q + 1) < PJQ_NUM_ENTRIES THEN o + (q + 1) ELSE o + (q + 1) - PJQ_NUM_ENTRIES
  <2>1. q + 1 \in Entries
    BY <1>3, JobsAssumption DEF Entries
  <2> QED BY <2>1, RingSum
<1>5. next_idx(n) = (o + (q + 1)) % PJQ_NUM_ENTRIES
  BY <1>1, <1>2, <1>3, <1>4, JobsAssumption DEF Entries
<1>6. \A e \in Entries : PlaceFrom(o, e) < q + 1 => PlaceFrom(o, e) < q \/ e = n
  BY <1>1, JobsAssumption DEF Entries, PlaceFrom
<1>7. ~(PlaceFrom(o, n) < q)
  BY <1>1, JobsAssumption DEF Entries, PlaceFrom
<1> QED BY <1>3, <1>5, <1>6, <1>7

\* Popping one: the oldest entry is queued, and the others keep their order.
LEMMA RingPop ==
    ASSUME NEW o \in Entries, NEW q \in Nat \ {0}, q < PJQ_NUM_ENTRIES
    PROVE  /\ PlaceFrom(o, o) < q
           /\ (o + q) % PJQ_NUM_ENTRIES = (next_idx(o) + (q - 1)) % PJQ_NUM_ENTRIES
           /\ \A e \in Entries : PlaceFrom(next_idx(o), e) < q - 1 => PlaceFrom(o, e) < q
<1>1. next_idx(o) = IF o = PJQ_NUM_ENTRIES - 1 THEN 0 ELSE o + 1
  BY NextEntry
<1>2. (o + q) % PJQ_NUM_ENTRIES =
        IF o + q < PJQ_NUM_ENTRIES THEN o + q ELSE o + q - PJQ_NUM_ENTRIES
  <2>1. q \in Entries
    BY JobsAssumption DEF Entries
  <2> QED BY <2>1, RingSum
<1>3. (next_idx(o) + (q - 1)) % PJQ_NUM_ENTRIES =
        IF next_idx(o) + (q - 1) < PJQ_NUM_ENTRIES THEN next_idx(o) + (q - 1)
        ELSE next_idx(o) + (q - 1) - PJQ_NUM_ENTRIES
  <2>1. q - 1 \in Entries /\ next_idx(o) \in Entries
    BY JobsAssumption, NextEntry DEF Entries
  <2> QED BY <2>1, RingSum
<1>4. (o + q) % PJQ_NUM_ENTRIES = (next_idx(o) + (q - 1)) % PJQ_NUM_ENTRIES
  BY <1>1, <1>2, <1>3, JobsAssumption DEF Entries
<1>5. PlaceFrom(o, o) < q
  BY JobsAssumption DEF Entries, PlaceFrom
<1>6. \A e \in Entries : PlaceFrom(next_idx(o), e) < q - 1 => PlaceFrom(o, e) < q
  BY <1>1, JobsAssumption DEF Entries, PlaceFrom
<1> QED BY <1>4, <1>5, <1>6

LEMMA QueuedPlaces ==
    ASSUME JobsInv
    PROVE  QueuedEntries = {e \in Entries : Place(e) < pjq.num_queued}
<1>1. /\ pjq.idxold \in Entries /\ pjq.num_queued \in Nat
      /\ pjq.num_queued < PJQ_NUM_ENTRIES
  BY DEF JobsInv, JobTypes, JobsCounted
<1> QED BY <1>1, QueuedFrom DEF QueuedEntries, Place

LEMMA PoppedFinite ==
    IsFiniteSet(Popped) /\ Cardinality(Popped) \in Nat
BY JobsAssumption, FS_Subset, FS_CardinalityType DEF Popped

\* Zero pending jobs means that no job is open.
LEMMA NothingPending ==
    ASSUME JobsInv, pjq.num_pending = 0
    PROVE  OpenJobs = {}
<1>1. pjq.num_queued \in Nat /\ pjq.num_queued + Cardinality(Popped) = 0
  BY DEF JobsInv, JobTypes, JobsCounted
<1>2. pjq.num_queued = 0 /\ Cardinality(Popped) = 0
  BY <1>1, PoppedFinite
<1>3. Popped = {}
  BY <1>2, PoppedFinite, FS_EmptySet
<1>4. QueuedEntries = {}
  BY <1>2 DEF QueuedEntries
<1> QED BY <1>3, <1>4 DEF OpenJobs

------------------------------------------------------------------------------
\* The operations of the queue keep its invariant and say what they do to the
\* open jobs.

LEMMA JobsInitInv == JobsInit => JobsInv
<1> SUFFICES ASSUME JobsInit PROVE JobsInv
  OBVIOUS
<1>1. 0 \in Entries
  BY JobsAssumption DEF Entries
<1>2. JobTypes
  BY <1>1 DEF JobsInit, JobTypes, WorkerPlaces
<1>3. JobsCounted
  <2>1. Popped = {}
    BY DEF JobsInit, Popped
  <2> QED BY <2>1, FS_EmptySet, JobsAssumption DEF JobsInit, JobsCounted
<1>4. JobsHeld
  <2>1. pjq.idxold = 0 /\ pjq.num_queued = 0
    BY DEF JobsInit
  <2>2. \A e \in Entries : ~(Place(e) < pjq.num_queued)
    BY <2>1, JobsAssumption DEF Place, PlaceFrom, Entries
  <2> QED BY <2>2 DEF JobsInit, JobsHeld
<1> QED BY <1>2, <1>3, <1>4 DEF JobsInv

LEMMA JobsUnchanged ==
    ASSUME JobsInv, UNCHANGED jobVars
    PROVE  JobsInv' /\ OpenJobs' = OpenJobs
<1> USE DEF jobVars
<1>1. JobTypes' /\ JobsCounted' /\ OpenJobs' = OpenJobs
  BY DEF JobsInv, JobTypes, JobsCounted, Popped, OpenJobs, QueuedEntries
<1>2. JobsHeld'
  BY DEF JobsInv, JobsHeld, Place
<1> QED BY <1>1, <1>2 DEF JobsInv

\* A step that leaves the queue and the popped jobs alone, and sends no worker
\* to or from the completion of a job.
LEMMA QueueUntouched ==
    ASSUME JobsInv, UNCHANGED <<pjq, my_job>>, asleep' \in BOOLEAN,
           wpc' \in [Workers -> WorkerPlaces],
           \A w \in Workers : wpc'[w] = "complete" <=> wpc[w] = "complete"
    PROVE  JobsInv' /\ OpenJobs' = OpenJobs
<1>1. JobTypes' /\ JobsCounted' /\ OpenJobs' = OpenJobs
  BY DEF JobsInv, JobTypes, JobsCounted, Popped, OpenJobs, QueuedEntries
<1>2. JobsHeld'
  BY DEF JobsInv, JobsHeld, Place
<1> QED BY <1>1, <1>2 DEF JobsInv

LEMMA PushStep ==
    ASSUME JobsInv, NEW job \in Jobs, push_job(job)
    PROVE  JobsInv' /\ OpenJobs' \subseteq OpenJobs \cup {job}
<1>1. CASE QueueFull
  BY <1>1, JobsUnchanged DEF push_job
<1>2. CASE ~QueueFull
  <2> DEFINE o == pjq.idxold
             n == pjq.idxnew
             q == pjq.num_queued
             p == pjq.num_pending
  <2>1. /\ o \in Entries /\ n \in Entries /\ q \in Nat /\ p \in Nat
        /\ pjq.jobs \in [Entries -> Jobs \cup {NoJob}]
        /\ q < PJQ_NUM_ENTRIES /\ n = (o + q) % PJQ_NUM_ENTRIES
        /\ p = q + Cardinality(Popped)
    BY DEF JobsInv, JobTypes, JobsCounted
  <2>2. next_idx(n) # o /\ next_idx(n) \in Entries
    BY <1>2, <2>1, NextEntry DEF QueueFull
  <2>3. /\ q + 1 < PJQ_NUM_ENTRIES
        /\ next_idx(n) = (o + (q + 1)) % PJQ_NUM_ENTRIES
        /\ \A e \in Entries : PlaceFrom(o, e) < q + 1 => PlaceFrom(o, e) < q \/ e = n
    BY <2>1, <2>2, RingPush
  <2>5. /\ pjq' = [pjq EXCEPT !.jobs[n] = job, !.idxnew = next_idx(n),
                              !.num_queued = q + 1, !.num_pending = p + 1]
        /\ wpc' = Woken /\ UNCHANGED <<asleep, my_job>>
    BY <1>2 DEF push_job
  <2>6. /\ pjq'.idxold = o /\ pjq'.idxnew = next_idx(n) /\ pjq'.num_queued = q + 1
        /\ pjq'.num_pending = p + 1 /\ pjq'.jobs = [pjq.jobs EXCEPT ![n] = job]
        /\ pjq' \in [idxnew : Entries, idxold : Entries, num_queued : Nat, num_pending : Nat,
                     jobs : [Entries -> Jobs \cup {NoJob}]]
    <3>1. q + 1 \in Nat /\ p + 1 \in Nat
      BY <2>1
    <3>2. PICK js \in [Entries -> Jobs \cup {NoJob}] : js = [pjq.jobs EXCEPT ![n] = job]
      BY <2>1
    <3>3. pjq' = [pjq EXCEPT !.jobs = js, !.idxnew = next_idx(n),
                             !.num_queued = q + 1, !.num_pending = p + 1]
      BY <2>5, <3>2
    <3> HIDE DEF n, q, p, o
    <3>4. pjq \in [idxnew : Entries, idxold : Entries, num_queued : Nat, num_pending : Nat,
                    jobs : [Entries -> Jobs \cup {NoJob}]]
      BY DEF JobsInv, JobTypes
    <3>5. /\ pjq'.idxold = pjq.idxold /\ pjq'.idxnew = next_idx(n)
          /\ pjq'.num_queued = q + 1 /\ pjq'.num_pending = p + 1 /\ pjq'.jobs = js
      BY <3>3, <3>4
    <3>6. pjq' \in [idxnew : Entries, idxold : Entries, num_queued : Nat, num_pending : Nat,
                     jobs : [Entries -> Jobs \cup {NoJob}]]
      BY <2>2, <3>1, <3>2, <3>3, <3>4
    <3> QED BY <3>2, <3>5, <3>6 DEF o
  <2>7. wpc' \in [Workers -> WorkerPlaces]
        /\ \A w \in Workers : wpc'[w] = "complete" <=> wpc[w] = "complete"
    BY <2>5 DEF JobsInv, JobTypes, Woken, WorkerPlaces
  <2>8. JobTypes'
    BY <2>5, <2>6, <2>7 DEF JobsInv, JobTypes
  <2>9. JobsCounted'
    <3>1. Popped' = Popped
      BY <2>5 DEF Popped
    <3>3. p + 1 = (q + 1) + Cardinality(Popped)
      BY <2>1, PoppedFinite
    <3> QED BY <2>3, <2>6, <3>1, <3>3 DEF JobsCounted
  <2>10. \A e \in Entries : Place(e)' = Place(e)
    BY <2>6 DEF Place
  <2>11. \A e \in Entries : Place(e) < q + 1 => Place(e) < q \/ e = n
    BY <2>3 DEF Place
  <2>12. \A e \in Entries : pjq'.jobs[e] = IF e = n THEN job ELSE pjq.jobs[e]
    BY <2>1, <2>6
  <2>13. JobsHeld'
    <3>1. \A e \in Entries : Place(e)' < pjq'.num_queued => pjq'.jobs[e] \in Jobs
      BY <2>6, <2>10, <2>11, <2>12 DEF JobsInv, JobsHeld
    <3>2. \A w \in Workers : wpc'[w] = "complete" <=> my_job'[w] # NoJob
      BY <2>5, <2>7 DEF JobsInv, JobsHeld
    <3> QED BY <3>1, <3>2 DEF JobsHeld
  <2>14. JobsInv'
    BY <2>8, <2>9, <2>13 DEF JobsInv
  <2>15. OpenJobs' \subseteq OpenJobs \cup {job}
    <3>1. QueuedEntries' = {e \in Entries : Place(e)' < pjq'.num_queued}
      <4>1. q + 1 \in Nat
        BY <2>1
      <4> QED BY <2>1, <2>3, <2>6, <4>1, QueuedFrom DEF QueuedEntries, Place
    <3>2. QueuedEntries = {e \in Entries : Place(e) < q}
      BY QueuedPlaces
    <3>3. {my_job'[w] : w \in Popped'} = {my_job[w] : w \in Popped}
      BY <2>5 DEF Popped
    <3>4. ASSUME NEW e \in QueuedEntries'
          PROVE  pjq'.jobs[e] = job \/ (e \in QueuedEntries /\ pjq'.jobs[e] = pjq.jobs[e])
      <4>1. e \in Entries /\ Place(e)' < pjq'.num_queued
        BY <3>1
      <4>2. Place(e) < q + 1
        BY <2>6, <2>10, <4>1
      <4>3. Place(e) < q \/ e = n
        BY <2>11, <4>1, <4>2
      <4> QED BY <2>12, <3>2, <4>1, <4>3
    <3> QED BY <3>3, <3>4 DEF OpenJobs
  <2> QED BY <2>14, <2>15
<1> QED BY <1>1, <1>2

\* pop_job: the oldest entry goes from the ring to the worker.
LEMMA PopStep ==
    ASSUME JobsInv, NEW w \in Workers, PopJob(w)
    PROVE  /\ JobsInv' /\ OpenJobs' \subseteq OpenJobs
           /\ pjq'.num_pending = pjq.num_pending
<1> DEFINE o == pjq.idxold
           q == pjq.num_queued
<1>1. /\ o \in Entries /\ q \in Nat \ {0} /\ q < PJQ_NUM_ENTRIES
      /\ pjq.num_pending = q + Cardinality(Popped) /\ pjq.idxnew = (o + q) % PJQ_NUM_ENTRIES
      /\ pjq.jobs \in [Entries -> Jobs \cup {NoJob}]
  BY DEF JobsInv, JobTypes, JobsCounted, PopJob
<1>2. next_idx(o) \in Entries /\ q - 1 \in Nat
  BY <1>1, NextEntry
<1>3. /\ pjq' = [pjq EXCEPT !.idxold = next_idx(o), !.num_queued = q - 1]
      /\ my_job' = [my_job EXCEPT ![w] = pjq.jobs[o]]
      /\ wpc' = [wpc EXCEPT ![w] = "complete"]
      /\ wpc[w] = "pop" /\ asleep' = asleep
  BY DEF PopJob
<1>4. /\ PlaceFrom(o, o) < q
      /\ (o + q) % PJQ_NUM_ENTRIES = (next_idx(o) + (q - 1)) % PJQ_NUM_ENTRIES
      /\ \A e \in Entries : PlaceFrom(next_idx(o), e) < q - 1 => PlaceFrom(o, e) < q
  BY <1>1, RingPop
<1>5. pjq \in [idxnew : Entries, idxold : Entries, num_queued : Nat, num_pending : Nat,
               jobs : [Entries -> Jobs \cup {NoJob}]]
  BY DEF JobsInv, JobTypes
<1> HIDE DEF q
<1>6. /\ pjq' \in [idxnew : Entries, idxold : Entries, num_queued : Nat, num_pending : Nat,
                   jobs : [Entries -> Jobs \cup {NoJob}]]
      /\ pjq'.idxold = next_idx(o) /\ pjq'.num_queued = q - 1 /\ pjq'.idxnew = pjq.idxnew
      /\ pjq'.num_pending = pjq.num_pending /\ pjq'.jobs = pjq.jobs
  BY <1>2, <1>3, <1>5
<1>7. pjq.jobs[o] \in Jobs /\ pjq.jobs[o] # NoJob
  BY <1>1, <1>4, NoJobAssumption DEF JobsInv, JobsHeld, Place, q
<1>8. my_job[w] = NoJob
  BY <1>3 DEF JobsInv, JobsHeld
<1>9. my_job \in [Workers -> Jobs \cup {NoJob}] /\ wpc \in [Workers -> WorkerPlaces]
  BY DEF JobsInv, JobTypes
<1>10. JobTypes'
  BY <1>3, <1>6, <1>7, <1>9 DEF JobsInv, JobTypes, WorkerPlaces
<1>11. Popped' = Popped \cup {w} /\ w \notin Popped
  BY <1>3, <1>7, <1>8, <1>9 DEF Popped
<1>12. JobsCounted'
  <2>1. Cardinality(Popped') = Cardinality(Popped) + 1
    BY <1>11, PoppedFinite, FS_AddElement
  <2>2. q - 1 < PJQ_NUM_ENTRIES
    BY <1>1, JobsAssumption DEF q
  <2>3. pjq.num_pending = (q - 1) + (Cardinality(Popped) + 1)
    BY <1>1, PoppedFinite DEF q
  <2>4. pjq'.idxnew = (pjq'.idxold + pjq'.num_queued) % PJQ_NUM_ENTRIES
    BY <1>1, <1>4, <1>6 DEF q
  <2> QED BY <1>6, <2>1, <2>2, <2>3, <2>4 DEF JobsCounted
<1>13. JobsHeld'
  <2>1. \A v \in Workers : wpc'[v] = "complete" <=> my_job'[v] # NoJob
    BY <1>3, <1>7, <1>9 DEF JobsInv, JobsHeld
  <2>2. ASSUME NEW e \in Entries, Place(e)' < pjq'.num_queued
        PROVE  pjq'.jobs[e] \in Jobs
    <3>1. PlaceFrom(next_idx(o), e) < q - 1
      BY <1>6, <2>2 DEF Place
    <3>2. Place(e) < q
      BY <1>4, <3>1 DEF Place
    <3> QED BY <1>6, <3>2 DEF JobsInv, JobsHeld, q
  <2> QED BY <2>1, <2>2 DEF JobsHeld
<1>14. OpenJobs' \subseteq OpenJobs
  <2>1. QueuedEntries' = {e \in Entries : PlaceFrom(next_idx(o), e) < q - 1}
    <3>1. q - 1 < PJQ_NUM_ENTRIES
      BY <1>1, JobsAssumption DEF q
    <3> QED BY <1>2, <1>6, <3>1, QueuedFrom DEF QueuedEntries, q
  <2>2. QueuedEntries = {e \in Entries : PlaceFrom(o, e) < q}
    BY QueuedPlaces DEF Place, q
  <2>3. \A e \in QueuedEntries' : e \in QueuedEntries /\ pjq'.jobs[e] = pjq.jobs[e]
    BY <1>4, <1>6, <2>1, <2>2
  <2>4. o \in QueuedEntries
    BY <1>1, <1>4, <2>2 DEF q
  <2>5. \A v \in Popped' : my_job'[v] = pjq.jobs[o] \/ (v \in Popped /\ my_job'[v] = my_job[v])
    BY <1>3, <1>9, <1>11 DEF Popped
  <2> QED BY <2>3, <2>4, <2>5 DEF OpenJobs
<1> QED BY <1>6, <1>10, <1>12, <1>13, <1>14 DEF JobsInv

\* complete_job: the worker gives its job back, and one less is pending; its
\* guard against a count of zero never takes effect.
LEMMA CompleteStep ==
    ASSUME JobsInv, NEW w \in Workers, complete_job(w)
    PROVE  /\ JobsInv' /\ OpenJobs' \subseteq OpenJobs
           /\ pjq'.num_pending = pjq.num_pending - 1
<1> DEFINE p == pjq.num_pending
           q == pjq.num_queued
<1>1. /\ p \in Nat /\ q \in Nat /\ p = q + Cardinality(Popped)
      /\ my_job \in [Workers -> Jobs \cup {NoJob}] /\ wpc \in [Workers -> WorkerPlaces]
  BY DEF JobsInv, JobTypes, JobsCounted
<1>2. w \in Popped
  BY DEF JobsInv, JobsHeld, complete_job, Popped
<1>3. Cardinality(Popped) > 0 /\ Cardinality(Popped \ {w}) = Cardinality(Popped) - 1
  <2>1. Cardinality(Popped \ {w}) = Cardinality(Popped) - 1 /\ IsFiniteSet(Popped \ {w})
    BY <1>2, PoppedFinite, FS_RemoveElement
  <2>2. Cardinality(Popped \ {w}) \in Nat
    BY <2>1, FS_CardinalityType
  <2> QED BY <2>1, <2>2, PoppedFinite
<1>4. p # 0 /\ p - 1 \in Nat /\ p - 1 = q + (Cardinality(Popped) - 1)
  BY <1>1, <1>3, PoppedFinite
<1>5. pjq' = [pjq EXCEPT !.num_pending = p - 1]
  BY <1>4 DEF complete_job
<1>6. pjq \in [idxnew : Entries, idxold : Entries, num_queued : Nat, num_pending : Nat,
               jobs : [Entries -> Jobs \cup {NoJob}]]
  BY DEF JobsInv, JobTypes
<1> HIDE DEF p
<1>7. /\ pjq' \in [idxnew : Entries, idxold : Entries, num_queued : Nat, num_pending : Nat,
                   jobs : [Entries -> Jobs \cup {NoJob}]]
      /\ pjq'.idxold = pjq.idxold /\ pjq'.num_queued = pjq.num_queued
      /\ pjq'.idxnew = pjq.idxnew /\ pjq'.num_pending = p - 1 /\ pjq'.jobs = pjq.jobs
  BY <1>4, <1>5, <1>6
<1>8. /\ my_job' = [my_job EXCEPT ![w] = NoJob] /\ wpc' = [wpc EXCEPT ![w] = "test"]
      /\ asleep' \in BOOLEAN
  BY DEF complete_job, JobsInv, JobTypes
<1>9. JobTypes'
  BY <1>1, <1>7, <1>8 DEF JobTypes, WorkerPlaces
<1>10. Popped' = Popped \ {w}
  BY <1>1, <1>8 DEF Popped
<1>11. JobsCounted'
  BY <1>3, <1>4, <1>7, <1>10 DEF JobsInv, JobsCounted
<1>12. JobsHeld'
  <2>1. \A v \in Workers : wpc'[v] = "complete" <=> my_job'[v] # NoJob
    BY <1>1, <1>8 DEF JobsInv, JobsHeld
  <2>2. \A e \in Entries : Place(e)' < pjq'.num_queued => pjq'.jobs[e] \in Jobs
    BY <1>7 DEF JobsInv, JobsHeld, Place
  <2> QED BY <2>1, <2>2 DEF JobsHeld
<1>13. OpenJobs' \subseteq OpenJobs
  <2>1. QueuedEntries' = QueuedEntries /\ \A e : pjq'.jobs[e] = pjq.jobs[e]
    BY <1>7 DEF QueuedEntries
  <2>2. \A v \in Popped' : v \in Popped /\ my_job'[v] = my_job[v]
    BY <1>1, <1>8, <1>10 DEF Popped
  <2> QED BY <2>1, <2>2 DEF OpenJobs
<1> QED BY <1>7, <1>9, <1>11, <1>12, <1>13 DEF JobsInv, p

\* What the workers do, and wake-ups for no reason: no job is opened, and the
\* count of pending jobs does not rise.
LEMMA WorkerSteps ==
    ASSUME JobsInv,
           \/ \E w \in Workers, running \in BOOLEAN : JobWorker(w, running)
           \/ \E w \in Workers : CreateWorker(w)
           \/ SpuriousWakeup \/ WaitForJobs
    PROVE  /\ JobsInv' /\ OpenJobs' \subseteq OpenJobs
           /\ pjq'.num_pending <= pjq.num_pending
<1>0. /\ wpc \in [Workers -> WorkerPlaces] /\ asleep \in BOOLEAN /\ pjq.num_pending \in Nat
  BY DEF JobsInv, JobTypes
<1>1. ASSUME NEW w \in Workers, PopJob(w)
      PROVE  /\ JobsInv' /\ OpenJobs' \subseteq OpenJobs
             /\ pjq'.num_pending <= pjq.num_pending
  BY <1>0, <1>1, PopStep
<1>2. ASSUME NEW w \in Workers, complete_job(w)
      PROVE  /\ JobsInv' /\ OpenJobs' \subseteq OpenJobs
             /\ pjq'.num_pending <= pjq.num_pending
  BY <1>0, <1>2, CompleteStep
<1>3. ASSUME NEW w \in Workers, NEW running \in BOOLEAN,
             \/ WorkerTest(w, running) \/ PopWait(w) \/ WorkerWakes(w) \/ CreateWorker(w)
      PROVE  /\ JobsInv' /\ OpenJobs' \subseteq OpenJobs
             /\ pjq'.num_pending <= pjq.num_pending
  <2>1. /\ UNCHANGED <<pjq, my_job>> /\ asleep' \in BOOLEAN
        /\ wpc' \in [Workers -> WorkerPlaces]
        /\ \A v \in Workers : wpc'[v] = "complete" <=> wpc[v] = "complete"
    BY <1>0, <1>3 DEF WorkerTest, PopWait, WorkerWakes, CreateWorker, WorkerPlaces
  <2> QED BY <1>0, <2>1, QueueUntouched
<1>4. CASE BossWakes \/ WaitForJobs
  <2>1. /\ UNCHANGED <<pjq, my_job>> /\ asleep' \in BOOLEAN
        /\ wpc' \in [Workers -> WorkerPlaces]
        /\ \A v \in Workers : wpc'[v] = "complete" <=> wpc[v] = "complete"
    BY <1>0, <1>4 DEF BossWakes, WaitForJobs
  <2> QED BY <1>0, <2>1, QueueUntouched
<1> QED BY <1>1, <1>2, <1>3, <1>4 DEF JobWorker, SpuriousWakeup

------------------------------------------------------------------------------
\* The flows

\* How many flows a DESTIP string asks for, as AddFlows computes it.
FlowCount(d) == Min({IF d.plus = -1 THEN 1 ELSE d.plus + 1, max_flows})
FlowOf(d, k) == [idx |-> k, addr |-> d.addr + k]

LEMMA MinOfTwo ==
    ASSUME NEW a \in Nat, NEW b \in Nat
    PROVE  Min({a, b}) = IF a <= b THEN a ELSE b
<1>1. \E x \in {a, b} : \A y \in {a, b} : x =< y
  OBVIOUS
<1>2. Min({a, b}) \in {a, b} /\ \A y \in {a, b} : Min({a, b}) =< y
  BY <1>1 DEF Min
<1> QED BY <1>2

\* Wanted is one flow for each index below FlowCount.
LEMMA WantedFlows ==
    ASSUME NEW d \in Dest, d.addr > 0, max_flows \in Nat
    PROVE  /\ FlowCount(d) \in Nat
           /\ Wanted(d) = {FlowOf(d, k) : k \in 0 .. FlowCount(d) - 1}
           /\ Cardinality(Wanted(d)) = FlowCount(d)
<1> DEFINE a == d.addr
           plus == d.plus
           asked == IF plus = -1 THEN 1 ELSE plus + 1
           n == FlowCount(d)
<1>1. a \in Int /\ a > 0 /\ (plus \in Nat \/ plus = -1)
  BY DEF Dest
<1>2. asked \in Nat
  BY <1>1
<1>3. n = (IF asked <= max_flows THEN asked ELSE max_flows) /\ n \in Nat
  BY <1>2, MinOfTwo DEF FlowCount
<1>4. ASSUME NEW k \in 0 .. n - 1
      PROVE  FlowOf(d, k) \in Wanted(d)
  <2>1. /\ k \in 0 .. max_flows - 1 /\ a + k \in a .. a + max_flows - 1
        /\ k <= plus \/ k = 0
    BY <1>1, <1>2, <1>3
  <2> QED BY <1>1, <2>1 DEF Wanted, FlowOf
<1>5. ASSUME NEW f \in Wanted(d)
      PROVE  f.idx \in 0 .. n - 1 /\ f = FlowOf(d, f.idx)
  <2>1. /\ f \in [idx : 0 .. max_flows - 1, addr : a .. a + max_flows - 1]
        /\ f.addr = a + f.idx
        /\ f.idx <= plus \/ f.idx = 0
    BY <1>1, <1>5 DEF Wanted
  <2>2. f.idx \in 0 .. n - 1
    <3>1. f.idx \in 0 .. max_flows - 1
      BY <2>1
    <3> QED BY <1>1, <1>2, <1>3, <2>1, <3>1
  <2> QED BY <2>1, <2>2 DEF FlowOf
<1>6. Wanted(d) = {FlowOf(d, k) : k \in 0 .. n - 1}
  BY <1>4, <1>5
<1>7. Cardinality(Wanted(d)) = n
  <2> DEFINE g == [k \in 0 .. n - 1 |-> FlowOf(d, k)]
  <2>1. g \in Bijection(0 .. n - 1, Wanted(d))
    <3>1. g \in [0 .. n - 1 -> Wanted(d)]
      BY <1>4
    <3>2. \A k, m \in 0 .. n - 1 : g[k] = g[m] => k = m
      BY DEF FlowOf
    <3>3. \A f \in Wanted(d) : \E k \in 0 .. n - 1 : g[k] = f
      BY <1>5
    <3> QED BY <3>1, <3>2, <3>3 DEF Bijection, Injection, Surjection, IsInjective
  <2>2. ExistsBijection(0 .. n - 1, Wanted(d))
    BY <2>1 DEF ExistsBijection
  <2>3. IsFiniteSet(0 .. n - 1) /\ Cardinality(0 .. n - 1) = n
    <3> HIDE DEF n
    <3>1. n - 1 \in Int
      BY <1>3
    <3>2. /\ IsFiniteSet(0 .. n - 1)
          /\ Cardinality(0 .. n - 1) = IF 0 > n - 1 THEN 0 ELSE n - 1 - 0 + 1
      BY <3>1, FS_Interval
    <3> QED BY <1>3, <3>2
  <2> QED BY <2>2, <2>3, FS_Bijection
<1> QED BY <1>3, <1>6, <1>7

\* nstreams zero means no flows, and every flow's index is below it.
LEMMA FlowsCounted ==
    ASSUME FlowsInv, ~flowFailed
    PROVE  /\ nstreams = 0 => flows = {}
           /\ \A f \in flows : f.idx \in 0 .. nstreams - 1
<1>1. /\ dest_ip_stream_str \in Dest /\ max_flows \in Nat
      /\ flows = Wanted(dest_ip_stream_str) /\ nstreams = Cardinality(flows)
  BY DEF FlowsInv, FlowTypes, FlowsInForce
<1>2. CASE dest_ip_stream_str.addr > 0
  <2> DEFINE n == FlowCount(dest_ip_stream_str)
  <2>1. n \in Nat /\ nstreams = n /\ flows = {FlowOf(dest_ip_stream_str, k) : k \in 0 .. n - 1}
    BY <1>1, <1>2, WantedFlows
  <2>2. \A k : FlowOf(dest_ip_stream_str, k).idx = k
    BY DEF FlowOf
  <2> QED BY <2>1, <2>2
<1>3. CASE ~(dest_ip_stream_str.addr > 0)
  <2>1. dest_ip_stream_str.addr <= 0
    BY <1>1, <1>3 DEF Dest
  <2>2. flows = {}
    BY <1>1, <2>1 DEF Wanted
  <2> QED BY <2>2
<1> QED BY <1>2, <1>3

LEMMA FlowsInitInv == FlowsInit => FlowsInv
<1> SUFFICES ASSUME FlowsInit PROVE FlowsInv
  OBVIOUS
<1>1. EmptyString \in Dest /\ EmptyString.addr = -1
  BY DEF EmptyString, Dest
<1>2. FlowTypes
  BY <1>1, FlowsAssumption DEF FlowsInit, FlowTypes
<1>3. FlowsInForce
  BY <1>1, FS_EmptySet DEF FlowsInit, FlowsInForce, Wanted
<1> QED BY <1>2, <1>3 DEF FlowsInv

LEMMA FlowsUnchanged ==
    ASSUME FlowsInv, UNCHANGED flowVars
    PROVE  FlowsInv'
BY DEF FlowsInv, FlowTypes, FlowsInForce, Wanted, flowVars

\* The operator writes, or the thread reads: nothing is in force yet.
LEMMA DestSteps ==
    ASSUME FlowsInv, WriteDest \/ ReadDest
    PROVE  FlowsInv'
<1>1. FlowTypes'
  BY FlowsAssumption DEF FlowsInv, FlowTypes, WriteDest, ReadDest
<1>2. UNCHANGED <<NSTRM, max_flows, dest_ip_stream_str, nstreams, flows, flowFailed>>
  BY DEF WriteDest, ReadDest
<1>3. FlowsInForce'
  BY <1>2 DEF FlowsInv, FlowsInForce, Wanted
<1> QED BY <1>1, <1>3 DEF FlowsInv

LEMMA UpdateDestStep ==
    ASSUME FlowsInv, UpdateDest
    PROVE  FlowsInv'
<1> DEFINE new == dest_ip_stream_str_new
<1>0. /\ new \in Dest /\ new.addr \in Int /\ max_flows \in Nat /\ nstreams \in Nat
      /\ flowFailed \in BOOLEAN
  BY DEF FlowsInv, FlowTypes, Dest
<1>1. CASE UNCHANGED flowVars
  BY <1>1, FlowsUnchanged
<1>2. CASE RefuseDest
  <2>1. FlowTypes'
    BY <1>2 DEF FlowsInv, FlowTypes, RefuseDest, StoreDest
  <2>2. /\ UNCHANGED <<max_flows, dest_ip_stream_str, nstreams, flows, flowFailed>>
        /\ NSTRM' = nstreams
    BY <1>2 DEF RefuseDest, StoreDest
  <2>3. FlowsInForce'
    BY <2>2 DEF FlowsInv, FlowsInForce, Wanted
  <2> QED BY <2>1, <2>3 DEF FlowsInv
<1>3. CASE RemoveFlows
  <2>1. PICK kept \in SUBSET (0 .. nstreams - 1) :
          TakeDest(0, FlowCleared((0 .. nstreams - 1) \ kept), kept # {})
    BY <1>3 DEF RemoveFlows
  <2>2. FlowTypes'
    BY <2>1 DEF FlowsInv, FlowTypes, TakeDest, StoreDest
  <2>3. ASSUME ~flowFailed'
        PROVE  FlowsInForce'
    <3>1. ~flowFailed /\ kept = {}
      BY <1>0, <2>1, <2>3 DEF TakeDest
    <3>2. flows' = {f \in flows : f.idx \notin (0 .. nstreams - 1) \ kept}
      BY <2>1 DEF TakeDest, FlowCleared
    <3>3. flows' = {}
      BY <3>1, <3>2, FlowsCounted
    <3>4. /\ dest_ip_stream_str' = new /\ nstreams' = 0 /\ NSTRM' = 0
          /\ new.addr = 0
      BY <1>3, <2>1 DEF TakeDest, StoreDest, RemoveFlows
    <3>5. Wanted(dest_ip_stream_str)' = {}
      BY <3>4 DEF Wanted
    <3> QED BY <3>3, <3>4, <3>5, FS_EmptySet DEF FlowsInForce
  <2> QED BY <2>2, <2>3 DEF FlowsInv, FlowsInForce
<1>4. CASE AddFlows
  <2>0. new.addr > 0 /\ Requested = FlowCount(new)
    BY <1>4 DEF AddFlows, Requested, FlowCount
  <2>1. /\ FlowCount(new) \in Nat
        /\ Wanted(new) = {FlowOf(new, k) : k \in 0 .. FlowCount(new) - 1}
        /\ Cardinality(Wanted(new)) = FlowCount(new)
    BY <1>0, <2>0, WantedFlows
  <2>2. PICK added \in 0 .. FlowCount(new) :
          TakeDest(FlowCount(new), FlowSet(0 .. added - 1, new.addr), added < FlowCount(new))
    BY <1>4, <2>0 DEF AddFlows
  <2>3. FlowTypes'
    BY <1>0, <2>1, <2>2 DEF FlowsInv, FlowTypes, TakeDest, StoreDest
  <2>4. ASSUME ~flowFailed'
        PROVE  FlowsInForce'
    <3>1. ~flowFailed /\ added = FlowCount(new)
      <4>1. flowFailed' = (flowFailed \/ added < FlowCount(new))
        BY <2>2 DEF TakeDest
      <4>2. ~flowFailed /\ ~(added < FlowCount(new))
        BY <2>4, <4>1
      <4>3. added \in 0 .. FlowCount(new)
        BY <2>2
      <4> QED BY <2>1, <4>2, <4>3
    <3>2. nstreams = 0
      <4>1. new # Zeros
        BY <2>0 DEF Zeros
      <4> QED BY <1>4, <4>1 DEF AddFlows, SwitchAllowed
    <3>3. flows = {}
      BY <3>1, <3>2, FlowsCounted
    <3>4. flows' = {FlowOf(new, k) : k \in 0 .. FlowCount(new) - 1}
      BY <2>2, <3>1, <3>3 DEF TakeDest, FlowSet, FlowCleared, FlowOf
    <3>5. /\ dest_ip_stream_str' = new /\ nstreams' = FlowCount(new)
          /\ NSTRM' = FlowCount(new) /\ max_flows' = max_flows
      BY <2>2 DEF TakeDest, StoreDest
    <3>6. Wanted(dest_ip_stream_str)' = Wanted(new)
      BY <3>5 DEF Wanted
    <3> QED BY <2>1, <3>4, <3>5, <3>6 DEF FlowsInForce
  <2> QED BY <2>3, <2>4 DEF FlowsInv, FlowsInForce
<1> QED BY <1>1, <1>2, <1>3, <1>4 DEF UpdateDest

------------------------------------------------------------------------------
\* The open jobs and the blocks

\* With nothing pending, a step that does not push makes no job open.
LEMMA WithinNothing ==
    ASSUME JobsInv, pjq.num_pending = 0, UNCHANGED jobVars
    PROVE  WithinInv'
<1>1. OpenJobs' = {}
  BY NothingPending, JobsUnchanged
<1>2. pjq'.num_pending = 0
  BY DEF jobVars
<1> QED BY <1>1, <1>2 DEF WithinInv, JobsWithinBlocks

\* A step keeps jobs within their blocks if it opens none, keeps its input
\* block, frees none and hands none downstream.
LEMMA WithinKept ==
    ASSUME AllInv, JobsInv', OpenJobs' \subseteq OpenJobs,
           pjq'.num_pending <= pjq.num_pending,
           block_idx_in' = block_idx_in, wblk' = wblk,
           \A b \in InBlocks : inFilled[b] => inFilled'[b],
           \A b \in OutBlocks : filled'[b] => filled[b],
           opc' = opc \/ opc' \in {"packet", "manage"}
    PROVE  WithinInv'
<1>1. JobsWithinBlocks'
  <2> SUFFICES ASSUME NEW job \in OpenJobs'
               PROVE  /\ inFilled'[job.src] /\ job.src = block_idx_in'
                      /\ ~filled'[job.dst] /\ \E k \in 0 .. 1 : wblk'[k].idx = job.dst
    BY DEF JobsWithinBlocks
  <2>1. /\ inFilled[job.src] /\ job.src = block_idx_in
        /\ ~filled[job.dst] /\ \E k \in 0 .. 1 : wblk[k].idx = job.dst
    BY DEF AllInv, WithinInv, JobsWithinBlocks
  <2>2. job.src \in InBlocks /\ job.dst \in OutBlocks
    <3>1. OuterInv /\ block_idx_in \in InBlocks
      BY DEF AllInv, OuterInv, TypeOK, InBlocks
    <3>2. \A k \in 0 .. 1 : wblk[k].idx \in OutBlocks
      BY <3>1, WorkingBlocks
    <3> QED BY <2>1, <3>1, <3>2
  <2> QED BY <2>1, <2>2
<1>2. ASSUME opc' \in {"wait", "done", "waitfree"}
      PROVE  pjq'.num_pending = 0
  <2>1. pjq.num_pending = 0
    BY <1>2 DEF AllInv, WithinInv
  <2>2. pjq'.num_pending \in Nat
    BY DEF JobsInv, JobTypes
  <2> QED BY <2>1, <2>2
<1> QED BY <1>1, <1>2 DEF WithinInv

LEMMA AllInitInv == AllInit => AllInv
<1> SUFFICES ASSUME AllInit PROVE AllInv
  OBVIOUS
<1>1. OuterInv /\ JobsInv /\ FlowsInv
  BY InitOuterInv, JobsInitInv, FlowsInitInv DEF AllInit
<1>2. pjq.num_pending = 0
  BY DEF AllInit, JobsInit
<1>3. WithinInv
  BY <1>1, <1>2, NothingPending DEF WithinInv, JobsWithinBlocks
<1> QED BY <1>1, <1>3 DEF AllInv

\* The thread alone: it has waited for its jobs wherever it gives up a block.
LEMMA BossSteps ==
    ASSUME AllInv, BossStep
    PROVE  AllInv'
<1> USE DEF inRing, outRing, counts
<1>1. OuterInv /\ JobsInv /\ WithinInv /\ FlowsInv
  BY DEF AllInv
<1>2. JobsInv' /\ OpenJobs' = OpenJobs /\ FlowsInv' /\ UNCHANGED jobVars
  BY <1>1, JobsUnchanged, FlowsUnchanged DEF BossStep
<1>3. OuterInv'
  BY <1>1, WaitSteps, PacketSteps, AdvanceStep, WaitFreeStep, ResetStep DEF BossStep
<1>4. WithinInv'
  <2>1. CASE Leave \/ DropInput \/ TakeInput \/ WaitForBlockFree
    <3>1. opc \in {"wait", "waitfree"}
      BY <2>1 DEF Leave, DropInput, TakeInput, WaitForBlockFree
    <3> QED BY <1>1, <1>2, <3>1, WithinNothing DEF WithinInv
  <2>2. CASE EndInput \/ AdvanceBlocks \/ ResetBlocks
    <3>1. NeedsJobsDone
      BY <2>2 DEF EndInput, AdvanceBlocks, ResetBlocks, NeedsJobsDone
    <3>2. pjq.num_pending = 0
      BY <3>1 DEF BossStep, JobsCompleted
    <3> QED BY <1>1, <1>2, <3>2, WithinNothing
  <2>3. CASE IgnorePacket \/ UpdateStatus \/ LatePacket
    <3>1. /\ UNCHANGED <<inRing, outRing, block_idx_in, wblk>>
          /\ opc' \in {"packet", "manage"}
      BY <2>3 DEF IgnorePacket, UpdateStatus, LatePacket
    <3>2. pjq' = pjq /\ pjq.num_pending \in Nat
      BY <1>1, <1>2 DEF jobVars, JobsInv, JobTypes
    <3> QED BY <1>2, <3>1, <3>2, WithinKept
  <2> QED BY <2>1, <2>2, <2>3 DEF BossStep
<1> QED BY <1>2, <1>3, <1>4 DEF AllInv

\* A pushed job is from the thread's input block to one of its working blocks.
LEMMA PushPacketStep ==
    ASSUME AllInv, PushPacket
    PROVE  AllInv'
<1> USE DEF inRing, outRing, counts
<1>1. OuterInv /\ JobsInv /\ WithinInv /\ FlowsInv
  BY DEF AllInv
<1>2. PICK k \in 0 .. 1 : k = BlkNum(p_u8pkt) - wblk[0].num
  BY DEF PushPacket
<1>3. PICK job : job = [src |-> block_idx_in, pkt |-> i, dst |-> wblk[k].idx]
  OBVIOUS
<1>4. /\ push_job(job) /\ opc \in {"manage", "store"} /\ opc' = "packet"
      /\ wblk' = [wblk EXCEPT ![k].pkts = pkts_per_block, ![k].pktidxs = pktidx_per_block,
                              ![k].npacket = @ + 1]
      /\ UNCHANGED <<inRing, outRing, block_idx_in, flowVars>>
  BY <1>2, <1>3 DEF PushPacket
<1>5. /\ wblk \in [0 .. 1 -> BlockInfos] /\ block_idx_in \in InBlocks
      /\ inFilled[block_idx_in] /\ i <= npkts_per_block_in
      /\ i \in 1 .. npkts_per_block_in + 1
  BY <1>1, <1>4 DEF OuterInv, TypeOK, AtPacket, BlockInfos, InBlocks, OutBlocks
<1>6. /\ wblk[k].idx \in OutBlocks /\ ~filled[wblk[k].idx]
  BY <1>1, <1>4, WorkingBlocks DEF OuterInv, RingInv
<1>7. job \in Jobs
  <2>1. i \in 1 .. npkts_per_block_in
    BY <1>5, BlockAssumption
  <2> QED BY <1>3, <1>5, <1>6, <2>1 DEF Jobs, InBlocks, OutBlocks
<1>8. JobsInv' /\ OpenJobs' \subseteq OpenJobs \cup {job}
  BY <1>1, <1>4, <1>7, PushStep
<1>9. OuterInv'
  <2>1. CountPacket
    BY DEF PushPacket, CountPacket
  <2>2. data' \in [OutBlocks -> [Cells -> Packets \cup {Bad}]]
    BY <1>1, <1>4 DEF OuterInv, TypeOK, OutBlocks
  <2> QED BY <1>1, <2>1, <2>2, CountStep
<1>10. FlowsInv'
  BY <1>1, <1>4, FlowsUnchanged
<1>11. \A m \in 0 .. 1 : wblk'[m].idx = wblk[m].idx
  BY <1>4, <1>5 DEF BlockInfos
<1>12. WithinInv'
  <2>1. ASSUME NEW j \in OpenJobs'
        PROVE  /\ inFilled'[j.src] /\ j.src = block_idx_in'
               /\ ~filled'[j.dst] /\ \E m \in 0 .. 1 : wblk'[m].idx = j.dst
    <3>1. CASE j \in OpenJobs
      BY <1>1, <1>4, <1>11, <3>1 DEF WithinInv, JobsWithinBlocks
    <3>2. CASE j = job
      BY <1>3, <1>4, <1>5, <1>6, <1>11, <3>2
    <3> QED BY <1>8, <3>1, <3>2
  <2> QED BY <1>4, <2>1 DEF WithinInv, JobsWithinBlocks
<1> QED BY <1>8, <1>9, <1>10, <1>12 DEF AllInv

\* Steps of the queue alone.
LEMMA JobSteps ==
    ASSUME AllInv, UNCHANGED <<vars, flowVars>>,
           \/ \E w \in Workers : JobWorker(w, run_threads)
           \/ \E w \in Workers : CreateWorker(w)
           \/ SpuriousWakeup \/ WaitForJobs \/ UNCHANGED jobVars
    PROVE  AllInv'
<1> USE DEF vars, inRing, outRing, counts
<1>1. OuterInv /\ JobsInv /\ WithinInv /\ FlowsInv
  BY DEF AllInv
<1>2. OuterInv' /\ FlowsInv'
  BY <1>1, NextOuterInv, FlowsUnchanged
<1>3. /\ JobsInv' /\ OpenJobs' \subseteq OpenJobs
      /\ pjq'.num_pending <= pjq.num_pending
  <2>1. CASE UNCHANGED jobVars
    <3>1. pjq' = pjq /\ pjq.num_pending \in Nat
      BY <1>1, <2>1 DEF jobVars, JobsInv, JobTypes
    <3> QED BY <1>1, <2>1, <3>1, JobsUnchanged
  <2>2. \A w \in Workers : JobWorker(w, run_threads) =>
          \E running \in BOOLEAN : JobWorker(w, running)
    <3>1. ASSUME NEW w \in Workers PROVE WorkerTest(w, run_threads) =>
             WorkerTest(w, TRUE) \/ WorkerTest(w, FALSE)
      BY DEF WorkerTest
    <3> QED BY <3>1 DEF JobWorker
  <2> QED BY <1>1, <2>1, <2>2, WorkerSteps
<1>4. WithinInv'
  BY <1>3, WithinKept
<1> QED BY <1>2, <1>3, <1>4 DEF AllInv

\* The neighbours on the rings.
LEMMA RingSteps ==
    ASSUME AllInv, UNCHANGED <<jobVars, flowVars>>, Fill \/ Consume \/ StopThreads
    PROVE  AllInv'
<1> USE DEF inRing, outRing, counts
<1>1. OuterInv /\ JobsInv /\ WithinInv /\ FlowsInv
  BY DEF AllInv
<1>2. JobsInv' /\ OpenJobs' = OpenJobs /\ FlowsInv'
  BY <1>1, JobsUnchanged, FlowsUnchanged
<1>3. OuterInv'
  BY <1>1, FillStep, ConsumeStep, WaitSteps
<1>4. pjq' = pjq /\ pjq.num_pending \in Nat
  BY <1>1 DEF jobVars, JobsInv, JobTypes
<1>5. /\ UNCHANGED <<block_idx_in, wblk, opc>>
      /\ \A b \in InBlocks : inFilled[b] => inFilled'[b]
      /\ \A b \in OutBlocks : filled'[b] => filled[b]
  BY <1>1 DEF Fill, Consume, StopThreads, OuterInv, TypeOK, InBlocks, OutBlocks
<1>6. WithinInv'
  BY <1>2, <1>4, <1>5, WithinKept
<1> QED BY <1>2, <1>3, <1>6 DEF AllInv

LEMMA NextAllInv == AllInv /\ [AllNext]_allVars => AllInv'
<1> SUFFICES ASSUME AllInv, [AllNext]_allVars PROVE AllInv'
  OBVIOUS
<1>1. OuterInv /\ JobsInv /\ WithinInv /\ FlowsInv
  BY DEF AllInv
<1>2. CASE UNCHANGED allVars
  BY <1>2, JobSteps DEF allVars
<1>3. CASE InitThread \/ StartRun \/ CreateFails \/ CreateWorkers \/ BossSleeps
  BY <1>3, JobSteps DEF InitThread, StartRun, CreateFails, CreateWorkers, BossSleeps
<1>4. CASE Second
  <2>1. OuterInv' /\ FlowsInv' /\ JobsInv'
    BY <1>1, <1>4, WaitSteps, DestSteps, JobsUnchanged DEF Second
  <2>2. pjq.num_pending = 0
    BY <1>1, <1>4 DEF Second, NextSecond, WithinInv
  <2>3. WithinInv'
    BY <1>1, <1>4, <2>2, WithinNothing DEF Second
  <2> QED BY <2>1, <2>3 DEF AllInv
<1>5. CASE ChangeDest \/ (WriteDest /\ UNCHANGED <<vars, jobVars, stage>>)
  <2>1. UNCHANGED <<vars, jobVars>> /\ FlowsInv'
    BY <1>1, <1>5, UpdateDestStep, DestSteps DEF ChangeDest
  <2>2. OuterInv' /\ JobsInv' /\ OpenJobs' = OpenJobs
    BY <1>1, <2>1, NextOuterInv, JobsUnchanged
  <2>3. pjq' = pjq /\ pjq.num_pending \in Nat
    BY <1>1, <2>1 DEF jobVars, JobsInv, JobTypes
  <2>4. WithinInv'
    BY <2>1, <2>2, <2>3, WithinKept DEF vars, inRing, outRing, counts
  <2> QED BY <2>1, <2>2, <2>4 DEF AllInv
<1>6. CASE BossStep \/ PushPacket
  BY <1>6, BossSteps, PushPacketStep
<1>7. CASE \E w \in Workers : WorkerStep(w)
  BY <1>7, JobSteps DEF WorkerStep
<1>8. CASE Arrive \/ ((Consume \/ StopThreads) /\ UNCHANGED <<jobVars, flowVars, stage>>)
  BY <1>8, RingSteps DEF Arrive
<1>9. CASE SpuriousWakeup /\ UNCHANGED <<vars, flowVars, stage>>
  BY <1>9, JobSteps
<1> QED BY <1>2, <1>3, <1>4, <1>5, <1>6, <1>7, <1>8, <1>9 DEF AllNext, Boss, Neighbours

------------------------------------------------------------------------------
\* push_job, pop_job and complete_job keep their counts for any number of
\* workers and any size of the queue, whoever wakes when: num_pending is zero
\* only when no job is queued and no worker is at one.
THEOREM JobCounts == AllSpec => []JobsCounted
<1>1. AllInv => JobsCounted
  BY DEF AllInv, JobsInv
<1> QED BY <1>1, AllInitInv, NextAllInv, PTL DEF AllSpec

\* wait_for_job_completion is called wherever a block changes hands: a worker
\* never copies from a freed input block or into a block handed downstream.
THEOREM JobsStayWithin == AllSpec => []JobsWithinBlocks
<1>1. AllInv => JobsWithinBlocks
  BY DEF AllInv, WithinInv
<1> QED BY <1>1, AllInitInv, NextAllInv, PTL DEF AllSpec

\* For any DESTIP strings and any MAXFLOWS, the flows installed are those of
\* the destination in force until the first failure.
THEOREM FlowsStayInForce == AllSpec => []FlowsInForce
<1>1. AllInv => FlowsInForce
  BY DEF AllInv, FlowsInv
<1> QED BY <1>1, AllInitInv, NextAllInv, PTL DEF AllSpec

\* Building with USE_WORKER_THREADS does not disturb the order of the output
\* ring.
THEOREM WorkersKeepOrder == AllSpec => [](NextBlockComes /\ HandedInSequence)
<1>1. AllInv => NextBlockComes /\ HandedInSequence
  BY WorkingBlocks DEF AllInv, NextBlockComes, OuterInv, SequenceInv
<1> QED BY <1>1, AllInitInv, NextAllInv, PTL DEF AllSpec
==============================================================================

------------------------------- MODULE UdpBuff -------------------------------
(***************************************************************************)
(* The buffer pool of full_custom/common.c at the granularity of its two   *)
(* mutexes: dataMutex guards orderNo and dataLen, NReadyMutex guards the   *)
(* counter NReady.  Any number of threads call its five operations in any  *)
(* order; the only discipline asked of a caller is the one the source      *)
(* asserts ("data integrity!"): a thread returns only a buffer it was      *)
(* given.  A step is the work between two lock operations; nothing another *)
(* thread can see happens in the middle of one.                            *)
(***************************************************************************)
EXTENDS PoolOps, FiniteSets

CONSTANTS
    Threads,        \* the threads sharing the pool
    noBuffers,      \* how many buffers it has (N_UDP_BUFFERS, N_FILE_BUFFERS)
    MaxOrder,       \* bound: the highest order number a thread publishes
    IntMax,         \* INT_MAX, findLowest's starting value
    Lens,           \* the data lengths a thread publishes
    NoThread        \* a mutex that nobody holds

ASSUME ThreadsAssumption == IsFiniteSet(Threads) /\ NoThread \notin Threads
ASSUME SizeAssumption    == noBuffers \in Nat \ {0}
ASSUME LensAssumption    == Lens # {}
ASSUME OrderAssumption   == MaxOrder \in Nat \ {0} /\ IntMax \in Nat
\* Order numbers stay below INT_MAX: what findLowest needs to find them.
ASSUME NoOrderOverflow   == MaxOrder < IntMax

Buffers == 0 .. noBuffers - 1
Orders  == 1 .. MaxOrder

VARIABLES
    orderNo,        \* the pool: Buffers -> 0, -1 or an order number
    dataLen,        \* Buffers -> length of the published data
    NReady,         \* how many published buffers have not been promised yet
    dataMutex,      \* the owner of dataMutex
    NReadyMutex,    \* the owner of NReadyMutex
    keep_going,     \* the process-wide run flag
    failed,         \* error("data integrity!") has ended the process
    pc,             \* where each thread is in its call
    arg,            \* the arguments of that call
    copy,           \* anyBufFull's private copy of the structure
    held            \* the buffers each thread was given and has not returned

shared == <<orderNo, dataLen, NReady, failed>>
mutexes == <<dataMutex, NReadyMutex>>
vars == <<orderNo, dataLen, NReady, dataMutex, NReadyMutex, keep_going,
          failed, pc, arg, copy, held>>

\* Where a thread can be: outside the pool, waiting for a mutex (feLock,
\* rbLock, rbLockN, reLock, fbLockN, fbLock, abLock) or behind one.
PCs == {"idle", "feLock", "feBody",
        "rbLock", "rbBody", "rbLockN", "rbInc", "rbUnlock",
        "reLock", "reBody",
        "fbLockN", "fbTest", "fbLock", "fbBody",
        "abCopy", "abLock"}

\* The arguments of a call live until it returns; NoArg between calls.
Args == [index : Buffers, order : Orders, len : Lens]
NoArg == [index |-> 0, order |-> 1, len |-> CHOOSE l \in Lens : TRUE]

\* The two fields of the by-value copy that matter, until they are copied
\* "unread" and -1.
Copies == [mutex : {"unread", "free", "locked"}, count : -1 .. noBuffers]
NoCopy == [mutex |-> "unread", count |-> -1]

Ready == {b \in Buffers : orderNo[b] > 0}

\* init_udpBuff: every buffer empty, both mutexes free.  dataLen is malloc'd
\* and not cleared: any value.
Init ==
    /\ orderNo = [b \in Buffers |-> Empty]
    /\ dataLen \in [Buffers -> Lens]
    /\ NReady = 0
    /\ dataMutex = NoThread
    /\ NReadyMutex = NoThread
    /\ keep_going = TRUE
    /\ failed = FALSE
    /\ pc = [t \in Threads |-> "idle"]
    /\ arg = [t \in Threads |-> NoArg]
    /\ copy = [t \in Threads |-> NoCopy]
    /\ held = [t \in Threads |-> {}]

------------------------------------------------------------------------------
\* Control and locking.

Goto(t, from, to) ==
    /\ ~failed
    /\ pc[t] = from
    /\ pc' = [pc EXCEPT ![t] = to]

LockData(t, from, to) ==
    /\ Goto(t, from, to)
    /\ dataMutex = NoThread
    /\ dataMutex' = t
    /\ UNCHANGED <<shared, NReadyMutex, keep_going, arg, copy, held>>

LockNReady(t, from, to) ==
    /\ Goto(t, from, to)
    /\ NReadyMutex = NoThread
    /\ NReadyMutex' = t
    /\ UNCHANGED <<shared, dataMutex, keep_going, arg, copy, held>>

UnlockData   == dataMutex' = NoThread   /\ UNCHANGED NReadyMutex
UnlockNReady == NReadyMutex' = NoThread /\ UNCHANGED dataMutex

------------------------------------------------------------------------------
\* fetchEmptyBuffer

FeCall(t) ==
    /\ Goto(t, "idle", "feLock")
    /\ UNCHANGED <<shared, mutexes, keep_going, arg, copy, held>>

FeLock(t) == LockData(t, "feLock", "feBody")

\* Nothing empty: the call returns -1.
FeNone(t) ==
    /\ Goto(t, "feBody", "idle")
    /\ findEmpty(orderNo) = NotFound
    /\ UnlockData
    /\ UNCHANGED <<shared, keep_going, arg, copy, held>>

FeTake(t) ==
    /\ Goto(t, "feBody", "idle")
    /\ findEmpty(orderNo) # NotFound
    /\ orderNo' = [orderNo EXCEPT ![findEmpty(orderNo)] = InUse]
    /\ held' = [held EXCEPT ![t] = @ \cup {findEmpty(orderNo)}]
    /\ UnlockData
    /\ UNCHANGED <<dataLen, NReady, keep_going, failed, arg, copy>>

------------------------------------------------------------------------------
\* returnBuffer: lock dataMutex, assert the buffer is in use, fill in its
\* entry, then count it under NReadyMutex, taken inside dataMutex.

RbCall(t) == \E a \in Args :
    /\ Goto(t, "idle", "rbLock")
    /\ a.index \in held[t]
    /\ arg' = [arg EXCEPT ![t] = a]
    /\ UNCHANGED <<shared, mutexes, keep_going, copy, held>>

RbLock(t) == LockData(t, "rbLock", "rbBody")

RbBody(t) ==
    /\ Goto(t, "rbBody", "rbLockN")
    /\ failed' = (orderNo[arg[t].index] # InUse)
    /\ IF failed'
       THEN UNCHANGED <<orderNo, dataLen, held>>
       ELSE /\ orderNo' = [orderNo EXCEPT ![arg[t].index] = arg[t].order]
            /\ dataLen' = [dataLen EXCEPT ![arg[t].index] = arg[t].len]
            /\ held' = [held EXCEPT ![t] = @ \ {arg[t].index}]
    /\ UNCHANGED <<NReady, mutexes, keep_going, arg, copy>>

RbLockN(t) == LockNReady(t, "rbLockN", "rbInc")

RbInc_NotCounted(t) ==
    /\ Goto(t, "rbInc", "rbUnlock")
    /\ UnlockNReady
    /\ UNCHANGED <<shared, keep_going, arg, copy, held>>

RbInc(t) ==
    /\ Goto(t, "rbInc", "rbUnlock")
    /\ NReady' = NReady + 1
    /\ UnlockNReady
    /\ UNCHANGED <<orderNo, dataLen, keep_going, failed, arg, copy, held>>

RbUnlock(t) ==
    /\ Goto(t, "rbUnlock", "idle")
    /\ UnlockData
    /\ arg' = [arg EXCEPT ![t] = NoArg]
    /\ UNCHANGED <<shared, keep_going, copy, held>>

------------------------------------------------------------------------------
\* returnEmptyBuffer

ReCall(t) == \E b \in held[t] :
    /\ Goto(t, "idle", "reLock")
    /\ arg' = [arg EXCEPT ![t].index = b]
    /\ UNCHANGED <<shared, mutexes, keep_going, copy, held>>

ReLock(t) == LockData(t, "reLock", "reBody")

ReBody(t) ==
    /\ Goto(t, "reBody", "idle")
    /\ failed' = (orderNo[arg[t].index] # InUse)
    /\ IF failed'
       THEN UNCHANGED <<orderNo, held>>
       ELSE /\ orderNo' = [orderNo EXCEPT ![arg[t].index] = Empty]
            /\ held' = [held EXCEPT ![t] = @ \ {arg[t].index}]
    /\ UnlockData
    /\ arg' = [arg EXCEPT ![t] = NoArg]
    /\ UNCHANGED <<dataLen, NReady, keep_going, copy>>

------------------------------------------------------------------------------
\* fetchBuffer: take a promise off NReady under NReadyMutex, polling until
\* there is one or the run is over; then collect it under dataMutex.

FbCall(t) ==
    /\ Goto(t, "idle", "fbLockN")
    /\ UNCHANGED <<shared, mutexes, keep_going, arg, copy, held>>

FbLockN(t) == LockNReady(t, "fbLockN", "fbTest")

FbPromised_NotTaken(t) ==
    /\ Goto(t, "fbTest", "fbLock")
    /\ NReady > 0
    /\ UnlockNReady
    /\ UNCHANGED <<shared, keep_going, arg, copy, held>>

FbPromised(t) ==
    /\ Goto(t, "fbTest", "fbLock")
    /\ NReady > 0
    /\ NReady' = NReady - 1
    /\ UnlockNReady
    /\ UNCHANGED <<orderNo, dataLen, keep_going, failed, arg, copy, held>>

FbPoll_KeepsLock(t) ==
    /\ Goto(t, "fbTest", "fbTest")
    /\ NReady = 0
    /\ keep_going
    /\ UNCHANGED <<shared, mutexes, keep_going, arg, copy, held>>

FbPoll(t) ==
    /\ Goto(t, "fbTest", "fbLockN")
    /\ NReady = 0
    /\ keep_going
    /\ UnlockNReady
    /\ UNCHANGED <<shared, keep_going, arg, copy, held>>

FbGiveUp_Polls(t) ==
    /\ Goto(t, "fbTest", "fbLockN")
    /\ NReady = 0
    /\ ~keep_going
    /\ UnlockNReady
    /\ UNCHANGED <<shared, keep_going, arg, copy, held>>

FbGiveUp(t) ==
    /\ Goto(t, "fbTest", "idle")
    /\ NReady = 0
    /\ ~keep_going
    /\ UnlockNReady
    /\ UNCHANGED <<shared, keep_going, arg, copy, held>>

FbLock(t) == LockData(t, "fbLock", "fbBody")

\* The buffer of lowest order; with none (index -1) the call returns -1 and
\* the promise is spent.
FbBody(t) ==
    LET b == findLowest(orderNo, IntMax) IN
    /\ Goto(t, "fbBody", "idle")
    /\ IF b = NotFound
       THEN UNCHANGED <<orderNo, held>>
       ELSE /\ orderNo' = [orderNo EXCEPT ![b] = InUse]
            /\ held' = [held EXCEPT ![t] = @ \cup {b}]
    /\ UnlockData
    /\ UNCHANGED <<dataLen, NReady, keep_going, failed, arg, copy>>

------------------------------------------------------------------------------
\* anyBufFull takes the structure by value: the compiler copies NReadyMutex
\* and NReady, without a lock and in an order of its choosing, and the call
\* then locks and unlocks the copy.  A copy made while the mutex was held is
\* a locked mutex that nobody will ever unlock: the call never returns.

AbCall(t) ==
    /\ Goto(t, "idle", "abCopy")
    /\ copy' = [copy EXCEPT ![t] = NoCopy]
    /\ UNCHANGED <<shared, mutexes, keep_going, arg, held>>

AbCopyMutex(t) ==
    /\ copy[t].mutex = "unread"
    /\ Goto(t, "abCopy", IF copy[t].count = -1 THEN "abCopy" ELSE "abLock")
    /\ copy' = [copy EXCEPT ![t].mutex = IF NReadyMutex = NoThread
                                         THEN "free" ELSE "locked"]
    /\ UNCHANGED <<shared, mutexes, keep_going, arg, held>>

AbCopyCount(t) ==
    /\ copy[t].count = -1
    /\ Goto(t, "abCopy", IF copy[t].mutex = "unread" THEN "abCopy" ELSE "abLock")
    /\ copy' = [copy EXCEPT ![t].count = NReady]
    /\ UNCHANGED <<shared, mutexes, keep_going, arg, held>>

\* lock, NReady++ and unlock, all on the copy; the copied count is returned.
AbReturn(t) ==
    /\ Goto(t, "abLock", "idle")
    /\ copy[t].mutex = "free"
    /\ copy' = [copy EXCEPT ![t] = NoCopy]
    /\ UNCHANGED <<shared, mutexes, keep_going, arg, held>>

Hung(t) == pc[t] = "abLock" /\ copy[t].mutex = "locked"

------------------------------------------------------------------------------
\* inthandler, or a thread that ends the run: keep_going = 0.
Stop ==
    /\ keep_going
    /\ keep_going' = FALSE
    /\ UNCHANGED <<shared, mutexes, pc, arg, copy, held>>

Call(t) == FeCall(t) \/ RbCall(t) \/ ReCall(t) \/ FbCall(t) \/ AbCall(t)

Acquire(t) == \/ FeLock(t) \/ RbLock(t) \/ RbLockN(t) \/ ReLock(t)
              \/ FbLockN(t) \/ FbLock(t)

Work(t) == \/ FeNone(t) \/ FeTake(t)
           \/ RbBody(t) \/ RbInc(t) \/ RbUnlock(t)
           \/ ReBody(t)
           \/ FbPromised(t) \/ FbPoll(t) \/ FbGiveUp(t) \/ FbBody(t)
           \/ AbCopyMutex(t) \/ AbCopyCount(t) \/ AbReturn(t)

Next == Stop \/ \E t \in Threads : Call(t) \/ Acquire(t) \/ Work(t)

Spec == Init /\ [][Next]_vars

\* A running thread keeps running, and a thread waiting for a mutex that is
\* freed again and again gets it in the end.  Nobody is obliged to make a
\* call or to end the run.
Fairness == \A t \in Threads : WF_vars(Work(t)) /\ SF_vars(Acquire(t))

FairSpec == Spec /\ Fairness

------------------------------------------------------------------------------
\* Properties

\* The types of the pool's fields and of each thread's local state in
\* full_custom/common.c.
TypeOK ==
    /\ orderNo \in [Buffers -> {InUse, Empty} \cup Orders]
    /\ dataLen \in [Buffers -> Lens]
    /\ NReady \in 0 .. noBuffers
    /\ dataMutex \in Threads \cup {NoThread}
    /\ NReadyMutex \in Threads \cup {NoThread}
    /\ keep_going \in BOOLEAN
    /\ failed \in BOOLEAN
    /\ pc \in [Threads -> PCs]
    /\ arg \in [Threads -> Args]
    /\ copy \in [Threads -> Copies]
    /\ held \in [Threads -> SUBSET Buffers]

\* Every buffer marked in use (orderNo -1) is in the hands of exactly one
\* thread, and a buffer marked empty or ready in nobody's: no two of the
\* udp, worker and file threads ever write or read the same data[b].
ExclusiveOwnership ==
    /\ \A b \in Buffers : orderNo[b] = InUse <=> \E t \in Threads : b \in held[t]
    /\ \A t, u \in Threads : t # u => held[t] \cap held[u] = {}

\* A thread that took a promise off NReady in fetchBuffer finds a ready
\* buffer behind dataMutex, however many threads fetch at once: the -1 path
\* of fetchBuffer, which would lose a promise, is never taken.
PromiseKept ==
    \A t \in Threads : pc[t] = "fbBody" => findLowest(orderNo, IntMax) # NotFound

\* The "data integrity!" assertions of returnBuffer and returnEmptyBuffer
\* never fire for threads that return only what they were given.
NoIntegrityError == ~failed

\* The inductive invariant behind the four properties above, as the threads
\* of full_custom/common.c maintain it.

\* A mutex is held exactly by the thread that is between its lock and its
\* unlock; returnBuffer keeps dataMutex while it takes NReadyMutex.
BehindData == {"feBody", "rbBody", "rbLockN", "rbInc", "rbUnlock", "reBody", "fbBody"}
BehindNReady == {"rbInc", "fbTest"}

LockInv == \A t \in Threads :
    /\ dataMutex = t <=> pc[t] \in BehindData
    /\ NReadyMutex = t <=> pc[t] \in BehindNReady

\* Until a return takes effect its caller has the buffer it returns.
Returning == {"rbLock", "rbBody", "reLock", "reBody"}
ArgInv == \A t \in Threads : pc[t] \in Returning => arg[t].index \in held[t]

\* The ready buffers are those NReady still offers, plus one per fetchBuffer
\* that took a promise and has not collected it, plus the one a returnBuffer
\* has filled in and not counted yet.
Promised == {t \in Threads : pc[t] \in {"fbLock", "fbBody"}}
Uncounted == {t \in Threads : pc[t] \in {"rbLockN", "rbInc"}}
PromiseCount ==
    Cardinality(Ready) = NReady + Cardinality(Promised) + Cardinality(Uncounted)

PoolInv == /\ TypeOK
           /\ LockInv
           /\ ArgInv
           /\ ExclusiveOwnership
           /\ PromiseCount
           /\ NoIntegrityError

\* The pool implements its abstract specification: each call takes effect at
\* one step, a fetched buffer is the one of lowest order and carries the
\* order number and the length it was published with.
Holder(b) == IF \E t \in Threads : b \in held[t]
             THEN CHOOSE t \in Threads : b \in held[t]
             ELSE NoThread

Owners == [b \in Buffers |-> Holder(b)]
Entry(b) == [buf |-> b, order |-> orderNo[b], len |-> dataLen[b]]
Entries == {Entry(b) : b \in Ready}

Abstract == INSTANCE OrderedPool WITH owner <- Owners, queue <- Entries

Refines == Abstract!Spec

\* No thread keeps a mutex for ever: the nested locking of returnBuffer
\* (NReadyMutex inside dataMutex) never deadlocks with fetchBuffer, which
\* takes the two one after the other, nor with a thread hung in anyBufFull.
LocksReleased ==
    \A t \in Threads : /\ (dataMutex = t) ~> (dataMutex # t)
                       /\ (NReadyMutex = t) ~> (NReadyMutex # t)

\* Once keep_going is cleared every pool call returns, a polling fetchBuffer
\* included; the one exception is an anyBufFull whose by-value copy caught
\* NReadyMutex locked.
CallsReturn ==
    \A t \in Threads : (~keep_going /\ pc[t] # "idle") ~> (pc[t] = "idle" \/ Hung(t))
==============================================================================

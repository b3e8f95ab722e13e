---------------------------- MODULE UdpBuffProofs ----------------------------
(***************************************************************************)
(* The safety of the buffer pool of full_custom/common.c, for any number   *)
(* of threads, buffers and order numbers: PoolInv is inductive and implies *)
(* the invariants the runs check, and the locked pool implements           *)
(* OrderedPool.                                                            *)
(***************************************************************************)
EXTENDS UdpBuff, PoolOpsTheorems, FiniteSetTheorems

\* The pool's buffers, the ready ones and the threads are finite sets.
LEMMA BufferCount ==
    /\ IsFiniteSet(Buffers)
    /\ Cardinality(Buffers) = noBuffers
    /\ \A S \in SUBSET Buffers : /\ IsFiniteSet(S)
                                 /\ Cardinality(S) \in Nat
                                 /\ Cardinality(S) <= noBuffers
<1>1. IsFiniteSet(Buffers) /\ Cardinality(Buffers) = noBuffers
  BY SizeAssumption, FS_Interval DEF Buffers
<1>2. ASSUME NEW S \in SUBSET Buffers
      PROVE  IsFiniteSet(S) /\ Cardinality(S) \in Nat /\ Cardinality(S) <= noBuffers
  BY <1>1, FS_Subset, FS_CardinalityType
<1> QED BY <1>1, <1>2

LEMMA ThreadCount ==
    ASSUME NEW S \in SUBSET Threads
    PROVE  IsFiniteSet(S) /\ Cardinality(S) \in Nat
BY ThreadsAssumption, FS_Subset, FS_CardinalityType

\* A state in which the pool is idle and empty satisfies the invariant.
LEMMA InitPoolInv == Init => PoolInv
<1> SUFFICES ASSUME Init PROVE PoolInv
  OBVIOUS
<1>1. TypeOK
  <2>1. NoArg \in Args
    BY LensAssumption, SizeAssumption, OrderAssumption
       DEF NoArg, Args, Buffers, Orders
  <2>2. NoCopy \in Copies
    BY SizeAssumption DEF NoCopy, Copies
  <2>3. keep_going \in BOOLEAN /\ failed \in BOOLEAN
    BY Zenon DEF Init
  <2>4. /\ orderNo \in [Buffers -> {InUse, Empty} \cup Orders]
        /\ NReady \in 0 .. noBuffers
    BY SizeAssumption DEF Init, Empty
  <2>5. /\ arg \in [Threads -> Args]
        /\ copy \in [Threads -> Copies]
        /\ held \in [Threads -> SUBSET Buffers]
        /\ pc \in [Threads -> PCs]
    BY <2>1, <2>2 DEF Init, PCs
  <2> QED BY <2>3, <2>4, <2>5 DEF Init, TypeOK
<1>2. LockInv
  BY ThreadsAssumption DEF Init, LockInv, BehindData, BehindNReady
<1>3. ArgInv
  BY DEF Init, ArgInv, Returning
<1>4. ExclusiveOwnership
  BY DEF Init, ExclusiveOwnership, Empty, InUse
<1>5. PromiseCount
  <2>1. Ready = {} /\ Promised = {} /\ Uncounted = {}
    BY DEF Init, Ready, Promised, Uncounted, Empty
  <2> QED BY <2>1, FS_EmptySet DEF Init, PromiseCount
<1>6. NoIntegrityError
  BY DEF Init, NoIntegrityError
<1> QED BY <1>1, <1>2, <1>3, <1>4, <1>5, <1>6 DEF PoolInv

------------------------------------------------------------------------------
\* A buffer that is being returned is in use, so the assertions hold and the
\* return takes effect.
LEMMA ReturnTakesEffect ==
    ASSUME PoolInv, NEW t \in Threads, pc[t] \in Returning
    PROVE  /\ arg[t].index \in Buffers
           /\ arg[t].index \in held[t]
           /\ orderNo[arg[t].index] = InUse
<1>1. arg[t].index \in held[t] /\ held[t] \subseteq Buffers
  BY DEF PoolInv, ArgInv, TypeOK
<1> QED BY <1>1 DEF PoolInv, ExclusiveOwnership

\* A fetchBuffer that holds a promise finds a ready buffer: PromiseCount says
\* there is one, and every order number is below INT_MAX.
LEMMA PromiseFindsBuffer ==
    ASSUME PoolInv, NEW t \in Threads, pc[t] \in {"fbLock", "fbBody"}
    PROVE  /\ findLowest(orderNo, IntMax) # NotFound
           /\ findLowest(orderNo, IntMax) \in Ready
           /\ \A c \in Ready : orderNo[findLowest(orderNo, IntMax)] <= orderNo[c]
<1> USE DEF PoolInv
<1>1. /\ orderNo \in [0 .. noBuffers - 1 -> Int]
      /\ DOMAIN orderNo = Buffers
      /\ \A b \in Buffers : orderNo[b] < IntMax
  BY OrderAssumption, NoOrderOverflow DEF TypeOK, Buffers, Orders, InUse, Empty
<1>2. ReadyBelow(orderNo, IntMax) = Ready
  BY <1>1 DEF ReadyBelow, Ready
<1>3. Ready # {}
  <2>1. t \in Promised /\ IsFiniteSet(Promised) /\ Cardinality(Promised) \in Nat
    BY ThreadCount DEF Promised
  <2>2. Cardinality(Promised) # 0
    BY <2>1, FS_EmptySet
  <2>3. Cardinality(Uncounted) \in Nat /\ NReady \in Nat
    BY ThreadCount, SizeAssumption DEF Uncounted, TypeOK
  <2>4. Cardinality(Ready) # 0
    BY <2>1, <2>2, <2>3 DEF PromiseCount
  <2> QED BY <2>4, FS_EmptySet
<1>4. noBuffers \in Nat /\ IntMax \in Int
  BY SizeAssumption, OrderAssumption
<1> QED BY <1>1, <1>2, <1>3, <1>4, FindLowestResult

\* fetchEmptyBuffer takes a buffer that is neither in use nor ready.
LEMMA EmptyIsFree ==
    ASSUME PoolInv, findEmpty(orderNo) # NotFound
    PROVE  findEmpty(orderNo) \in Buffers /\ orderNo[findEmpty(orderNo)] = Empty
<1>1. orderNo \in [0 .. noBuffers - 1 -> Int]
  BY OrderAssumption DEF PoolInv, TypeOK, Buffers, Orders, InUse, Empty
<1>2. noBuffers \in Nat
  BY SizeAssumption
<1> QED BY <1>1, <1>2, FindEmptyResult DEF Buffers

------------------------------------------------------------------------------
\* One lemma per conjunct of the invariant, one step per action.  A lock step
\* changes pc and one mutex only.

LEMMA TypeStep == PoolInv /\ [Next]_vars => TypeOK'
<1> SUFFICES ASSUME PoolInv, [Next]_vars PROVE TypeOK'
  OBVIOUS
<1> USE DEF Goto, LockData, LockNReady, UnlockData, UnlockNReady, shared, mutexes
<1>0. TypeOK
  BY DEF PoolInv
<1>n. NoArg \in Args /\ NoCopy \in Copies
  BY LensAssumption, SizeAssumption, OrderAssumption
     DEF NoArg, Args, NoCopy, Copies, Buffers, Orders
<1>1. CASE UNCHANGED vars
  BY <1>0, <1>1 DEF vars, TypeOK
<1>2. CASE Stop
  BY <1>0, <1>2 DEF Stop, TypeOK
<1>3. ASSUME NEW t \in Threads, Call(t) PROVE TypeOK'
  <2>1. CASE FeCall(t)
    BY <1>0, <2>1 DEF FeCall, TypeOK, PCs
  <2>2. CASE RbCall(t)
    BY <1>0, <2>2 DEF RbCall, TypeOK, PCs
  <2>3. CASE ReCall(t)
    <3>1. PICK b \in held[t] : arg' = [arg EXCEPT ![t].index = b]
      BY <2>3 DEF ReCall
    <3>2. b \in Buffers /\ arg[t] \in Args
      BY <1>0 DEF TypeOK
    <3>3. [arg[t] EXCEPT !.index = b] \in Args
      BY <3>2 DEF Args
    <3>4. arg' \in [Threads -> Args]
      BY <1>0, <3>1, <3>3 DEF TypeOK
    <3> QED BY <1>0, <2>3, <3>4 DEF ReCall, TypeOK, PCs
  <2>4. CASE FbCall(t)
    BY <1>0, <2>4 DEF FbCall, TypeOK, PCs
  <2>5. CASE AbCall(t)
    BY <1>0, <1>n, <2>5 DEF AbCall, TypeOK, PCs
  <2> QED BY <1>3, <2>1, <2>2, <2>3, <2>4, <2>5 DEF Call
<1>4. ASSUME NEW t \in Threads, Acquire(t) PROVE TypeOK'
  <2>1. CASE FeLock(t) \/ RbLock(t) \/ ReLock(t) \/ FbLock(t)
    BY <1>0, <2>1 DEF FeLock, RbLock, ReLock, FbLock, TypeOK, PCs
  <2>2. CASE RbLockN(t) \/ FbLockN(t)
    BY <1>0, <2>2 DEF RbLockN, FbLockN, TypeOK, PCs
  <2> QED BY <1>4, <2>1, <2>2 DEF Acquire
<1>5. ASSUME NEW t \in Threads, Work(t) PROVE TypeOK'
  <2>1. CASE FeNone(t) \/ FbPoll(t) \/ FbGiveUp(t)
    BY <1>0, <2>1 DEF FeNone, FbPoll, FbGiveUp, TypeOK, PCs
  <2>2. CASE FeTake(t)
    BY <1>0, <2>2, EmptyIsFree DEF FeTake, TypeOK, PCs
  <2>3. CASE RbBody(t)
    <3>1. ~failed'
      BY <2>3, ReturnTakesEffect DEF RbBody, Returning
    <3>2. /\ arg[t].index \in Buffers
          /\ orderNo' = [orderNo EXCEPT ![arg[t].index] = arg[t].order]
          /\ dataLen' = [dataLen EXCEPT ![arg[t].index] = arg[t].len]
          /\ held' = [held EXCEPT ![t] = @ \ {arg[t].index}]
      BY <2>3, <3>1, ReturnTakesEffect DEF RbBody, Returning
    <3>3. arg[t].order \in Orders /\ arg[t].len \in Lens
      BY <1>0 DEF TypeOK, Args
    <3> QED BY <1>0, <2>3, <3>1, <3>2, <3>3 DEF RbBody, TypeOK, PCs
  <2>4. CASE RbInc(t)
    <3>1. NReady + 1 \in 0 .. noBuffers
      <4>1. pc[t] = "rbInc" /\ t \in Uncounted /\ IsFiniteSet(Uncounted)
        BY <2>4, ThreadCount DEF RbInc, Uncounted
      <4>2. Cardinality(Uncounted) \in Nat \ {0}
        BY <4>1, FS_EmptySet, ThreadCount DEF Uncounted
      <4>3. Cardinality(Promised) \in Nat
        BY ThreadCount DEF Promised
      <4>4. Cardinality(Ready) <= noBuffers /\ Cardinality(Ready) \in Nat
        BY BufferCount DEF Ready
      <4> QED BY <1>0, <4>2, <4>3, <4>4, SizeAssumption DEF PoolInv, PromiseCount, TypeOK
    <3> QED BY <1>0, <2>4, <3>1 DEF RbInc, TypeOK, PCs
  <2>5. CASE RbUnlock(t)
    BY <1>0, <1>n, <2>5 DEF RbUnlock, TypeOK, PCs
  <2>6. CASE ReBody(t)
    <3>1. ~failed'
      BY <2>6, ReturnTakesEffect DEF ReBody, Returning
    <3>2. /\ arg[t].index \in Buffers
          /\ orderNo' = [orderNo EXCEPT ![arg[t].index] = Empty]
          /\ held' = [held EXCEPT ![t] = @ \ {arg[t].index}]
      BY <2>6, <3>1, ReturnTakesEffect DEF ReBody, Returning
    <3> QED BY <1>0, <1>n, <2>6, <3>1, <3>2 DEF ReBody, TypeOK, PCs
  <2>7. CASE FbPromised(t)
    BY <1>0, <2>7, SizeAssumption DEF FbPromised, TypeOK, PCs
  <2>8. CASE FbBody(t)
    BY <1>0, <2>8, PromiseFindsBuffer DEF FbBody, TypeOK, PCs, Ready
  <2>9. CASE AbCopyMutex(t)
    BY <1>0, <2>9 DEF AbCopyMutex, TypeOK, PCs, Copies
  <2>10. CASE AbCopyCount(t)
    BY <1>0, <2>10, SizeAssumption DEF AbCopyCount, TypeOK, PCs, Copies
  <2>11. CASE AbReturn(t)
    BY <1>0, <1>n, <2>11 DEF AbReturn, TypeOK, PCs
  <2> QED BY <1>5, <2>1, <2>2, <2>3, <2>4, <2>5, <2>6, <2>7, <2>8, <2>9, <2>10, <2>11
          DEF Work
<1> QED BY <1>1, <1>2, <1>3, <1>4, <1>5 DEF Next

\* Locking: a thread that takes a mutex found it free, so nobody is behind
\* it; a thread that leaves a critical section frees it.
LEMMA LockStep == PoolInv /\ [Next]_vars => LockInv'
<1> SUFFICES ASSUME PoolInv, [Next]_vars PROVE LockInv'
  OBVIOUS
<1> USE DEF Goto, LockData, LockNReady, UnlockData, UnlockNReady, shared, mutexes,
            BehindData, BehindNReady
<1>0. LockInv /\ NoThread \notin Threads /\ pc \in [Threads -> PCs]
  BY ThreadsAssumption DEF PoolInv, TypeOK
<1>1. CASE UNCHANGED vars
  BY <1>0, <1>1 DEF vars, LockInv
<1>2. CASE Stop
  BY <1>0, <1>2 DEF Stop, LockInv
<1>3. ASSUME NEW t \in Threads, Call(t) PROVE LockInv'
  BY <1>0, <1>3 DEF Call, FeCall, RbCall, ReCall, FbCall, AbCall, LockInv
<1>4. ASSUME NEW t \in Threads, Acquire(t) PROVE LockInv'
  BY <1>0, <1>4 DEF Acquire, FeLock, RbLock, RbLockN, ReLock, FbLockN, FbLock, LockInv
<1>5. ASSUME NEW t \in Threads, Work(t) PROVE LockInv'
  <2>1. CASE FeNone(t) \/ FeTake(t) \/ RbUnlock(t) \/ ReBody(t) \/ FbBody(t)
    BY <1>0, <2>1 DEF FeNone, FeTake, RbUnlock, ReBody, FbBody, LockInv
  <2>2. CASE RbInc(t) \/ FbPromised(t) \/ FbPoll(t) \/ FbGiveUp(t)
    BY <1>0, <2>2 DEF RbInc, FbPromised, FbPoll, FbGiveUp, LockInv
  <2>3. CASE RbBody(t) \/ AbCopyMutex(t) \/ AbCopyCount(t) \/ AbReturn(t)
    BY <1>0, <2>3 DEF RbBody, AbCopyMutex, AbCopyCount, AbReturn, LockInv
  <2> QED BY <1>5, <2>1, <2>2, <2>3 DEF Work
<1> QED BY <1>1, <1>2, <1>3, <1>4, <1>5 DEF Next

\* A thread in the middle of a return keeps its buffer: only its own steps
\* touch its held set and its arguments.
LEMMA ArgStep == PoolInv /\ [Next]_vars => ArgInv'
<1> SUFFICES ASSUME PoolInv, [Next]_vars PROVE ArgInv'
  OBVIOUS
<1> USE DEF Goto, LockData, LockNReady, UnlockData, UnlockNReady, shared, mutexes,
            Returning
<1>0. /\ ArgInv
      /\ pc \in [Threads -> PCs]
      /\ held \in [Threads -> SUBSET Buffers]
      /\ arg \in [Threads -> Args]
  BY DEF PoolInv, TypeOK
<1>1. CASE UNCHANGED vars
  BY <1>0, <1>1 DEF vars, ArgInv
<1>2. CASE Stop
  BY <1>0, <1>2 DEF Stop, ArgInv
<1>3. ASSUME NEW t \in Threads, Call(t) PROVE ArgInv'
  <2>1. CASE FeCall(t) \/ FbCall(t) \/ AbCall(t)
    BY <1>0, <2>1 DEF FeCall, FbCall, AbCall, ArgInv
  <2>2. CASE RbCall(t)
    BY <1>0, <2>2 DEF RbCall, ArgInv
  <2>3. CASE ReCall(t)
    <3>1. PICK b \in held[t] : arg' = [arg EXCEPT ![t].index = b]
      BY <2>3 DEF ReCall
    <3>2. arg'[t].index = b
      BY <1>0, <3>1 DEF Args
    <3> QED BY <1>0, <2>3, <3>1, <3>2 DEF ReCall, ArgInv
  <2> QED BY <1>3, <2>1, <2>2, <2>3 DEF Call
<1>4. ASSUME NEW t \in Threads, Acquire(t) PROVE ArgInv'
  BY <1>0, <1>4 DEF Acquire, FeLock, RbLock, RbLockN, ReLock, FbLockN, FbLock, ArgInv
<1>5. ASSUME NEW t \in Threads, Work(t) PROVE ArgInv'
  <2>1. CASE FeNone(t) \/ FeTake(t) \/ RbUnlock(t) \/ FbBody(t)
    BY <1>0, <2>1 DEF FeNone, FeTake, RbUnlock, FbBody, ArgInv
  <2>2. CASE RbInc(t) \/ FbPromised(t) \/ FbPoll(t) \/ FbGiveUp(t)
    BY <1>0, <2>2 DEF RbInc, FbPromised, FbPoll, FbGiveUp, ArgInv
  <2>3. CASE AbCopyMutex(t) \/ AbCopyCount(t) \/ AbReturn(t)
    BY <1>0, <2>3 DEF AbCopyMutex, AbCopyCount, AbReturn, ArgInv
  <2>4. CASE RbBody(t)
    BY <1>0, <2>4 DEF RbBody, ArgInv
  <2>5. CASE ReBody(t)
    BY <1>0, <2>5 DEF ReBody, ArgInv
  <2> QED BY <1>5, <2>1, <2>2, <2>3, <2>4, <2>5 DEF Work
<1> QED BY <1>1, <1>2, <1>3, <1>4, <1>5 DEF Next

\* Ownership: a fetch marks a buffer nobody had, a return unmarks one that
\* only its caller had.
LEMMA OwnStep == PoolInv /\ [Next]_vars => ExclusiveOwnership'
<1> SUFFICES ASSUME PoolInv, [Next]_vars PROVE ExclusiveOwnership'
  OBVIOUS
<1> USE DEF Goto, LockData, LockNReady, UnlockData, UnlockNReady, shared, mutexes
<1>0. /\ ExclusiveOwnership
      /\ orderNo \in [Buffers -> {InUse, Empty} \cup Orders]
      /\ held \in [Threads -> SUBSET Buffers]
  BY DEF PoolInv, TypeOK
<1>1. ASSUME UNCHANGED <<orderNo, held>> PROVE ExclusiveOwnership'
  BY <1>0, <1>1 DEF ExclusiveOwnership
<1>2. ASSUME NEW t \in Threads, NEW b \in Buffers, orderNo[b] # InUse,
             orderNo' = [orderNo EXCEPT ![b] = InUse],
             held' = [held EXCEPT ![t] = @ \cup {b}]
      PROVE  ExclusiveOwnership'
  <2>1. \A u \in Threads : b \notin held[u]
    BY <1>0, <1>2 DEF ExclusiveOwnership
  <2> QED BY <1>0, <1>2, <2>1 DEF ExclusiveOwnership
<1>3. ASSUME NEW t \in Threads, NEW b \in Buffers, b \in held[t],
             NEW v \in Nat,
             orderNo' = [orderNo EXCEPT ![b] = v],
             held' = [held EXCEPT ![t] = @ \ {b}]
      PROVE  ExclusiveOwnership'
  <2>1. \A u \in Threads : u # t => b \notin held[u]
    BY <1>0, <1>3 DEF ExclusiveOwnership
  <2> QED BY <1>0, <1>3, <2>1 DEF ExclusiveOwnership, InUse
<1>4. CASE UNCHANGED vars
  BY <1>1, <1>4 DEF vars
<1>5. CASE Stop
  BY <1>1, <1>5 DEF Stop
<1>6. ASSUME NEW t \in Threads, Call(t) PROVE ExclusiveOwnership'
  BY <1>1, <1>6 DEF Call, FeCall, RbCall, ReCall, FbCall, AbCall
<1>7. ASSUME NEW t \in Threads, Acquire(t) PROVE ExclusiveOwnership'
  BY <1>1, <1>7 DEF Acquire, FeLock, RbLock, RbLockN, ReLock, FbLockN, FbLock
<1>8. ASSUME NEW t \in Threads, Work(t) PROVE ExclusiveOwnership'
  <2>1. CASE FeTake(t)
    <3> DEFINE b == findEmpty(orderNo)
    <3>1. b \in Buffers /\ orderNo[b] # InUse
      BY <2>1, EmptyIsFree DEF FeTake, Empty, InUse
    <3>2. /\ orderNo' = [orderNo EXCEPT ![b] = InUse]
          /\ held' = [held EXCEPT ![t] = @ \cup {b}]
      BY <2>1 DEF FeTake
    <3> QED BY <1>2, <3>1, <3>2
  <2>2. CASE FbBody(t)
    <3> DEFINE b == findLowest(orderNo, IntMax)
    <3>1. b # NotFound /\ b \in Buffers /\ orderNo[b] > 0
      BY <2>2, PromiseFindsBuffer DEF FbBody, Ready
    <3>2. /\ orderNo' = [orderNo EXCEPT ![b] = InUse]
          /\ held' = [held EXCEPT ![t] = @ \cup {b}]
      BY <2>2, <3>1 DEF FbBody
    <3>3. orderNo[b] # InUse
      BY <3>1 DEF InUse
    <3> QED BY <1>2, <3>1, <3>2, <3>3
  <2>3. CASE RbBody(t)
    <3>1. /\ arg[t].index \in Buffers /\ arg[t].index \in held[t]
          /\ orderNo' = [orderNo EXCEPT ![arg[t].index] = arg[t].order]
          /\ held' = [held EXCEPT ![t] = @ \ {arg[t].index}]
      BY <2>3, ReturnTakesEffect DEF RbBody, Returning
    <3>2. arg[t].order \in Nat
      BY OrderAssumption DEF PoolInv, TypeOK, Args, Orders
    <3> QED BY <1>3, <3>1, <3>2
  <2>4. CASE ReBody(t)
    <3>1. /\ arg[t].index \in Buffers /\ arg[t].index \in held[t]
          /\ orderNo' = [orderNo EXCEPT ![arg[t].index] = Empty]
          /\ held' = [held EXCEPT ![t] = @ \ {arg[t].index}]
      BY <2>4, ReturnTakesEffect DEF ReBody, Returning
    <3> QED BY <1>3, <3>1 DEF Empty
  <2>5. CASE FeNone(t) \/ RbInc(t) \/ RbUnlock(t) \/ FbPromised(t) \/ FbPoll(t)
             \/ FbGiveUp(t) \/ AbCopyMutex(t) \/ AbCopyCount(t) \/ AbReturn(t)
    BY <1>1, <2>5 DEF FeNone, RbInc, RbUnlock, FbPromised, FbPoll, FbGiveUp,
                      AbCopyMutex, AbCopyCount, AbReturn
  <2> QED BY <1>8, <2>1, <2>2, <2>3, <2>4, <2>5 DEF Work
<1> QED BY <1>4, <1>5, <1>6, <1>7, <1>8 DEF Next

\* Counting: filling in an entry adds a ready buffer and an uncounted
\* returner, counting it moves that one into NReady, a promise moves it on to
\* the fetcher, and collecting it takes both away.
LEMMA CountStep == PoolInv /\ [Next]_vars => PromiseCount'
<1> SUFFICES ASSUME PoolInv, [Next]_vars PROVE PromiseCount'
  OBVIOUS
<1> USE DEF Goto, LockData, LockNReady, UnlockData, UnlockNReady, shared, mutexes
<1>0. /\ PromiseCount
      /\ orderNo \in [Buffers -> {InUse, Empty} \cup Orders]
      /\ pc \in [Threads -> PCs]
      /\ NReady \in Nat
  BY SizeAssumption DEF PoolInv, TypeOK
<1>f. /\ IsFiniteSet(Ready) /\ IsFiniteSet(Promised) /\ IsFiniteSet(Uncounted)
      /\ Cardinality(Ready) \in Nat /\ Cardinality(Promised) \in Nat
      /\ Cardinality(Uncounted) \in Nat
  BY BufferCount, ThreadCount DEF Ready, Promised, Uncounted
<1>1. ASSUME Ready' = Ready, Promised' = Promised, Uncounted' = Uncounted, NReady' = NReady
      PROVE  PromiseCount'
  BY <1>0, <1>1 DEF PromiseCount
<1>2. ASSUME NEW t \in Threads, UNCHANGED <<orderNo, NReady>>,
             NEW p \in PCs, pc' = [pc EXCEPT ![t] = p],
             pc[t] \in {"fbLock", "fbBody"} <=> p \in {"fbLock", "fbBody"},
             pc[t] \in {"rbLockN", "rbInc"} <=> p \in {"rbLockN", "rbInc"}
      PROVE  PromiseCount'
  BY <1>0, <1>1, <1>2 DEF Ready, Promised, Uncounted
<1>3. CASE UNCHANGED vars
  BY <1>1, <1>3 DEF vars, Ready, Promised, Uncounted
<1>4. CASE Stop
  BY <1>1, <1>4 DEF Stop, Ready, Promised, Uncounted
<1>5. ASSUME NEW t \in Threads, Call(t) PROVE PromiseCount'
  BY <1>2, <1>5 DEF Call, FeCall, RbCall, ReCall, FbCall, AbCall, PCs
<1>6. ASSUME NEW t \in Threads, Acquire(t) PROVE PromiseCount'
  BY <1>2, <1>6 DEF Acquire, FeLock, RbLock, RbLockN, ReLock, FbLockN, FbLock, PCs
<1>7. ASSUME NEW t \in Threads, Work(t) PROVE PromiseCount'
  <2>1. CASE FeNone(t) \/ RbUnlock(t) \/ FbPoll(t) \/ FbGiveUp(t)
             \/ AbCopyMutex(t) \/ AbCopyCount(t) \/ AbReturn(t)
    BY <1>2, <2>1 DEF FeNone, RbUnlock, FbPoll, FbGiveUp,
                      AbCopyMutex, AbCopyCount, AbReturn, PCs
  <2>2. CASE FeTake(t)
    <3>1. Ready' = Ready
      BY <1>0, <2>2, EmptyIsFree DEF FeTake, Ready, Empty, InUse
    <3>2. Promised' = Promised /\ Uncounted' = Uncounted
      BY <1>0, <2>2 DEF FeTake, Promised, Uncounted
    <3> QED BY <1>1, <2>2, <3>1, <3>2 DEF FeTake
  <2>3. CASE ReBody(t)
    <3>1. /\ arg[t].index \in Buffers
          /\ orderNo[arg[t].index] = InUse
          /\ orderNo' = [orderNo EXCEPT ![arg[t].index] = Empty]
      BY <2>3, ReturnTakesEffect DEF ReBody, Returning
    <3>2. Ready' = Ready
      BY <1>0, <3>1 DEF Ready, Empty, InUse
    <3>3. Promised' = Promised /\ Uncounted' = Uncounted
      BY <1>0, <2>3 DEF ReBody, Promised, Uncounted
    <3> QED BY <1>1, <2>3, <3>2, <3>3 DEF ReBody
  <2>4. CASE RbBody(t)
    <3>1. /\ arg[t].index \in Buffers
          /\ orderNo[arg[t].index] = InUse
          /\ orderNo' = [orderNo EXCEPT ![arg[t].index] = arg[t].order]
          /\ arg[t].order > 0
      BY <2>4, ReturnTakesEffect, OrderAssumption
         DEF RbBody, Returning, PoolInv, TypeOK, Args, Orders
    <3>2. Ready' = Ready \cup {arg[t].index} /\ arg[t].index \notin Ready
      BY <1>0, <3>1 DEF Ready, InUse
    <3>3. /\ Promised' = Promised
          /\ Uncounted' = Uncounted \cup {t} /\ t \notin Uncounted
      BY <1>0, <2>4 DEF RbBody, Promised, Uncounted
    <3>4. /\ Cardinality(Ready') = Cardinality(Ready) + 1
          /\ Cardinality(Uncounted') = Cardinality(Uncounted) + 1
      BY <1>f, <3>2, <3>3, FS_AddElement
    <3>5. NReady' = NReady
      BY <2>4 DEF RbBody
    <3> QED BY <1>0, <1>f, <3>3, <3>4, <3>5 DEF PromiseCount
  <2>5. CASE RbInc(t)
    <3>1. /\ Promised' = Promised
          /\ Uncounted' = Uncounted \ {t} /\ t \in Uncounted
      BY <1>0, <2>5 DEF RbInc, Promised, Uncounted
    <3>2. Cardinality(Uncounted') = Cardinality(Uncounted) - 1
      BY <1>f, <3>1, FS_RemoveElement
    <3>3. NReady' = NReady + 1 /\ Ready' = Ready
      BY <2>5 DEF RbInc, Ready
    <3> QED BY <1>0, <1>f, <3>1, <3>2, <3>3 DEF PromiseCount
  <2>6. CASE FbPromised(t)
    <3>1. /\ Promised' = Promised \cup {t} /\ t \notin Promised
          /\ Uncounted' = Uncounted
      BY <1>0, <2>6 DEF FbPromised, Promised, Uncounted
    <3>2. Cardinality(Promised') = Cardinality(Promised) + 1
      BY <1>f, <3>1, FS_AddElement
    <3>3. NReady' = NReady - 1 /\ Ready' = Ready
      BY <2>6 DEF FbPromised, Ready
    <3> QED BY <1>0, <1>f, <3>1, <3>2, <3>3 DEF PromiseCount
  <2>7. CASE FbBody(t)
    <3> DEFINE b == findLowest(orderNo, IntMax)
    <3>1. b # NotFound /\ b \in Ready
      BY <2>7, PromiseFindsBuffer DEF FbBody
    <3>2. orderNo' = [orderNo EXCEPT ![b] = InUse] /\ NReady' = NReady
      BY <2>7, <3>1 DEF FbBody
    <3>3. Ready' = Ready \ {b}
      <4> HIDE DEF b
      <4> QED BY <1>0, <3>1, <3>2 DEF Ready, InUse
    <3>4. /\ Promised' = Promised \ {t} /\ t \in Promised
          /\ Uncounted' = Uncounted
      BY <1>0, <2>7 DEF FbBody, Promised, Uncounted
    <3>5. /\ Cardinality(Ready') = Cardinality(Ready) - 1
          /\ Cardinality(Promised') = Cardinality(Promised) - 1
      BY <1>f, <3>1, <3>3, <3>4, FS_RemoveElement
    <3> QED BY <1>0, <1>f, <3>2, <3>4, <3>5 DEF PromiseCount
  <2> QED BY <1>7, <2>1, <2>2, <2>3, <2>4, <2>5, <2>6, <2>7 DEF Work
<1> QED BY <1>3, <1>4, <1>5, <1>6, <1>7 DEF Next

\* The assertions hold whenever they are evaluated.
LEMMA IntegrityStep == PoolInv /\ [Next]_vars => NoIntegrityError'
<1> SUFFICES ASSUME PoolInv, [Next]_vars PROVE ~failed'
  BY DEF NoIntegrityError
<1> USE DEF Goto, LockData, LockNReady, UnlockData, UnlockNReady, shared, mutexes
<1>0. ~failed
  BY DEF PoolInv, NoIntegrityError
<1>1. CASE UNCHANGED vars
  BY <1>0, <1>1 DEF vars
<1>2. CASE Stop
  BY <1>0, <1>2 DEF Stop
<1>3. ASSUME NEW t \in Threads, Call(t) PROVE ~failed'
  BY <1>0, <1>3 DEF Call, FeCall, RbCall, ReCall, FbCall, AbCall
<1>4. ASSUME NEW t \in Threads, Acquire(t) PROVE ~failed'
  BY <1>0, <1>4 DEF Acquire, FeLock, RbLock, RbLockN, ReLock, FbLockN, FbLock
<1>5. ASSUME NEW t \in Threads, Work(t) PROVE ~failed'
  <2>1. CASE RbBody(t)
    BY <2>1, ReturnTakesEffect DEF RbBody, Returning
  <2>2. CASE ReBody(t)
    BY <2>2, ReturnTakesEffect DEF ReBody, Returning
  <2>3. CASE FeNone(t) \/ FeTake(t) \/ RbInc(t) \/ RbUnlock(t) \/ FbPromised(t)
             \/ FbPoll(t) \/ FbGiveUp(t) \/ FbBody(t)
             \/ AbCopyMutex(t) \/ AbCopyCount(t) \/ AbReturn(t)
    BY <1>0, <2>3 DEF FeNone, FeTake, RbInc, RbUnlock, FbPromised, FbPoll, FbGiveUp,
                      FbBody, AbCopyMutex, AbCopyCount, AbReturn
  <2> QED BY <1>5, <2>1, <2>2, <2>3 DEF Work
<1> QED BY <1>1, <1>2, <1>3, <1>4, <1>5 DEF Next

------------------------------------------------------------------------------
\* PoolInv is an invariant of the pool of full_custom/common.c, for any
\* number of threads, buffers and order numbers below INT_MAX.
THEOREM PoolInvariant == Spec => []PoolInv
<1>1. Init => PoolInv
  BY InitPoolInv
<1>2. PoolInv /\ [Next]_vars => PoolInv'
  BY TypeStep, LockStep, ArgStep, OwnStep, CountStep, IntegrityStep DEF PoolInv
<1> QED BY <1>1, <1>2, PTL DEF Spec

\* The pool's fields and the threads' locals keep their types; NReady never
\* exceeds the number of buffers.
THEOREM TypeCorrect == Spec => []TypeOK
<1>1. PoolInv => TypeOK
  BY DEF PoolInv
<1> QED BY <1>1, PoolInvariant, PTL

\* No buffer of the pool is ever in the hands of two threads.
THEOREM OwnershipIsExclusive == Spec => []ExclusiveOwnership
<1>1. PoolInv => ExclusiveOwnership
  BY DEF PoolInv
<1> QED BY <1>1, PoolInvariant, PTL

\* fetchBuffer never comes back empty-handed after it took a promise.
THEOREM PromisesAreKept == Spec => []PromiseKept
<1>1. PoolInv => PromiseKept
  BY PromiseFindsBuffer DEF PromiseKept
<1> QED BY <1>1, PoolInvariant, PTL

\* Neither "data integrity!" assertion of full_custom/common.c can fire while
\* threads return only buffers they were given.
THEOREM IntegrityNeverFails == Spec => []NoIntegrityError
<1>1. PoolInv => NoIntegrityError
  BY DEF PoolInv
<1> QED BY <1>1, PoolInvariant, PTL

------------------------------------------------------------------------------
\* The refinement.  Under PoolInv the mapped owner of a buffer is the one
\* thread that has it.
HolderIs == \A b \in Buffers :
    /\ \A t \in Threads : Holder(b) = t <=> b \in held[t]
    /\ Holder(b) = NoThread <=> orderNo[b] # InUse
    /\ Holder(b) \in Threads \cup {NoThread}

LEMMA HolderLemma == PoolInv => HolderIs
<1> SUFFICES ASSUME PoolInv, NEW b \in Buffers
             PROVE  /\ \A t \in Threads : Holder(b) = t <=> b \in held[t]
                    /\ Holder(b) = NoThread <=> orderNo[b] # InUse
                    /\ Holder(b) \in Threads \cup {NoThread}
  BY DEF HolderIs
<1>1. ExclusiveOwnership /\ NoThread \notin Threads /\ held \in [Threads -> SUBSET Buffers]
  BY ThreadsAssumption DEF PoolInv, TypeOK
<1>2. CASE \E t \in Threads : b \in held[t]
  <2>1. Holder(b) \in Threads /\ b \in held[Holder(b)]
    BY <1>2 DEF Holder
  <2>2. \A t \in Threads : b \in held[t] => t = Holder(b)
    BY <1>1, <2>1 DEF ExclusiveOwnership
  <2> QED BY <1>1, <1>2, <2>1, <2>2 DEF ExclusiveOwnership
<1>3. CASE ~ \E t \in Threads : b \in held[t]
  BY <1>1, <1>3 DEF Holder, ExclusiveOwnership
<1> QED BY <1>2, <1>3

LEMMA InitRefines == Init => Abstract!Init
<1> SUFFICES ASSUME Init PROVE Abstract!Init
  OBVIOUS
<1>1. HolderIs
  BY InitPoolInv, HolderLemma
<1>2. \A b \in Buffers : Holder(b) = NoThread
  BY <1>1 DEF HolderIs, Init, Empty, InUse
<1>3. Ready = {}
  BY DEF Init, Ready, Empty
<1> QED BY <1>2, <1>3 DEF Abstract!Init, Owners, Entries

\* A step that leaves orderNo, dataLen and held alone is a stutter.
LEMMA StutterRefines ==
    ASSUME UNCHANGED <<orderNo, dataLen, held>>
    PROVE  UNCHANGED Abstract!vars
<1>1. Ready' = Ready
  BY DEF Ready
<1>2. \A b \in Buffers : Holder(b)' = Holder(b)
  BY DEF Holder
<1> QED BY <1>1, <1>2 DEF Abstract!vars, Owners, Entries, Entry

\* Only the buffer that changes hands gets a new mapped owner.
LEMMA OtherOwners ==
    ASSUME HolderIs, HolderIs', NEW b \in Buffers,
           \A t \in Threads : \A c \in Buffers : c # b => (c \in held'[t] <=> c \in held[t]),
           \A c \in Buffers : c # b => orderNo'[c] = orderNo[c]
    PROVE  \A c \in Buffers : c # b => Holder(c)' = Holder(c)
<1> SUFFICES ASSUME NEW c \in Buffers, c # b PROVE Holder(c)' = Holder(c)
  OBVIOUS
<1>1. CASE orderNo[c] = InUse
  <2>1. PICK t \in Threads : Holder(c) = t
    BY <1>1 DEF HolderIs
  <2>2. c \in held'[t]
    BY <2>1 DEF HolderIs
  <2>3. Holder(c)' = t
    BY <2>2 DEF HolderIs
  <2> QED BY <2>1, <2>3
<1>2. CASE orderNo[c] # InUse
  <2>1. Holder(c) = NoThread
    BY <1>2 DEF HolderIs
  <2>2. Holder(c)' = NoThread
    BY <1>2 DEF HolderIs
  <2> QED BY <2>1, <2>2
<1> QED BY <1>1, <1>2

LEMMA OwnersUpdate ==
    ASSUME HolderIs, HolderIs', NEW b \in Buffers, NEW o,
           \A t \in Threads : \A c \in Buffers : c # b => (c \in held'[t] <=> c \in held[t]),
           \A c \in Buffers : c # b => orderNo'[c] = orderNo[c],
           Holder(b)' = o
    PROVE  Owners' = [Owners EXCEPT ![b] = o]
BY OtherOwners DEF Owners

\* Each of the four steps that move a buffer is the abstract operation it
\* stands for.
LEMMA StepRefines ==
    ASSUME PoolInv, PoolInv', [Next]_vars
    PROVE  [Abstract!Next]_(Abstract!vars)
<1> USE DEF Goto, LockData, LockNReady, UnlockData, UnlockNReady, shared, mutexes
<1>h. HolderIs /\ HolderIs'
  BY HolderLemma, PTL
<1>t. /\ orderNo \in [Buffers -> {InUse, Empty} \cup Orders]
      /\ dataLen \in [Buffers -> Lens]
      /\ held \in [Threads -> SUBSET Buffers]
      /\ NoThread \notin Threads
  BY ThreadsAssumption DEF PoolInv, TypeOK
<1>1. CASE UNCHANGED vars
  BY <1>1, StutterRefines DEF vars
<1>2. CASE Stop
  BY <1>2, StutterRefines DEF Stop
<1>3. ASSUME NEW t \in Threads, Call(t) PROVE UNCHANGED Abstract!vars
  BY <1>3, StutterRefines DEF Call, FeCall, RbCall, ReCall, FbCall, AbCall
<1>4. ASSUME NEW t \in Threads, Acquire(t) PROVE UNCHANGED Abstract!vars
  BY <1>4, StutterRefines DEF Acquire, FeLock, RbLock, RbLockN, ReLock, FbLockN, FbLock
<1>5. ASSUME NEW t \in Threads, FeTake(t) PROVE Abstract!TakeEmpty(t)
  <2>1. PICK b \in Buffers : b = findEmpty(orderNo) /\ orderNo[b] = Empty
    BY <1>5, EmptyIsFree DEF FeTake
  <2>2. /\ orderNo' = [orderNo EXCEPT ![b] = InUse] /\ dataLen' = dataLen
        /\ held' = [held EXCEPT ![t] = @ \cup {b}]
    BY <1>5, <2>1 DEF FeTake
  <2>3. Ready' = Ready /\ b \notin Ready
    BY <1>t, <2>1, <2>2 DEF Ready, Empty, InUse
  <2>4. \A c \in Ready : orderNo'[c] = orderNo[c] /\ dataLen'[c] = dataLen[c]
    BY <1>t, <2>2, <2>3 DEF Ready
  <2>5. Holder(b) = NoThread /\ Holder(b)' = t
    BY <1>h, <1>t, <2>1, <2>2 DEF HolderIs, Empty, InUse
  <2>6. Owners' = [Owners EXCEPT ![b] = t]
    BY <1>h, <1>t, <2>1, <2>2, <2>5, OwnersUpdate
  <2>7. Entries' = Entries
    BY <2>3, <2>4 DEF Entries, Entry
  <2>8. b \notin Abstract!Queued
    BY <2>3 DEF Abstract!Queued, Entries, Entry
  <2>9. Owners[b] = NoThread
    BY <2>5 DEF Owners
  <2> QED BY <2>6, <2>7, <2>8, <2>9 DEF Abstract!TakeEmpty
<1>6. ASSUME NEW t \in Threads, ReBody(t) PROVE Abstract!Release(t)
  <2>1. PICK b \in Buffers : b = arg[t].index /\ b \in held[t] /\ orderNo[b] = InUse
    BY <1>6, ReturnTakesEffect DEF ReBody, Returning
  <2>2. /\ orderNo' = [orderNo EXCEPT ![b] = Empty] /\ dataLen' = dataLen
        /\ held' = [held EXCEPT ![t] = @ \ {b}]
    BY <1>6, <2>1 DEF ReBody
  <2>3. Ready' = Ready /\ b \notin Ready
    BY <1>t, <2>1, <2>2 DEF Ready, Empty, InUse
  <2>4. \A c \in Ready : orderNo'[c] = orderNo[c] /\ dataLen'[c] = dataLen[c]
    BY <1>t, <2>2, <2>3 DEF Ready
  <2>5. Holder(b) = t /\ Holder(b)' = NoThread
    BY <1>h, <1>t, <2>1, <2>2 DEF HolderIs, Empty, InUse
  <2>6. Owners' = [Owners EXCEPT ![b] = NoThread]
    BY <1>h, <1>t, <2>1, <2>2, <2>5, OwnersUpdate
  <2>7. Entries' = Entries
    BY <2>3, <2>4 DEF Entries, Entry
  <2>8. Owners[b] = t
    BY <2>5 DEF Owners
  <2> QED BY <2>6, <2>7, <2>8 DEF Abstract!Release
<1>7. ASSUME NEW t \in Threads, RbBody(t) PROVE Abstract!Publish(t)
  <2>1. PICK b \in Buffers : b = arg[t].index /\ b \in held[t] /\ orderNo[b] = InUse
    BY <1>7, ReturnTakesEffect DEF RbBody, Returning
  <2>a. arg[t].order \in Orders /\ arg[t].len \in Lens /\ arg[t].order > 0
    BY OrderAssumption DEF PoolInv, TypeOK, Args, Orders
  <2>o. PICK o \in Orders, l \in Lens : o = arg[t].order /\ l = arg[t].len /\ o > 0
    BY <2>a
  <2>2. /\ orderNo' = [orderNo EXCEPT ![b] = o] /\ dataLen' = [dataLen EXCEPT ![b] = l]
        /\ held' = [held EXCEPT ![t] = @ \ {b}]
    BY <1>7, <2>1, <2>o DEF RbBody
  <2>3. Ready' = Ready \cup {b} /\ b \notin Ready
    BY <1>t, <2>1, <2>2, <2>o DEF Ready, InUse
  <2>4. /\ \A c \in Ready : orderNo'[c] = orderNo[c] /\ dataLen'[c] = dataLen[c]
        /\ orderNo'[b] = o /\ dataLen'[b] = l
    BY <1>t, <2>1, <2>2, <2>3 DEF Ready
  <2>5. Holder(b) = t /\ Holder(b)' = NoThread
    BY <1>h, <1>t, <2>1, <2>2, <2>o DEF HolderIs, InUse
  <2>6. Owners' = [Owners EXCEPT ![b] = NoThread]
    BY <1>h, <1>t, <2>1, <2>2, <2>5, OwnersUpdate
  <2>7. Entries' = Entries \cup {[buf |-> b, order |-> o, len |-> l]}
    BY <2>3, <2>4 DEF Entries, Entry
  <2>8. Owners[b] = t
    BY <2>5 DEF Owners
  <2> QED BY <2>6, <2>7, <2>8 DEF Abstract!Publish
<1>8. ASSUME NEW t \in Threads, FbBody(t) PROVE Abstract!TakeLowest(t)
  <2>1. PICK b \in Buffers : /\ b = findLowest(orderNo, IntMax) /\ b # NotFound
                              /\ b \in Ready /\ orderNo[b] > 0
    BY <1>8, PromiseFindsBuffer DEF FbBody, Ready
  <2>l. \A c \in Ready : orderNo[b] <= orderNo[c]
    BY <1>8, <2>1, PromiseFindsBuffer DEF FbBody
  <2>2. /\ orderNo' = [orderNo EXCEPT ![b] = InUse] /\ dataLen' = dataLen
        /\ held' = [held EXCEPT ![t] = @ \cup {b}]
    BY <1>8, <2>1 DEF FbBody
  <2>3. Ready' = Ready \ {b}
    BY <1>t, <2>1, <2>2 DEF Ready, InUse
  <2>4. \A c \in Ready' : orderNo'[c] = orderNo[c] /\ dataLen'[c] = dataLen[c]
    BY <1>t, <2>2, <2>3 DEF Ready
  <2>5. Holder(b)' = t
    BY <1>h, <1>t, <2>1, <2>2 DEF HolderIs
  <2>6. Owners' = [Owners EXCEPT ![b] = t]
    BY <1>h, <1>t, <2>1, <2>2, <2>5, OwnersUpdate
  <2>7. Entries' = Entries \ {Entry(b)}
    BY <2>3, <2>4 DEF Entries, Entry
  <2>8. Entry(b) \in Entries /\ Entry(b).buf = b
    BY <2>1 DEF Entries, Entry
  <2>9. \A n \in Entries : Entry(b).order <= n.order
    BY <2>1, <2>l DEF Entries, Entry
  <2> QED BY <2>6, <2>7, <2>8, <2>9 DEF Abstract!TakeLowest
<1>9. ASSUME NEW t \in Threads, Work(t) PROVE [Abstract!Next]_(Abstract!vars)
  <2>1. CASE FeTake(t) \/ ReBody(t) \/ RbBody(t) \/ FbBody(t)
    BY <1>5, <1>6, <1>7, <1>8, <2>1 DEF Abstract!Next
  <2>2. CASE FeNone(t) \/ RbInc(t) \/ RbUnlock(t) \/ FbPromised(t) \/ FbPoll(t)
             \/ FbGiveUp(t) \/ AbCopyMutex(t) \/ AbCopyCount(t) \/ AbReturn(t)
    BY <2>2, StutterRefines DEF FeNone, RbInc, RbUnlock, FbPromised, FbPoll, FbGiveUp,
                                AbCopyMutex, AbCopyCount, AbReturn
  <2> QED BY <1>9, <2>1, <2>2 DEF Work
<1> QED BY <1>1, <1>2, <1>3, <1>4, <1>9 DEF Next

\* The pool of full_custom/common.c, with its two mutexes, its counter and
\* its polling, implements OrderedPool for any number of threads and buffers.
THEOREM PoolRefinement == Spec => Refines
<1>1. Init => Abstract!Init
  BY InitRefines
<1>2. PoolInv /\ PoolInv' /\ [Next]_vars => [Abstract!Next]_(Abstract!vars)
  BY StepRefines
<1> QED BY <1>1, <1>2, PoolInvariant, PTL DEF Spec, Abstract!Spec, Refines
==============================================================================

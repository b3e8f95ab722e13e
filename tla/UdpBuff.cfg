SPECIFICATION FairSpec
CONSTANTS
    Threads = {t1, t2}
    noBuffers = 2
    MaxOrder = 2
    IntMax = 5
    Lens = {0, 1}
    NoThread = NoThread
INVARIANTS TypeOK ExclusiveOwnership PromiseKept NoIntegrityError PoolInv
PROPERTIES Refines LocksReleased CallsReturn

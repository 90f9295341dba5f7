CONSTANTS
    NULL = NULL
    CanBeAcquired = CanBeAcquired
    ReturnedToFreeList = ReturnedToFreeList
    Threads = {t1, t2}
    Objects = {o1, o2}
    Monitors = {m1, m2}
    EnterTimeouts = {"zero", "infinite"}
    WaitTimeouts = {"zero", "finite"}
    Interrupts = FALSE
    Aborts = FALSE
    NestedLocks = TRUE
    MaxRecursion = 2
    SemaphoreMaximum = 1
SPECIFICATION Spec
SYMMETRY Symmetry
CHECK_DEADLOCK FALSE
INVARIANTS
    IInv
    LockAgreement
    AssertionsHold
    MutualExclusion
    WaiterIsReachable
PROPERTIES
    ImplementsLock
    OnlyBackoutLosesWakeups

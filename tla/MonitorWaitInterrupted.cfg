CONSTANTS
    NULL = NULL
    CanBeAcquired = CanBeAcquired
    ReturnedToFreeList = ReturnedToFreeList
    Threads = {t1, t2}
    Objects = {o1}
    Monitors = {m1, m2}
    EnterTimeouts = {"infinite"}
    WaitTimeouts = {"finite"}
    Interrupts = TRUE
    Aborts = FALSE
    NestedLocks = FALSE
    MaxRecursion = 1
    SemaphoreMaximum = 2
SPECIFICATION Spec
SYMMETRY Symmetry
INVARIANTS
    WaitExitsHoldingLock

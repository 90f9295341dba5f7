CONSTANTS
    NULL = NULL
    CanBeAcquired = CanBeAcquired
    ReturnedToFreeList = ReturnedToFreeList
    Threads = {t1, t2}
    Objects = {o1}
    Monitors = {m1, m2}
    EnterTimeouts = {"finite", "infinite"}
    WaitTimeouts = {"finite"}
    Interrupts = TRUE
    Aborts = TRUE
    NestedLocks = FALSE
    MaxRecursion = 1
    SemaphoreMaximum = 2
SPECIFICATION FairSpec
INVARIANTS
    WakeupIsNotLost
PROPERTIES
    FreeMonitorIsClaimed
    DeflationEnds

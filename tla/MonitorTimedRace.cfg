CONSTANTS
    NULL = NULL
    CanBeAcquired = CanBeAcquired
    ReturnedToFreeList = ReturnedToFreeList
    Threads = {t1, t2, t3}
    Objects = {o1, o2}
    Monitors = {m1, m2}
    EnterTimeouts = {"finite"}
    WaitTimeouts = {}
    Interrupts = FALSE
    Aborts = FALSE
    NestedLocks = FALSE
    MaxRecursion = 1
    SemaphoreMaximum = 2
SPECIFICATION Spec
SYMMETRY Symmetry
INVARIANTS
    MutualExclusion

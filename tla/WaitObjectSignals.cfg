CONSTANTS
    NULL = NULL
    Threads = {t1, t2, t3}
    Mutexes = {m}
    Semaphores = {s}
    AutoResetEvents = {}
    ManualResetEvents = {}
    Timeouts = {"zero", "infinite"}
    Interruptible = {TRUE, FALSE}
    APCsThrow = FALSE
    MaxAPCs = 1
    MaxRecursion = 2
    MaximumValue = 2
SPECIFICATION Spec
SYMMETRY Symmetry
CHECK_DEADLOCK FALSE
INVARIANTS
    WInv
    SignalIsNotLost

CONSTANTS
    NULL = NULL
    Threads = {t1, t2, t3}
    Mutexes = {m}
    Semaphores = {}
    AutoResetEvents = {e}
    ManualResetEvents = {f}
    Timeouts = {"finite"}
    Interruptible = {TRUE}
    APCsThrow = TRUE
    MaxAPCs = 1
    MaxRecursion = 1
    MaximumValue = 1
SPECIFICATION Spec
SYMMETRY Symmetry
INVARIANTS
    MutexAgreement
    EventWakesEverybody
    InterruptIsNotLost

CONSTANTS
    None = None
    c1 = c1
    c2 = c2
    c3 = c3
    Threads = {t1, t2}
    Classes <- MCClasses
    Graphs <- MCGraphs
    Throws = TRUE
    Aborts = TRUE
SPECIFICATION FairSpec
CHECK_DEADLOCK FALSE
INVARIANTS
    CctorRunsOnce
    OutcomeAgrees
    DeadlockNeedsACycle
PROPERTIES
    SeenIsInitialised
    WaitersGoOn

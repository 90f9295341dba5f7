SPECIFICATION FairSpec
CONSTANTS
    Workers = {w1, w2}
    Internal = {w1}
    Stuck = {}
    Main = main
    Finalizer = finalizer
    MaxSlots = 2
    SemaphoreMaximum = 1
INVARIANTS
    StaticsAreReady
    NobodySurvives
    WaiterIsOwedARound
PROPERTIES
    ShutdownEnds
CHECK_DEADLOCK FALSE

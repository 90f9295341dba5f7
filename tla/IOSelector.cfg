SPECIFICATION FairSpec
CONSTANTS
    Jobs <- MCJobs
    Closing = {1}
    UPDATES_CAPACITY = 2
INVARIANTS
    WaitersAreOwedABroadcast
    RemovalIsDone
    TablesAgree
    JobHasAPlace
PROPERTIES
    UpdatesAreApplied
    
CHECK_DEADLOCK FALSE

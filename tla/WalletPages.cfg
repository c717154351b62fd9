SPECIFICATION Spec
CONSTANTS
    Limit = 2
    Start = 5
    MaxMoves = 6
    MaxCalls = 6
    MaxFaults = 1
INVARIANTS
    CacheFresh
    OutOfSyncOnlyIfMoved
    PagesTile
PROPERTIES
    EventuallyFresh
CHECK_DEADLOCK FALSE

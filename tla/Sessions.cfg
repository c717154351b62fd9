\* Two tabs, three calls, one lost message, reload or login elsewhere.
CONSTANTS
    MaxTabs = 2
    MaxCalls = 3
    MaxExpiries = 1
    MaxFaults = 1
SPECIFICATION Spec
INVARIANTS
    TypeOK
    SingleUse
    OneAccount
    StorageAgrees
PROPERTIES
    CallsSettle
CHECK_DEADLOCK FALSE

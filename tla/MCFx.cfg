SPECIFICATION MCSpec
CONSTANTS
    Workers = {w1, w2}
    MaxFeeds = 2
    MaxFaults = 2
    Codes = {"USD", "EUR", "GBP"}
    MaxCalls = 7
    MaxFailures = 1
INVARIANT ShowsSelected
PROPERTIES
    ServiceEventuallyCurrent
CHECK_DEADLOCK FALSE

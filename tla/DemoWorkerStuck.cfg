SPECIFICATION FairSpec
CONSTANTS
    MaxRequests = 1
    Workers = {w1}
    Operators = {}
    HasFilestore = TRUE
    MaxAttempts = 2
    MaxTime = 1
    MaxCrashes = 0
    MaxEdits = 0
    MaxFaults = 0
PROPERTY QueuedIsCloned
CHECK_DEADLOCK FALSE

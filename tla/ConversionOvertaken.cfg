SPECIFICATION Spec
CONSTANTS
    MaxTrials = 1
    Limit = 1
    AutoTerminate = FALSE
    MaxTime = 2
    MaxOps = 1
    MaxFaults = 0
    MaxCrashes = 0
PROPERTY ConversionStands
CHECK_DEADLOCK FALSE

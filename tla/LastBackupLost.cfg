\* Two retention runs on lists of different days remove the last good backup.
SPECIFICATION Spec
CONSTANTS
    MaxBackups = 2
    MaxRestores = 1
    MaxRetained = 1
    Quota = 2
    LateFaults = FALSE
    MaxTime = 2
    MaxFaults = 0
    MaxCrashes = 0
PROPERTY LastKnownGoodKept
CHECK_DEADLOCK FALSE

\* Backups, manual acceptance tenants and webhooks side by side.
SPECIFICATION Spec
CONSTANTS
    MaxBackups = 2
    MaxRestores = 1
    MaxRetained = 1
    Quota = 1
    LateFaults = FALSE
    MaxTime = 2
    MaxFaults = 1
    MaxCrashes = 1
    MaxAccounts = 2
    MaxRequests = 3
    MaxSuccess = 4
    MaxRuns = 3
    ResetOverlaps = FALSE
    Commits = {"c1", "c2"}
    MaxDeliveries = 3
    MaxRepeats = 1
    MaxRefusals = 1
    MaxKills = 1
    MaxPages = 1
INVARIANT RestoreIsWhole
INVARIANT ReadyIsServed
INVARIANT NothingOrphaned
INVARIANT OneProvisioner
INVARIANT OneBuildPerCommit
PROPERTY GoodBackupKept
PROPERTY BackupEnds
PROPERTY PushIsBuilt
CHECK_DEADLOCK FALSE

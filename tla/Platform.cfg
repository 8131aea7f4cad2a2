CONSTANTS
    DeployTrials = 1
    MaxTrials = 2
    Tabs = {b1, b2}
    Plans = {p1, p2}
    AppLimit = 2
    MaxBuilds = 1
    MaxEdits = 1
    MaxCrashes = 1
    MaxFaults = 1
    Limit = 1
    AutoTerminate = TRUE
    MaxTime = 4
    MaxOps = 3
    Selections <- SmallSelections
    Modules <- SmallModules
    Catalogs <- SmallCatalogs
    Rulesets <- SmallRulesets
    Requests <- SmallRequests
SPECIFICATION Spec
INVARIANT DeployedIsServed
INVARIANT RolledBackIsClean
INVARIANT TrialIsServed
INVARIANT RetentionKept
INVARIANT ValidInstallsClosure
PROPERTY ConfirmedIsDecided
PROPERTY ExpiredIsSuspended
CHECK_DEADLOCK FALSE

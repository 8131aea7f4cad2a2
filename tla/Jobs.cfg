\* Two operators at a time on one build, against its pipeline, with a crash and
\* docker refusing removals; two requests for one subscription, with
\* reconciliation, a crash and a database that is not dropped.
CONSTANTS
    MaxBuilds = 1
    Projects = {p1}
    PortMin = 1
    PortMax = 1
    MaxConcurrent = 1
    BuildOps = {"create", "execute", "cancel", "stop", "restart", "delete"}
    MaxBuildCrashes = 1
    RemovalFaults = TRUE
    MaxJobs = 2
    Subscriptions = {s1}
    Keys = {k1, k2}
    MaxAttempts = 2
    Daemon = worker
    Handlers = {h1, h2}
    Ops = {"queue", "reconcile"}
    Refusing = {"database"}
    SlowJobs = FALSE
    MaxCrashes = 1
SPECIFICATION BothSpec
SYMMETRY Symmetry
INVARIANT ExecutingHasThread
INVARIANT RunningIsServed
INVARIANT SucceededIsServed
INVARIANT FirstRollbackIsClean
CHECK_DEADLOCK FALSE

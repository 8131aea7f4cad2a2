\* Two builds of one project for one slot and two ports, created by two requests
\* at a time, with a crash; one provisioning job with three attempts, operators'
\* retries, two deaths and refused removals.
CONSTANTS
    MaxBuilds = 2
    Projects = {p1}
    PortMin = 1
    PortMax = 2
    MaxConcurrent = 1
    Handlers = {h1, h2}
    Ops = {"create", "stop"}
    MaxCrashes = 1
    RemovalFaults = FALSE
    MaxJobs = 1
    Subscriptions = {s1}
    Keys = {k1}
    MaxAttempts = 3
    Daemon = worker
    JobHandlers = {j1}
    JobOps = {"queue", "retry", "reconcile"}
    Refusing = {"container", "database", "role", "filestore"}
    SlowJobs = FALSE
    MaxJobCrashes = 2
SPECIFICATION BothSpec
INVARIANT ClaimsWithinCapacity
PROPERTY QueuedStarts
PROPERTY JobsMoveOn
CHECK_DEADLOCK FALSE

\* The same liveness when stopped builds are restarted.
CONSTANTS
    MaxBuilds = 2
    Projects = {p1}
    PortMin = 1
    PortMax = 2
    MaxConcurrent = 1
    Handlers = {h1, h2}
    Ops = {"create", "stop", "restart"}
    MaxCrashes = 0
    RemovalFaults = FALSE
SPECIFICATION FairSpec
PROPERTY
    QueuedStarts
CHECK_DEADLOCK FALSE

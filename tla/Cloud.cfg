\* Two reservations on two nodes with two handlers; one customer request of a plan
\* that needs a quote, the worker loop and a bounded run beside it, two crashes,
\* one edit, one removal that fails; one demo with its worker and an operator.
CONSTANTS
    MaxReservations = 2
    Nodes = {1, 2}
    Sellable = 3
    Seeded = 1
    Sizes = {1, 2}
    Handlers = {h1, h2}
    Ops = {"reserve", "sweep", "bind", "confirm", "fail"}
    MaxRequests = 1
    Workers = {w1, w2}
    QuoteRequests = {1}
    MaxAttempts = 2
    MaxRuns = 2
    MaxCrashes = 2
    MaxEdits = 1
    MaxFaults = 1
    Overlap = FALSE
    DemoWorkers = {d1}
    Operators = {op}
    HasFilestore = TRUE
    MaxTime = 5
    DemoCrashes = 1
    DemoFaults = 2
SPECIFICATION CloudSpec
INVARIANT CountersExact
INVARIANT NotOversold
INVARIANT PaidIsCommitted
INVARIANT OpenIsServed
INVARIANT OneExecutor
INVARIANT RolledBackIsClean
INVARIANT LaunchIsServed
INVARIANT UnservedIsClean
PROPERTY ApprovedIsServed
CHECK_DEADLOCK FALSE

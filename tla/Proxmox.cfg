CONSTANTS
    Jobs = {j1, j2}
    Nodes = {n1}
    Workers = {w1}
    Operators = {o1, o2}
    MaxVmid = 2
    MaxAttempts = 2
    MaxRetries = 1
    MaxCrashes = 1
    Overlap = FALSE
    Overtaken = FALSE
    MaxCalls = 4
    MaxDrifts = 2
SYMMETRY Symmetry
SPECIFICATION Spec
INVARIANT NodesNotOversold
INVARIANT OneDispatch
INVARIANT VmIsLeased
INVARIANT MadeOnce
CHECK_DEADLOCK FALSE

SPECIFICATION Spec
CONSTANTS
    Events = {1, 2, 3}
    Starters = {}
    Rebuilders = {r1}
    AutoRebuild = FALSE
    AppendInOrder = FALSE
    Batch = 1
    MaxRetries = 1
    DispatchRetries = 1
    MaxFailures = 0
    Operated = FALSE
SYMMETRY Symmetry
INVARIANTS
    RebuiltExactly
CHECK_DEADLOCK FALSE

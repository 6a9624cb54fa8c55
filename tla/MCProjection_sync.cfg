\* A start-up rebuild, page by page, and the live dispatch after it.
SPECIFICATION Spec
CONSTANTS
    Events = {1, 2, 3, 4, 5}
    Starters = {s1}
    Rebuilders = {}
    AutoRebuild = TRUE
    AppendInOrder = TRUE
    Batch = 2
    MaxRetries = 1
    DispatchRetries = 1
    MaxFailures = 1
    Operated = TRUE
INVARIANTS
    TypeOK
    RebuiltExactly
    NeverTwice
CHECK_DEADLOCK FALSE

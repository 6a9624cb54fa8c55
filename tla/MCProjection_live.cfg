\* Live dispatch with both levels of retries, while operators interfere.
SPECIFICATION FairSpec
CONSTANTS
    Events = {1}
    Starters = {s1, s2}
    Rebuilders = {r1}
    AutoRebuild = FALSE
    AppendInOrder = TRUE
    Batch = 1
    MaxRetries = 2
    DispatchRetries = 6
    MaxFailures = 12
    Operated = TRUE
INVARIANTS
    DuplicatesFromFailures
PROPERTIES
    DispatchEnds
CHECK_DEADLOCK FALSE

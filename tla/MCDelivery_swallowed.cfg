\* One subscriber, one handler that throws.
SPECIFICATION Spec
CONSTANTS
    Messages = {1}
    Subscribers = {s1}
    Ticks = {t1}
    Limit = 1
    InTransaction = {}
    OneAggregate = TRUE
    HandlersFail = TRUE
    MaxFaults = 1
INVARIANTS
    PublishedIsApplied
CHECK_DEADLOCK FALSE

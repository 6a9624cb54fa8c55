\* One tick at a time and one subscriber that writes beside its unit of work.
SPECIFICATION Spec
CONSTANTS
    Messages = {1, 2, 3}
    Subscribers = {s1}
    Ticks = {t1}
    Limit = 2
    InTransaction = {}
    OneAggregate = TRUE
    HandlersFail = FALSE
    MaxFaults = 3
INVARIANTS
    TypeOK
    BatchIsFresh
    InOrder
PROPERTIES
    ImplementsQueue
CHECK_DEADLOCK FALSE

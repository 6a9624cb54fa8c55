\* Two overlapping ticks and two subscribers; handlers may throw.
SPECIFICATION FairSpec
CONSTANTS
    Messages = {1, 2}
    Subscribers = {s1, s2}
    Ticks = {t1, t2}
    Limit = 1
    InTransaction = {s1}
    OneAggregate = FALSE
    HandlersFail = TRUE
    MaxFaults = 1
INVARIANTS
    RepeatsExplained
    InboxAgreesWithEffects
PROPERTIES
    AllPublished
CHECK_DEADLOCK FALSE

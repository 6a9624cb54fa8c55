\* Two subscribers of TenantCreated, the role's and the tenant projection.
SPECIFICATION Spec
CONSTANTS
    Messages = {1}
    Subscribers = {s1, s2}
    Ticks = {t1}
    Limit = 1
    InTransaction = {s1}
    OneAggregate = TRUE
    HandlersFail = FALSE
    MaxFaults = 0
INVARIANTS
    PublishedIsApplied
CHECK_DEADLOCK FALSE

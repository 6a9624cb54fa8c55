\* A command that may fail between its event insert and its outbox insert.
SPECIFICATION Spec
CONSTANTS
    Commands = {c1, c2}
    Streams = {s1}
    Tenants = {s1}
    MaxEvents = 2
INVARIANTS NoUnannouncedEvents
CHECK_DEADLOCK FALSE

\* Commands on two aggregates, with a fair event loop.
SPECIFICATION FairSpec
CONSTANTS
    Commands = {c1, c2, c3}
    Streams = {s1, s2}
    Tenants = {s1}
    MaxEvents = 2
INVARIANTS TypeOK GapFree Serialized OutboxFollowsStore ConflictMeansOvertaken
PROPERTIES ImplementsLog EventuallySettled
CHECK_DEADLOCK FALSE

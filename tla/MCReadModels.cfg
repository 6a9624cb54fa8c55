\* A bill of up to three events, or two sign-ups and a tenant, two ticks; or
\* four keys of metadata, their pages and reports; or the scores of one of them;
\* or the events of two aggregates; or of two tenants.  InTransaction decides when
\* `applied` counts, which nothing here reads: the read models have their rows.
SPECIFICATION ReadModelSpec
CONSTANTS
    Messages = {1, 2, 3}
    SignUps = {1, 3}
    RoleIds <- RoleIdsGiven
    Subscribers = {s1}
    Ticks = {t1, t2}
    Limit = 2
    InTransaction = {}
    OneAggregate = TRUE
    HandlersFail = TRUE
    MaxFaults = 2
    MetadataKeys <- KeysGiven
    MetadataRows <- RowsGiven
    PageLimit = 2
    MaxImports = 4
    Callers = {c1}
    ReportIds = {"r1"}
    AverageParts = 12
    ReportBatches <- BatchesGiven
    StrictModes = {TRUE, FALSE}
    Beginnings <- BeginningsGiven
    Amounts = {0, 99, 100, 499, 500, 5000}
    MaxChanges = 6
    Streams = {"a", "b"}
    RegistryEntries <- EntriesGiven
    ArchiveCommands <- CommandsGiven
    ArchiveTimes = {1, 2}
    DataStrings = {"__type", "value", "Date", "at", "list", "own", "0", "1", "d", "b", "t", "x"}
    ArchiveQueries <- QueriesGiven
    UpgradeTargets = {2, 4}
    MaxArchived = 3
    AnalyticsTenants = {"t1", "t2"}
    MaxTenantEvents = 4
    MaxHandleFailures = 1
INVARIANTS
    ReadModelsTypeOK
    RowIsPast
    RowCatchesUp
    RolesAssigned
    PagesComplete
    ReportsTrue
    EventsReadBack
    AnalyticsTrue
PROPERTIES
    RowMovesForward
    ScoreMonotone
CONSTRAINT FollowedFurther
CHECK_DEADLOCK FALSE

\* Two sessions with a user, or a tenant, a document, a bill, a syncable
\* aggregate, a command, a membership, or two requests.
SPECIFICATION AggregatesSpec
CONSTANTS
    Sessions = {s1, s2}
    PlainRoles = {"TenantMember", "Auditor"}
    AdminRoles = {"TenantOwner"}
    Tenants = {t1}
    MaxUserEvents = 4
    EnableSoftDelete = TRUE
    EnableAuditTracking = TRUE
    Members = {m1, m2, m3}
    RawNames <- TenantNamesGiven
    Placeholder = "rehydrate-placeholder"
    Limits = {1, 2, 3, 4, 20001}
    DefaultLimit = 100
    Titles = {"t1", "t2"}
    Contents <- ContentsGiven
    DocumentTags = {"g"}
    MaxDocumentEvents = 5
    BillTags = {"vip"}
    MaxBillEvents = 4
    Actors = {"ann", "bob"}
    Data = {"d1", "d2"}
    Systems = {"erp"}
    MaxClock = 3
    MaxSyncVersion = 4
    Commands = {c1, c2}
    CommandTypes = {"CreateBilling", "CreateTenant"}
    QueryTypes = {"GetBilling", "CreateTenant"}
    ProviderLists <- ProvidersGiven
    Holders = {h1, h2}
    RawRoleKeys <- RawRoleKeysGiven
    MaxMembershipEvents = 4
    HttpRequests = {q1, q2}
    People = {p1, p2}
    RequiredRoutes = {}
    DefaultRequired = FALSE
    IgnoredRoutes = {}
INVARIANTS
    AggregatesTypeOK
    LegalLife
    InstanceFollowsEvents
    ContextKept
    WithinLimit
    EmbeddingIsCurrent
    ReloadAgrees
    SyncedIsSent
    AuditConsistent
    AuditTellsCaller
CHECK_DEADLOCK FALSE

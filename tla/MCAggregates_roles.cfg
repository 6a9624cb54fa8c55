\* One role, so that none can be revoked: what is lost is lost by the reload.
SPECIFICATION AggregatesSpec
CONSTANTS
    Sessions = {s1, s2}
    PlainRoles = {"TenantMember"}
    AdminRoles = {"TenantOwner"}
    Tenants = {t1}
    MaxUserEvents = 2
    EnableSoftDelete = TRUE
    EnableAuditTracking = TRUE
    Members = {m1, m2, m3}
    RawNames <- TenantNamesGiven
    Placeholder = "rehydrate-placeholder"
    Limits = {2}
    DefaultLimit = 100
    Titles = {"t1", "t2"}
    Contents <- ContentsGiven
    DocumentTags = {"g"}
    MaxDocumentEvents = 1
    BillTags = {"vip"}
    MaxBillEvents = 1
    Actors = {"ann", "bob"}
    Data = {"d1", "d2"}
    Systems = {"erp"}
    MaxClock = 1
    MaxSyncVersion = 1
    Commands = {c1, c2}
    CommandTypes = {"CreateBilling", "CreateTenant"}
    QueryTypes = {"GetBilling", "CreateTenant"}
    ProviderLists <- ProvidersGiven
    Holders = {h1, h2}
    RawRoleKeys <- RawRoleKeysGiven
    MaxMembershipEvents = 4
    HttpRequests = {q1, q2}
    People = {p1, p2}
    RequiredRoutes = {}
    DefaultRequired = FALSE
    IgnoredRoutes = {}
INVARIANTS RolesFollowEvents
CHECK_DEADLOCK FALSE

--------------------------- MODULE TenantAnalytics ---------------------------
(***************************************************************************)
(* What the projection TenantAnalytics makes of tenants' events: the row   *)
(* of each tenant, and the statements a handler sends for an event, each   *)
(* committed by itself.  Live events are handled beside one another, and   *)
(* again after a failure; a rebuild takes them one by one.  How events get *)
(* here, and what a rebuild does beside live events, is in Projection.     *)
(***************************************************************************)
EXTENDS Integers, FiniteSets, Sequences

CONSTANTS
    AnalyticsTenants,  \* tenants
    MaxTenantEvents,   \* bound: events
    MaxHandleFailures  \* bound: attempts that fail

VARIABLES
    tenantEvents,  \* the events stored, [tenantId, eventType]; the index is the time
    handled,      \* of each: statements executed, attempts failed, how it ended
    analytics,     \* tenant_analytics_read_model: the row of a tenant
    missed,        \* tenants for which an update found no row
    replaying      \* the events are handled by a rebuild

analyticsVars == <<tenantEvents, handled, analytics, missed, replaying>>

ASSUME AnalyticsAssumption == MaxTenantEvents \in Nat /\ MaxHandleFailures \in Nat

subscribedEvents == {"TenantCreated", "TenantActivated", "TenantSuspended", "MemberAdded", "MemberRemoved"}
Moments == 1 .. MaxTenantEvents
TenantAnalyticsReadModel ==
    [status : {"active", "suspended"}, memberCount : Int, lastActiveAt : Moments]
Open == [executed |-> 0, failed |-> 0, ended |-> "no"]

AnalyticsTypeOK ==
    /\ DOMAIN analytics \subseteq AnalyticsTenants
    /\ \A t \in DOMAIN analytics : analytics[t] \in TenantAnalyticsReadModel
    /\ handled \in Seq([executed : 0 .. 2, failed : 0 .. MaxHandleFailures,
                         ended : {"no", "done", "abandoned"}])

OfTenant(t) == {i \in DOMAIN tenantEvents : tenantEvents[i].tenantId = t}
Of(t, types) == {i \in OfTenant(t) : tenantEvents[i].eventType \in types}
Ended(i) == handled[i].ended # "no"
FailedAttempts == UNION {{i} \X (1 .. handled[i].failed) : i \in DOMAIN handled}

-----------------------------------------------------------------------------
(* The repository's statements.  An update that finds no row is not noticed. *)

upsert(t, time) ==
    /\ analytics' = [u \in DOMAIN analytics \cup {t} |->
                        IF u = t THEN [status |-> "active", memberCount |-> 0, lastActiveAt |-> time]
                        ELSE analytics[u]]
    /\ UNCHANGED missed

\* Faulty form: the update has no condition.
UpdateEveryRow(t, rows) ==
    /\ analytics' = rows
    /\ missed' = IF t \in DOMAIN analytics THEN missed ELSE missed \cup {t}

\* The columns that are set, as they would be in every row, are so in the tenant's.
UpdateRow(t, rows) ==
    /\ analytics' = [u \in DOMAIN analytics |-> IF u = t THEN rows[u] ELSE analytics[u]]
    /\ missed' = IF t \in DOMAIN analytics THEN missed ELSE missed \cup {t}

incrementMemberCount(t, delta) ==
    UpdateRow(t, [u \in DOMAIN analytics |-> [analytics[u] EXCEPT !.memberCount = @ + delta]])
updateStatus(t, status) ==
    UpdateRow(t, [u \in DOMAIN analytics |-> [analytics[u] EXCEPT !.status = status]])
updateLastActiveAt(t, time) ==
    UpdateRow(t, [u \in DOMAIN analytics |-> [analytics[u] EXCEPT !.lastActiveAt = time]])

clear == analytics' = <<>> /\ missed' = {}

-----------------------------------------------------------------------------
(* The handlers: the n-th statement for event i. *)

handleTenantCreated(t, i, n) == n = 1 /\ upsert(t, i)
handleTenantActivated(t, i, n) ==
    \/ n = 1 /\ updateStatus(t, "active")
    \/ n = 2 /\ updateLastActiveAt(t, i)
handleTenantSuspended(t, n) == n = 1 /\ updateStatus(t, "suspended")
handleMemberAdded(t, i, n) ==
    \/ n = 1 /\ incrementMemberCount(t, 1)
    \/ n = 2 /\ updateLastActiveAt(t, i)
handleMemberRemoved(t, n) == n = 1 /\ incrementMemberCount(t, -1)

Statements(i) == IF tenantEvents[i].eventType \in {"TenantActivated", "MemberAdded"} THEN 2 ELSE 1

handleEvent(i, n) ==
    LET t == tenantEvents[i].tenantId
        type == tenantEvents[i].eventType
    IN
    \/ type = "TenantCreated" /\ handleTenantCreated(t, i, n)
    \/ type = "TenantActivated" /\ handleTenantActivated(t, i, n)
    \/ type = "TenantSuspended" /\ handleTenantSuspended(t, n)
    \/ type = "MemberAdded" /\ handleMemberAdded(t, i, n)
    \/ type = "MemberRemoved" /\ handleMemberRemoved(t, n)

\* A rebuild is at the first event that has not ended.
Handled(i) == ~Ended(i) /\ (replaying => \A j \in 1 .. i - 1 : Ended(j))

Execute(i) ==
    LET n == handled[i].executed + 1 IN
    /\ Handled(i)
    /\ handleEvent(i, n)
    /\ handled' = [handled EXCEPT ![i].executed = n,
                                    ![i].ended = IF n = Statements(i) THEN "done" ELSE "no"]
    /\ UNCHANGED <<tenantEvents, replaying>>

\* A statement fails.  A live event starts over, or is given up; a rebuild is.
HandlingFails(i) ==
    /\ Handled(i)
    /\ Cardinality(FailedAttempts) < MaxHandleFailures
    /\ IF replaying
       THEN handled' = [j \in DOMAIN handled |-> IF Ended(j) THEN handled[j]
                             ELSE [handled[j] EXCEPT !.failed = @ + (IF j = i THEN 1 ELSE 0),
                                                      !.ended = "abandoned"]]
       ELSE \E end \in {"no", "abandoned"} :
              handled' = [handled EXCEPT ![i] = [executed |-> 0, failed |-> @.failed + 1, ended |-> end]]
    /\ UNCHANGED <<tenantEvents, analytics, missed, replaying>>

-----------------------------------------------------------------------------
AllEnded == \A i \in DOMAIN handled : Ended(i)

\* A tenant's first event, and only that, is TenantCreated.
StoreTenantEvent(t, type) ==
    /\ Len(tenantEvents) < MaxTenantEvents
    /\ type = "TenantCreated" <=> OfTenant(t) = {}
    /\ replaying => AllEnded
    /\ tenantEvents' = Append(tenantEvents, [tenantId |-> t, eventType |-> type])
    /\ handled' = Append(handled, Open)
    /\ replaying' = FALSE
    /\ UNCHANGED <<analytics, missed>>

clearReadModels ==
    /\ AllEnded /\ handled # <<>>
    /\ clear
    /\ handled' = [i \in DOMAIN handled |-> [Open EXCEPT !.failed = handled[i].failed]]
    /\ replaying' = TRUE
    /\ UNCHANGED tenantEvents

AnalyticsInit ==
    /\ tenantEvents = <<>> /\ handled = <<>>
    /\ analytics = <<>> /\ missed = {}
    /\ replaying = FALSE

AnalyticsNext ==
    \/ \E t \in AnalyticsTenants, type \in subscribedEvents : StoreTenantEvent(t, type)
    \/ \E i \in Moments \cap DOMAIN handled : Execute(i) \/ HandlingFails(i)
    \/ clearReadModels

AnalyticsSpec == AnalyticsInit /\ [][AnalyticsNext]_analyticsVars

-----------------------------------------------------------------------------
Latest(moments) == CHOOSE i \in moments : \A j \in moments : j <= i
Net(t) == Cardinality(Of(t, {"MemberAdded"})) - Cardinality(Of(t, {"MemberRemoved"}))
Repeated(t) == Cardinality({a \in FailedAttempts : a[1] \in Of(t, {"MemberAdded"})})

\* Events of a tenant that are all handled, none of them before its row was
\* there, leave the number of its members, whatever the order of their
\* statements; only an attempt that failed can have counted a member twice
\* (projection.base.ts:183).  A rebuild leaves exactly the row that the events
\* tell, taken in order: its status is the last one, and it was last active when
\* it was created or activated, or a member was added.
AnalyticsTrue ==
    \A t \in AnalyticsTenants :
        (OfTenant(t) # {} /\ t \notin missed /\ \A i \in OfTenant(t) : handled[i].ended = "done") =>
            LET row == analytics[t]
                status == Latest(Of(t, {"TenantCreated", "TenantActivated", "TenantSuspended"}))
            IN
            /\ row.memberCount \in Net(t) .. Net(t) + Repeated(t)
            /\ replaying =>
                 row = [memberCount |-> Net(t),
                        status |-> IF tenantEvents[status].eventType = "TenantSuspended"
                                   THEN "suspended" ELSE "active",
                        lastActiveAt |-> Latest(Of(t, subscribedEvents \ {"TenantSuspended", "MemberRemoved"}))]

=============================================================================

---------------------------- MODULE MCReadModels ----------------------------
(* The read side for TLC: the two read models that messages build, the metadata
   table with its reader and its reports, the scores, the archive of events, and
   the analytics of tenants.  A behaviour is one of one of them. *)
EXTENDS BillingReadModel, RoleReadModel, AnalyticsReports, QualityScores, EventArchive,
    TenantAnalytics

\* All ids differ, a tenant's is that of the first sign-up, or the first sign-up
\* leads to none and the tenant's is that of the second.
RoleIdsGiven == {<<1, 2, 3>>, <<1, 1, 2>>, <<Nobody, 1, 1>>}

KeysGiven ==
    {[tenantId |-> "t1", aggregateType |-> "Tenant", aggregateId |-> "a"],
     [tenantId |-> "t1", aggregateType |-> "User", aggregateId |-> "a"],
     [tenantId |-> "t1", aggregateType |-> "User", aggregateId |-> "b"],
     [tenantId |-> "t2", aggregateType |-> "User", aggregateId |-> "b"]}

RowsGiven ==
    LET R(time, category, tags, quality, embedding, sync) ==
            [createdAt |-> time, isDeleted |-> FALSE, category |-> category, tags |-> tags,
             qualityScore |-> quality, embeddingStatus |-> embedding, syncStatus |-> sync]
    IN  {R(1, Null, NoTags, NoScore, "STALE", "SYNCED"), R(2, "c", {"vip"}, 45, Null, "FAILED"),
         R(3, "c", {}, 90, "SYNCED", Null)}

\* One list refused at once, and one at the second report; in one a report is
\* made twice, and one report has no count.
BatchesGiven ==
    LET C(type, groupBy, tenant, start, end) ==
            [id |-> "r1", type |-> type, groupBy |-> groupBy, tenantId |-> tenant,
             aggregateType |-> {}, category |-> {}, count |-> "count", average |-> "avg_score",
             sums |-> FALSE, tags |-> {}, start |-> start, end |-> end]
    IN  {<<C("QUALITY", "aggregate_type", "t1", 0, 0), C("QUALITY", "category", "t1", 0, 0)>>,
         <<C("TREND", "category", "t1", 2, 3), getReportTemplate("QUALITY"),
           getReportTemplate("COMPARISON")>>,
         <<C("TREND", "category", "t2", 2, 0)>>,
         <<[C("SUMMARY", "category", "t1", 0, 0) EXCEPT !.aggregateType = {"User"},
                !.category = {"c"}, !.count = Null]>>}

BeginningsGiven ==
    {{}, {"aggregateId", "tenantId", "createdBy", "analyzable"},
     Fields \ {"aiEnabled", "syncable"}}

EntriesGiven ==
    {[eventType |-> "A", accepts |-> {"object"}, upgraders |-> {1, 3}],
     [eventType |-> "B", accepts |-> {"object", "array"}, upgraders |-> {2}]}

\* Dates and buffers within objects and arrays, encoded or not, data with none of
\* these, and with a marker.
CommandsGiven ==
    LET Event(type, version, data, encoded) ==
            [eventType |-> type, schemaVersion |-> version, eventData |-> data, encoded |-> encoded]
        A(kind) == [kind |-> kind]
        Value(kind, value) == [kind |-> kind, value |-> value]
        nested == <<>> :> Object @@ <<"at">> :> Value("Date", "d") @@ <<"list">> :> A("array")
                      @@ <<"list", "0">> :> Value("Buffer", "b") @@ <<"list", "1">> :> A("null")
        plain == <<>> :> Object @@ <<"list">> :> A("array") @@ <<"list", "0">> :> Text("t")
        marked == <<>> :> Object @@ <<"own">> :> Object @@ <<"own", "__type">> :> Text("Date")
                      @@ <<"own", "value">> :> Text("x")
    IN  {<<Event("A", 1, nested, TRUE)>>,
         <<Event("B", 0, plain, FALSE), Event("A", 2, nested, FALSE)>>,
         <<Event("B", 1, marked, TRUE), Event("A", 1, marked, FALSE), Event("A", 1, plain, TRUE)>>}

QueriesGiven ==
    LET All == [aggregateId |-> {}, eventTypes |-> {}, from |-> 0, to |-> MaxArchived,
                fromVersion |-> 0]
        Q(filter, ascending, limit, offset) ==
            [filter |-> filter,
             options |-> [ascending |-> ascending, limit |-> limit, offset |-> offset]]
    IN  {Q(All, TRUE, limit, offset) : limit \in {2, Unlimited}, offset \in {0, 1}}
            \cup {Q([All EXCEPT !.aggregateId = {"a"}, !.fromVersion = 1], FALSE, Unlimited, 0),
                  Q([All EXCEPT !.eventTypes = {"A"}, !.from = 2, !.to = 2], FALSE, 2, 1)}

otherVars == <<metadataVars, reportVars, qualityVars, archiveVars, analyticsVars>>

ReadModelInit ==
    /\ Init
    /\ \E readModel \in {"billing", "roles", "metadata", "reports", "quality", "archive",
                         "analytics"} : WatchInit(readModel)
    /\ BillingInit
    /\ RoleInit /\ (which # "roles" => \A m \in Messages : roleId[m] = m)
    /\ MetadataInit
    /\ ReportsInit
    /\ AnalyticsInit
    /\ ArchiveInit /\ (which # "archive" => upgrading.eventType = "A")
    /\ QualityInit /\ (which # "quality" => ~strictMode /\ scored.fields = {})

ReadModelNext ==
    /\ \/ which = "billing" /\ BillingNext /\ UNCHANGED <<roleVars, otherVars>>
       \/ which = "roles" /\ RoleNext /\ UNCHANGED <<billingVars, otherVars>>
       \/ /\ UNCHANGED <<vars, watchVars, billingVars, roleVars>>
          /\ \/ which = "metadata" /\ MetadataNext
                /\ UNCHANGED <<reportVars, qualityVars, archiveVars, analyticsVars>>
             \/ which = "reports" /\ ReportsNext
                /\ UNCHANGED <<qualityVars, archiveVars, analyticsVars>>
             \/ which = "quality" /\ QualityNext
                /\ UNCHANGED <<metadataVars, reportVars, archiveVars, analyticsVars>>
             \/ which = "archive" /\ ArchiveNext
                /\ UNCHANGED <<metadataVars, reportVars, qualityVars, analyticsVars>>
             \/ which = "analytics" /\ AnalyticsNext
                /\ UNCHANGED <<metadataVars, reportVars, qualityVars, archiveVars>>

ReadModelSpec ==
    ReadModelInit /\ [][ReadModelNext]_<<vars, watchVars, billingVars, roleVars, otherVars>>

\* Nothing is said of roles once their delivery is disturbed: of such behaviours
\* only those without faults are followed further.  Upgraders are called with data
\* of no stored event: where they are, no event is stored first.
FollowedFurther ==
    /\ which = "roles" /\ disturbed => faults = 0
    /\ upgrading.version # 1 => archive = <<>>

\* The variables of every part have their types.
ReadModelsTypeOK ==
    /\ BillingTypeOK /\ RoleTypeOK /\ MetadataTypeOK /\ ReportsTypeOK /\ QualityTypeOK
    /\ ArchiveTypeOK /\ AnalyticsTypeOK

\* ArchiveFaithful, of the behaviours in which events are stored: what has been
\* stored is read back, from snapshots, in batches, and by the codec.
EventsReadBack == which = "archive" => ArchiveFaithful

=============================================================================

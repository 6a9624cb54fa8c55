---------------------------- MODULE MCAggregates ----------------------------
(* Small instances of the aggregates, of the pipeline that commands take to them,
   and of the requests that bring the commands, for TLC: a behaviour is one of one
   of them. *)
EXTENDS UserAggregate, TenantAggregate, DocumentAggregate, BillingAggregate, SyncableAggregate,
    CommandPipeline, TenantMembership, RequestContext

VARIABLES
    aggregate  \* which one

aggregateVars ==
    <<userVars, tenantVars, documentVars, billingVars, syncVars, pipelineVars, memberVars,
      contextVars, aggregate>>

TenantNamesGiven ==
    {[text |-> "ab", length |-> 2, plain |-> TRUE, hyphenated |-> FALSE],
     [text |-> "rehydrate-placeholder", length |-> 21, plain |-> TRUE, hyphenated |-> FALSE],
     [text |-> "a", length |-> 1, plain |-> TRUE, hyphenated |-> FALSE],
     [text |-> "a b", length |-> 3, plain |-> FALSE, hyphenated |-> FALSE],
     [text |-> "-ab", length |-> 3, plain |-> TRUE, hyphenated |-> TRUE]}

\* The third differs from the first in what is not embedded.
ContentsGiven ==
    {[head |-> "h1", rest |-> "r1"], [head |-> "h2", rest |-> "r1"], [head |-> "h1", rest |-> "r2"]}

\* In the first a query has the name of a command without handler; the second has two
\* handlers of one type.
ProvidersGiven ==
    LET command == [bus |-> "command", type |-> "CreateBilling"]
    IN  {<<command, [bus |-> "query", type |-> "CreateTenant"]>>, <<command, command>>}

RawRoleKeysGiven ==
    {[trimmed |-> "TenantMember", pascalCase |-> TRUE], [trimmed |-> "TenantOwner", pascalCase |-> TRUE],
     [trimmed |-> "", pascalCase |-> FALSE]}

AggregatesInit ==
    /\ UserInit /\ TenantInit /\ DocumentInit /\ BillingAggregateInit /\ SyncInit /\ MembershipInit
    /\ ContextInit
    /\ aggregate \in {"user", "tenant", "document", "billing", "syncable", "command",
                      "membership", "request"}
    /\ PipelineInit /\ (aggregate # "command" => options = {} /\ providers[2].bus = "query")

AggregatesNext ==
    /\ UNCHANGED aggregate
    /\ \/ aggregate = "user" /\ UserNext
          /\ UNCHANGED <<tenantVars, documentVars, billingVars, syncVars, pipelineVars,
                         memberVars, contextVars>>
       \/ aggregate = "tenant" /\ TenantNext
          /\ UNCHANGED <<userVars, documentVars, billingVars, syncVars, pipelineVars,
                         memberVars, contextVars>>
       \/ aggregate = "document" /\ DocumentNext
          /\ UNCHANGED <<userVars, tenantVars, billingVars, syncVars, pipelineVars,
                         memberVars, contextVars>>
       \/ aggregate = "billing" /\ BillingAggregateNext
          /\ UNCHANGED <<userVars, tenantVars, documentVars, syncVars, pipelineVars,
                         memberVars, contextVars>>
       \/ aggregate = "syncable" /\ SyncNext
          /\ UNCHANGED <<userVars, tenantVars, documentVars, billingVars, pipelineVars,
                         memberVars, contextVars>>
       \/ aggregate = "command" /\ PipelineNext
          /\ UNCHANGED <<userVars, tenantVars, documentVars, billingVars, syncVars,
                         memberVars, contextVars>>
       \/ aggregate = "membership" /\ MembershipNext
          /\ UNCHANGED <<userVars, tenantVars, documentVars, billingVars, syncVars,
                         pipelineVars, contextVars>>
       \/ aggregate = "request" /\ ContextNext
          /\ UNCHANGED <<userVars, tenantVars, documentVars, billingVars, syncVars,
                         pipelineVars, memberVars>>

AggregatesSpec == AggregatesInit /\ [][AggregatesNext]_aggregateVars

\* The variables of every aggregate have their types.
AggregatesTypeOK ==
    /\ UserTypeOK /\ TenantTypeOK /\ DocumentTypeOK /\ BillingAggregateTypeOK /\ SyncTypeOK
    /\ PipelineTypeOK /\ MembershipTypeOK /\ ContextTypeOK

\* An instance is what its events say: a bill and a membership survive a reload
\* (BillingAggregate, TenantMembership), and a document's events tell title and
\* status.
ReloadAgrees == BillSurvivesReload /\ DocumentTellsAll /\ MembershipSurvivesReload
=============================================================================

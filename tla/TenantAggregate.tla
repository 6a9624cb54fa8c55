--------------------------- MODULE TenantAggregate ---------------------------
(***************************************************************************)
(* The tenant aggregate and its repository.  Only TenantCreated is ever    *)
(* recorded: members, settings and a new name live in the instance and end *)
(* with it.  updateName awaits the rule's verdict before it assigns, so    *)
(* other calls on the instance come in between.  A member limit may be any *)
(* number, so limits are counted in halves.  Times are left out.           *)
(***************************************************************************)
EXTENDS AggregateRoot, Integers, FiniteSets, SequencesExt

CONSTANTS
    Members,      \* user ids
    RawNames,     \* what is given for a name: [text, length, plain, hyphenated]
    Placeholder,  \* the text 'rehydrate-placeholder'
    Limits,       \* what is given for maxMembers, in halves
    DefaultLimit  \* 50 in the source, in halves

ASSUME DefaultLimitAssumption == DefaultLimit \in 2 .. 20000

VARIABLES
    tenantStream,  \* events of the tenant in the event store
    tenant,        \* the instance a command holds
    renaming       \* names whose updateName awaits the rule

tenantVars == <<tenantStream, tenant, renaming>>

TenantEvent == [type : {"TenantCreated"}, name : {n.text : n \in RawNames}]

\* TenantName.create: 2 to 100 characters, letters, digits and hyphens only, a
\* hyphen neither first nor last.
ValidName(n) == n.length \in 2 .. 100 /\ n.plain /\ ~n.hyphenated
TenantNames == {n.text : n \in {m \in RawNames : ValidName(m)}}

\* TenantSettings.create: any finite number from 1 to 10000.
ValidLimit(l) == l \in 2 .. 20000

NoTenant ==
    [live |-> FALSE, name |-> Placeholder, limit |-> DefaultLimit, members |-> {},
     root |-> Root]

TenantTypeOK ==
    /\ tenantStream \in Seq(TenantEvent)
    /\ Len(tenantStream) <= 1
    /\ tenant \in [live : BOOLEAN, name : TenantNames \cup {Placeholder},
                   limit : Limits \cup {DefaultLimit}, members : SUBSET Members,
                   root : RootType(TenantEvent, {}, {Never})]
    /\ renaming \subseteq TenantNames

-----------------------------------------------------------------------------
ApplyTenant(t, e) == [t EXCEPT !.name = e.name]

\* Each event sets the name anew, so the last one's stays.
RehydrateTenant(events) ==
    LET t == ApplyTenant(NoTenant, Last(events))
    IN  [t EXCEPT !.live = TRUE, !.root = ResetEventStateAfterRehydrate(@, Len(events))]

TenantInit ==
    /\ tenantStream = <<>>
    /\ tenant = NoTenant
    /\ renaming = {}

\* CreateTenant takes a new id: the stream is empty.
CreateTenant(n, l) ==
    /\ ~tenant.live
    /\ tenantStream = <<>>
    /\ ValidName(n)
    /\ ValidLimit(l)
    /\ tenant' = [NoTenant EXCEPT !.live = TRUE, !.name = n.text, !.limit = l,
                                  !.root = AddDomainEvent(@, [type |-> "TenantCreated",
                                                              name |-> n.text])]
    /\ UNCHANGED <<tenantStream, renaming>>

\* Faulty form: one more than the limit.
CanAddMemberInclusive(t) == 2 * Cardinality(t.members) <= t.limit

\* CanAddMemberSpecification.
CanAddMember(t) == 2 * Cardinality(t.members) < t.limit

AddMember(u) ==
    /\ tenant.live
    /\ u \notin tenant.members
    /\ CanAddMember(tenant)
    /\ tenant' = [tenant EXCEPT !.members = @ \cup {u}]
    /\ UNCHANGED <<tenantStream, renaming>>

RemoveMember(u) ==
    /\ tenant.live
    /\ u \in tenant.members
    /\ tenant' = [tenant EXCEPT !.members = @ \ {u}]
    /\ UNCHANGED <<tenantStream, renaming>>

UpdateSettings(l) ==
    /\ tenant.live
    /\ ValidLimit(l)
    /\ l >= 2 * Cardinality(tenant.members)
    /\ l # tenant.limit
    /\ tenant' = [tenant EXCEPT !.limit = l]
    /\ UNCHANGED <<tenantStream, renaming>>

\* updateName up to its await, and after it: the rule (2 to 100 characters)
\* refuses no TenantName.
UpdateName(n) ==
    /\ tenant.live
    /\ ValidName(n)
    /\ n.text # tenant.name
    /\ renaming' = renaming \cup {n.text}
    /\ UNCHANGED <<tenantStream, tenant>>

AssignName(name) ==
    /\ name \in renaming
    /\ renaming' = renaming \ {name}
    /\ tenant' = [tenant EXCEPT !.name = name]
    /\ UNCHANGED tenantStream

\* save returns early when nothing was recorded.
SaveTenant ==
    /\ tenant.live
    /\ tenant.root.buffer # <<>>
    /\ ExpectedVersion(tenant.root) = Len(tenantStream)
    /\ tenantStream' = tenantStream \o tenant.root.buffer
    /\ tenant' = [tenant EXCEPT !.root = CommitUncommittedEvents(@)]
    /\ UNCHANGED renaming

\* The command ends.
LeaveTenant ==
    /\ tenant.live
    /\ renaming = {}
    /\ tenant' = NoTenant
    /\ UNCHANGED <<tenantStream, renaming>>

\* A tenant that was named like the placeholder is taken for one without a
\* creating event, and cannot be loaded.
FindTenant ==
    /\ ~tenant.live
    /\ tenantStream # <<>>
    /\ RehydrateTenant(tenantStream).name # Placeholder
    /\ tenant' = RehydrateTenant(tenantStream)
    /\ UNCHANGED <<tenantStream, renaming>>

TenantNext ==
    \/ \E n \in RawNames, l \in Limits : CreateTenant(n, l)
    \/ \E u \in Members : AddMember(u) \/ RemoveMember(u)
    \/ \E l \in Limits : UpdateSettings(l)
    \/ \E n \in RawNames : UpdateName(n)
    \/ \E name \in TenantNames : AssignName(name)
    \/ SaveTenant
    \/ LeaveTenant
    \/ FindTenant

TenantSpec == TenantInit /\ [][TenantNext]_tenantVars

-----------------------------------------------------------------------------
\* The members never exceed the limit, whatever calls raised and lowered it and
\* however often the tenant was reloaded, but for the fraction of a limit that
\* is not a whole number (tenant.aggregate.ts:110, 182).
WithinLimit == tenant.live => 2 * Cardinality(tenant.members) <= tenant.limit + 1

=============================================================================

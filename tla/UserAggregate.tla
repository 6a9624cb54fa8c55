---------------------------- MODULE UserAggregate ----------------------------
(***************************************************************************)
(* The user aggregate and its event-sourced repository.  Sessions hold     *)
(* instances of one user, each rebuilt from the stream or registered, call *)
(* them, and save what they have recorded under optimistic concurrency     *)
(* control (one step here: module WriteSide shows that appendToStream      *)
(* serializes).  A role is a key; the list of a user's roles never holds a *)
(* key twice, so it is a set.                                              *)
(***************************************************************************)
EXTENDS Integers, FiniteSets, SequencesExt

CONSTANTS
    Sessions,      \* command executions that hold an instance of the user
    PlainRoles,    \* role keys below admin level
    AdminRoles,    \* PlatformAdmin, TenantOwner, TenantAdmin
    Tenants,
    MaxUserEvents  \* bound on the length of the stream

ASSUME MaxUserEventsAssumption == MaxUserEvents \in Nat \ {0}
ASSUME RolesAssumption == PlainRoles \cap AdminRoles = {}

VARIABLES
    userStream,   \* events of the user in the event store
    user          \* the instance of each session that has one

userVars == <<userStream, user>>

Roles == PlainRoles \cup AdminRoles

UserEvent ==
    [type : {"UserRegistered", "UserDisabled", "UserEnabled"}]
    \cup [type : {"RoleGrantedToUser"}, role : Roles]
    \cup [type : {"UserAddedToTenant"}, tenant : Tenants]

UserState == [disabled : BOOLEAN, roles : SUBSET Roles, tenants : SUBSET Tenants]

Instance ==
    [live : BOOLEAN, state : UserState, version : 0 .. MaxUserEvents, recorded : Seq(UserEvent)]

UserTypeOK ==
    /\ userStream \in Seq(UserEvent)
    /\ Len(userStream) <= MaxUserEvents
    /\ user \in [Sessions -> Instance]

-----------------------------------------------------------------------------
(* Rebuilding an instance. *)

NewUser == [disabled |-> FALSE, roles |-> {}, tenants |-> {}]
None == [live |-> FALSE, state |-> NewUser, version |-> 0, recorded |-> <<>>]

\* Faulty form: the end of a suspension is not applied.
ApplyNoEnable(u, e) ==
    CASE e.type = "UserDisabled" -> [u EXCEPT !.disabled = TRUE]
      [] e.type = "UserAddedToTenant" -> [u EXCEPT !.tenants = @ \cup {e.tenant}]
      [] OTHER -> u

\* A grant is looked up as data.roleKey while the event carries data.role: it
\* is dropped.
Apply(u, e) ==
    CASE e.type = "UserDisabled" -> [u EXCEPT !.disabled = TRUE]
      [] e.type = "UserEnabled" -> [u EXCEPT !.disabled = FALSE]
      [] e.type = "UserAddedToTenant" -> [u EXCEPT !.tenants = @ \cup {e.tenant}]
      [] OTHER -> u

Rehydrate(events) == FoldLeft(Apply, NewUser, events)

-----------------------------------------------------------------------------
UserInit ==
    /\ userStream = <<>>
    /\ user = [s \in Sessions |-> None]

\* RegisterUser does not look whether the user exists.
Register(s) ==
    /\ ~user[s].live
    /\ user' = [user EXCEPT ![s] = [live |-> TRUE, state |-> NewUser, version |-> 0,
                                    recorded |-> <<[type |-> "UserRegistered"]>>]]
    /\ UNCHANGED userStream

\* findById: null for an empty stream.
FindById(s) ==
    /\ ~user[s].live
    /\ userStream # <<>>
    /\ user' = [user EXCEPT ![s] = [live |-> TRUE, state |-> Rehydrate(userStream),
                                    version |-> Len(userStream), recorded |-> <<>>]]
    /\ UNCHANGED userStream

\* An instance changes and records an event.
Record(s, state, event) ==
    /\ user[s].version + Len(user[s].recorded) < MaxUserEvents
    /\ user' = [user EXCEPT ![s].state = state, ![s].recorded = Append(@, event)]
    /\ UNCHANGED userStream

IsTenantOwner(u) == "TenantOwner" \in u.roles
IsAdminLevel(u) == u.roles \cap AdminRoles # {}
HasRole(u, role) == role \in u.roles
BelongsToTenant(u, tenant) == tenant \in u.tenants

CanDisableUser(u) == ~u.disabled /\ ~IsTenantOwner(u)

\* A user who is disabled already stays so; a tenant's owner cannot be.
Disable(s) ==
    LET u == user[s].state IN
    /\ user[s].live
    /\ CanDisableUser(u)
    /\ Record(s, [u EXCEPT !.disabled = TRUE], [type |-> "UserDisabled"])

Enable(s) ==
    LET u == user[s].state IN
    /\ user[s].live
    /\ u.disabled
    /\ Record(s, [u EXCEPT !.disabled = FALSE], [type |-> "UserEnabled"])

\* An admin role needs a user who is an admin already.
CanAssignRole(u, role) ==
    /\ ~u.disabled
    /\ ~HasRole(u, role)
    /\ role \in AdminRoles => IsAdminLevel(u)

GrantRole(s, role) ==
    LET u == user[s].state IN
    /\ user[s].live
    /\ CanAssignRole(u, role)
    /\ Record(s, [u EXCEPT !.roles = @ \cup {role}],
              [type |-> "RoleGrantedToUser", role |-> role])

\* Neither from a disabled user nor the last role; no event is recorded.
RevokeRole(s, role) ==
    LET u == user[s].state IN
    /\ user[s].live
    /\ ~u.disabled
    /\ Cardinality(u.roles) > 1
    /\ HasRole(u, role)
    /\ user' = [user EXCEPT ![s].state.roles = @ \ {role}]
    /\ UNCHANGED userStream

AddToTenant(s, tenant) ==
    LET u == user[s].state IN
    /\ user[s].live
    /\ ~BelongsToTenant(u, tenant)
    /\ Record(s, [u EXCEPT !.tenants = @ \cup {tenant}],
              [type |-> "UserAddedToTenant", tenant |-> tenant])

\* Faulty forms: whatever the stream has become meanwhile; what was saved stays
\* in the buffer.
SaveAnyVersion(s) ==
    /\ user[s].recorded # <<>>
    /\ Len(userStream) + Len(user[s].recorded) <= MaxUserEvents
    /\ userStream' = userStream \o user[s].recorded
    /\ user' = [user EXCEPT ![s].version = Len(userStream'), ![s].recorded = <<>>]

SaveKeepingBuffer(s) ==
    /\ user[s].recorded # <<>>
    /\ user[s].version = Len(userStream)
    /\ userStream' = userStream \o user[s].recorded
    /\ user' = [user EXCEPT ![s].version = Len(userStream')]

\* save appends what was recorded if the stream is where the instance was
\* rebuilt; the instance lives on.
Save(s) ==
    /\ user[s].recorded # <<>>
    /\ user[s].version = Len(userStream)
    /\ userStream' = userStream \o user[s].recorded
    /\ user' = [user EXCEPT ![s].version = Len(userStream'), ![s].recorded = <<>>]

\* The command ends: with a concurrency conflict, with an error, or because it
\* has nothing more to save.
Leave(s) ==
    /\ user[s].live
    /\ user' = [user EXCEPT ![s] = None]
    /\ UNCHANGED userStream

UserNext ==
    \E s \in Sessions :
        \/ Register(s)
        \/ FindById(s)
        \/ Disable(s)
        \/ Enable(s)
        \/ \E role \in Roles : GrantRole(s, role) \/ RevokeRole(s, role)
        \/ \E tenant \in Tenants : AddToTenant(s, tenant)
        \/ Save(s)
        \/ Leave(s)

UserSpec == UserInit /\ [][UserNext]_userVars

-----------------------------------------------------------------------------
(* What the code must guarantee. *)

\* What the stream says a user is, roles included.
Says(u, e) ==
    CASE e.type = "UserRegistered" -> NewUser
      [] e.type = "UserDisabled" -> [u EXCEPT !.disabled = TRUE]
      [] e.type = "UserEnabled" -> [u EXCEPT !.disabled = FALSE]
      [] e.type = "UserAddedToTenant" -> [u EXCEPT !.tenants = @ \cup {e.tenant}]
      [] e.type = "RoleGrantedToUser" -> [u EXCEPT !.roles = @ \cup {e.role}]

Before(i) == FoldLeft(Says, NewUser, SubSeq(userStream, 1, i - 1))

\* The stream is a legal life of a user, although sessions decided on
\* instances of their own: registered first and once, disabled and enabled in
\* turn, granted no role while disabled and never an admin's, since only admins
\* are given those, added to a tenant once.
LegalLife ==
    \A i \in 1 .. Len(userStream) :
        LET e == userStream[i]
            u == Before(i)
        IN  /\ e.type = "UserRegistered" <=> i = 1
            /\ e.type = "UserDisabled" => ~u.disabled
            /\ e.type = "UserEnabled" => u.disabled
            /\ e.type = "RoleGrantedToUser" => ~u.disabled /\ e.role \notin AdminRoles
            /\ e.type = "UserAddedToTenant" => e.tenant \notin u.tenants

Told(s) ==
    FoldLeft(Says, NewUser, SubSeq(userStream, 1, user[s].version) \o user[s].recorded)

\* What an instance is, but for its roles, follows from the events it was
\* rebuilt from and those it has recorded: nothing is changed without an event
\* and no event says what was not done.
InstanceFollowsEvents ==
    \A s \in Sessions : user[s].live =>
        /\ user[s].state.disabled = Told(s).disabled
        /\ user[s].state.tenants = Told(s).tenants

\* The same for its roles: a role that was granted and saved is there when the
\* repository rebuilds the user from the stream (user.aggregate.ts:81).
RolesFollowEvents ==
    \A s \in Sessions : user[s].live => user[s].state.roles = Told(s).roles

=============================================================================

---------------------------- MODULE RoleReadModel ----------------------------
(***************************************************************************)
(* IdentityRoleProjectionSubscriber on top of module Delivery: the first   *)
(* user who signs up becomes the platform's admin, and the creator of a    *)
(* tenant its owner.  The subscriber's repository joins the transaction of *)
(* the unit of work: what it inserts is visible to others at the commit,   *)
(* while the mark is visible as soon as it is made.  Messages come from    *)
(* several users; their commands are taken to commit in the order of their *)
(* events (OneAggregate).                                                  *)
(***************************************************************************)
EXTENDS ReadModel

CONSTANTS
    SignUps,  \* messages AuthUserSignedUp; the others are TenantCreated
    RoleIds   \* the assignment ids that messages may lead to, as functions

Nobody == 0

ASSUME SignUpsAssumption == SignUps \subseteq Messages
ASSUME RoleIdsAssumption == RoleIds \subseteq [Messages -> Nat]

VARIABLES
    roleId,     \* id of the assignment a message leads to, or Nobody
    assigned,   \* messages whose row is in identity_role_assignments
    decision,   \* does the handler of a tick insert a row?
    lost        \* messages whose process has died between mark and commit

roleVars == <<roleId, assigned, decision, lost>>

RoleTypeOK ==
    /\ roleId \in [Messages -> Nat]
    /\ assigned \in SUBSET { m \in Messages : roleId[m] # Nobody }
    /\ decision \in [Ticks -> {"open", "insert", "skip"}]
    /\ lost \in SUBSET Messages

\* The id is a hash of 32 bits over user, tenant and role, so two messages may
\* share one.  A message that names no user, no tenant, or comes while the
\* bootstrap is switched off, leads to none.
RoleInit ==
    /\ roleId \in RoleIds
    /\ assigned = {}
    /\ decision = [t \in Ticks |-> "open"]
    /\ lost = {}

Admins == assigned \cap SignUps
Taken(m) == \E k \in assigned : roleId[k] = roleId[m]

\* A sign-up's user becomes admin if there is none; a row whose id is there is
\* not inserted again.  The handler returns early for nobody.
\* Faulty form: every user becomes admin.
NeededAlways(m) == roleId[m] # Nobody /\ ~Taken(m)

Needed(m) ==
    /\ roleId[m] # Nobody
    /\ m \in SignUps => Admins = {}
    /\ ~Taken(m)

\* The findOne calls of the handler.
DecideInsert(t, s) ==
    /\ At(t, s, "checked")
    /\ decision[t] = "open"
    /\ decision' = [decision EXCEPT ![t] = IF Needed(current[t]) THEN "insert" ELSE "skip"]
    /\ UNCHANGED <<vars, roleId, assigned, lost>>

\* Another transaction has inserted the id and not ended.
HeldByOther(t) ==
    \E u \in Ticks \ {t} :
        /\ decision[u] = "insert"
        /\ roleId[current[u]] = roleId[current[t]]
        /\ \E s \in Subscribers : handling[u][s] \in {"written", "marked"}

\* flush: the primary key makes an insert wait for an open transaction that
\* holds it, and refuses one that is taken; then the handler throws.
FlushInsert(t, s) ==
    /\ decision[t] # "open"
    /\ decision[t] = "insert" => ~Taken(current[t]) /\ ~HeldByOther(t)
    /\ Write(t, s)
    /\ UNCHANGED roleVars

InsertRoleRefused(t, s) ==
    /\ At(t, s, "checked")
    /\ decision[t] = "insert"
    /\ Taken(current[t])
    /\ Goto(t, s, "settled")
    /\ decision' = [decision EXCEPT ![t] = "open"]
    /\ UNCHANGED <<outboxVars, tickVars, readVars, faults, roleId, assigned, lost>>

CommitRole(t, s) ==
    /\ Commit(t, s)
    /\ assigned' = IF decision[t] = "insert" THEN assigned \cup {current[t]} ELSE assigned
    /\ decision' = [decision EXCEPT ![t] = "open"]
    /\ UNCHANGED <<roleId, lost>>

\* The steps of Delivery that the subscriber takes no part in.
CarryRole(t) ==
    /\ \/ StartTick(t)
       \/ Publish(t)
       \/ MarkPublished(t)
       \/ MarkFailed(t)
       \/ \E s \in Subscribers : FastCheck(t, s) \/ Recheck(t, s) \/ Mark(t, s)
    /\ UNCHANGED roleVars

\* The process dies, or the handler throws; the row of an open unit of work is
\* rolled back, its mark is not.
CrashRole(t) ==
    /\ Crash(t)
    /\ decision' = [decision EXCEPT ![t] = "open"]
    /\ lost' = lost \cup { m \in {current[t]} : \E s \in Subscribers : At(t, s, "marked") }
    /\ UNCHANGED <<roleId, assigned>>

RoleFails(t, s) ==
    /\ HandlerFails(t, s)
    /\ decision' = [decision EXCEPT ![t] = "open"]
    /\ UNCHANGED <<roleId, assigned, lost>>

HandleRole(t, s) == DecideInsert(t, s) \/ FlushInsert(t, s) \/ CommitRole(t, s)

RoleStep ==
    \/ \E m \in Messages :
         (AppendMessage(m) \/ BackoffElapses(m)) /\ UNCHANGED roleVars
    \/ \E t \in Ticks :
         \/ CarryRole(t)
         \/ CrashRole(t)
         \/ \E s \in Subscribers :
              HandleRole(t, s) \/ InsertRoleRefused(t, s) \/ RoleFails(t, s)

RoleNext == RoleStep /\ Watch

RoleSpec ==
    /\ Init /\ WatchInit("roles") /\ RoleInit
    /\ [][RoleNext]_<<vars, watchVars, roleVars>>

-----------------------------------------------------------------------------
(* What the code must guarantee. *)

\* A message that may be processed and leave no row of its own: it leads to
\* none, the process has died between its mark and its commit, or the row of
\* another message has its id.
Passed(m) ==
    \/ roleId[m] = Nobody
    \/ m \in lost
    \/ \E k \in assigned \ {m} : roleId[k] = roleId[m]

\* The platform's admin is the user who signed up first, and nobody else
\* (identity-role-projection.subscriber.ts:14), of those who were not passed.
FirstUserIsAdmin ==
    ~disturbed =>
        \A m \in Admins, k \in SignUps : k < m => k \notin Admins /\ Passed(k)

\* Once a sign-up is published there is an admin, and once a tenant is it has an
\* owner, unless its message was passed: a mark that is committed before the row
\* costs no other message its role.
PublishedIsAssigned ==
    ~disturbed =>
        \A m \in Messages : status[m] = "published" =>
            m \in assigned \/ Passed(m) \/ (m \in SignUps /\ Admins # {})

\* Both, of the behaviours whose messages are sign-ups and new tenants.
RolesAssigned == which = "roles" => PublishedIsAssigned /\ FirstUserIsAdmin

=============================================================================

-------------------------- MODULE TenantMembership --------------------------
(***************************************************************************)
(* The membership of one user in one tenant.  Nothing in the repository    *)
(* stores it yet: it is saved and loaded here as the other aggregates are. *)
(* Its audit times are those of AggregateRoot and left out.                *)
(***************************************************************************)
EXTENDS Naturals, FiniteSets, Sequences, SequencesExt

CONSTANTS
    Holders,             \* command executions that hold an instance
    RawRoleKeys,         \* role keys as they are passed, [trimmed, pascalCase]
    MaxMembershipEvents  \* bound: events of a stream

VARIABLES
    memberStream,  \* the events stored
    membership     \* the instance of each holder

memberVars == <<memberStream, membership>>

ASSUME MaxMembershipEventsAssumption == MaxMembershipEvents \in Nat \ {0}

\* RoleKey.of: the key without the space around it; empty or not in PascalCase,
\* it is refused.
ValidRoleKey(raw) == raw.trimmed # "" /\ raw.pascalCase
RoleKeys == {raw.trimmed : raw \in {r \in RawRoleKeys : ValidRoleKey(r)}}

MembershipEvent ==
    [type : {"UserAddedToTenant"}] \cup [type : {"RoleGrantedToUser"}, role : RoleKeys]

NoMembership == [live |-> FALSE, roles |-> {}, committed |-> 0, recorded |-> <<>>]

MembershipTypeOK ==
    /\ memberStream \in Seq(MembershipEvent) /\ Len(memberStream) <= MaxMembershipEvents
    /\ membership \in [Holders -> [live : BOOLEAN, roles : SUBSET RoleKeys, committed : Nat,
                                   recorded : Seq(MembershipEvent)]]

ApplyMembership(roles, event) ==
    IF event.type = "RoleGrantedToUser" THEN roles \cup {event.role} ELSE roles

RehydrateMembership(events) ==
    [NoMembership EXCEPT !.live = TRUE, !.roles = FoldLeft(ApplyMembership, {}, events),
                         !.committed = Len(events)]

-----------------------------------------------------------------------------
MembershipInit == memberStream = <<>> /\ membership = [h \in Holders |-> NoMembership]

CreateMembership(h) ==
    /\ ~membership[h].live
    /\ membership' = [membership EXCEPT ![h] =
           [NoMembership EXCEPT !.live = TRUE, !.recorded = <<[type |-> "UserAddedToTenant"]>>]]
    /\ UNCHANGED memberStream

LoadMembership(h) ==
    /\ ~membership[h].live /\ memberStream # <<>>
    /\ membership' = [membership EXCEPT ![h] = RehydrateMembership(memberStream)]
    /\ UNCHANGED memberStream

\* The grant is recorded, but the instance has the role only when it is rebuilt.
GrantToMember(h, raw) ==
    /\ membership[h].live
    /\ ValidRoleKey(raw) /\ raw.trimmed \notin membership[h].roles
    /\ membership[h].committed + Len(membership[h].recorded) < MaxMembershipEvents
    /\ membership' = [membership EXCEPT ![h].recorded =
           Append(@, [type |-> "RoleGrantedToUser", role |-> raw.trimmed])]
    /\ UNCHANGED memberStream

SaveMembership(h) ==
    /\ membership[h].recorded # <<>>
    /\ membership[h].committed = Len(memberStream)
    /\ memberStream' = memberStream \o membership[h].recorded
    /\ membership' = [membership EXCEPT ![h].recorded = <<>>, ![h].committed = Len(memberStream')]

LeaveMembership(h) ==
    /\ membership[h].live
    /\ membership' = [membership EXCEPT ![h] = NoMembership]
    /\ UNCHANGED memberStream

MembershipNext ==
    \E h \in Holders :
        \/ CreateMembership(h)
        \/ LoadMembership(h)
        \/ \E raw \in RawRoleKeys : GrantToMember(h, raw)
        \/ SaveMembership(h)
        \/ LeaveMembership(h)

MembershipSpec == MembershipInit /\ [][MembershipNext]_memberVars

\* The stream begins with the user's addition, which is not repeated, and a
\* reloaded membership has the roles it was granted.  An instance that lives on
\* has none but those, and nobody was granted by it what it had when loaded.
MembershipSurvivesReload ==
    LET Granted(n) == {memberStream[i].role : i \in {j \in 1 .. n :
                                memberStream[j].type = "RoleGrantedToUser"}}
    IN
    /\ \A i \in DOMAIN memberStream : memberStream[i].type = "UserAddedToTenant" <=> i = 1
    /\ RehydrateMembership(memberStream).roles = Granted(Len(memberStream))
    /\ \A h \in Holders :
         /\ membership[h].roles \subseteq Granted(membership[h].committed)
         /\ \A i \in DOMAIN membership[h].recorded :
              membership[h].recorded[i].type = "RoleGrantedToUser" =>
                  membership[h].recorded[i].role \notin membership[h].roles

=============================================================================

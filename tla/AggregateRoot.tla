---------------------------- MODULE AggregateRoot ----------------------------
(***************************************************************************)
(* What every aggregate inherits: the buffer of uncommitted events with    *)
(* the two versions, and the audit trail.  A root is a record and each     *)
(* method an operator that returns the root after the call.  Times are     *)
(* readings of a clock that starts at 1.                                   *)
(***************************************************************************)
EXTENDS Naturals, Sequences

CONSTANTS
    EnableSoftDelete,      \* the two options of the constructor
    EnableAuditTracking

ASSUME OptionsAssumption == EnableSoftDelete \in BOOLEAN /\ EnableAuditTracking \in BOOLEAN

Never == 0          \* an undefined time
Nobody == "nobody"  \* an undefined user

Root ==
    [version |-> 0, committed |-> 0, buffer |-> <<>>,
     createdAt |-> Never, updatedAt |-> Never, createdBy |-> Nobody,
     updatedBy |-> Nobody, deletedAt |-> Never, deletedBy |-> Nobody]

RootType(Events, Users, Times) ==
    [version : Nat, committed : Nat, buffer : Seq(Events),
     createdAt : Times, updatedAt : Times, createdBy : Users \cup {Nobody},
     updatedBy : Users \cup {Nobody}, deletedAt : Times, deletedBy : Users \cup {Nobody}]

-----------------------------------------------------------------------------
(* The audit trail. *)

Tracked(by) == EnableAuditTracking /\ by # Nobody

InitAuditTimestamps(r, now) == [r EXCEPT !.createdAt = now, !.updatedAt = now]

MarkUpdated(r, by, now) ==
    [r EXCEPT !.updatedAt = now, !.updatedBy = IF Tracked(by) THEN by ELSE @]

SetCreatedBy(r, by) == IF EnableAuditTracking THEN [r EXCEPT !.createdBy = by] ELSE r

SetUpdatedBy(r, by, now) ==
    IF EnableAuditTracking THEN [r EXCEPT !.updatedBy = by, !.updatedAt = now] ELSE r

IsDeleted(r) == r.deletedAt # Never

SoftDelete(r, by, now) ==
    IF ~EnableSoftDelete \/ IsDeleted(r) THEN r
    ELSE [r EXCEPT !.deletedAt = now, !.updatedAt = now,
                   !.deletedBy = IF Tracked(by) THEN by ELSE @]

\* Faulty form: the one who deleted it stays.
RestoreKeepingDeleter(r, now) ==
    IF ~EnableSoftDelete \/ ~IsDeleted(r) THEN r
    ELSE [r EXCEPT !.deletedAt = Never, !.updatedAt = now]

Restore(r, now) ==
    IF ~EnableSoftDelete \/ ~IsDeleted(r) THEN r
    ELSE [r EXCEPT !.deletedAt = Never, !.deletedBy = Nobody, !.updatedAt = now]

-----------------------------------------------------------------------------
(* The events. *)

AddDomainEvent(r, e) == [r EXCEPT !.buffer = Append(@, e), !.version = @ + 1]

\* Both commitUncommittedEvents and what pullUncommittedEvents leaves.
CommitUncommittedEvents(r) == [r EXCEPT !.buffer = <<>>, !.committed = r.version]

\* rehydrate counts each applied event and then commits what it has counted.
ResetEventStateAfterRehydrate(r, applied) ==
    [r EXCEPT !.version = applied, !.committed = applied, !.buffer = <<>>]

ExpectedVersion(r) == r.committed

\* The version an append has to name is where the uncommitted events start, and
\* the audit trail tells one story: nothing is updated before it is created,
\* what is deleted was deleted in its life and last touched no earlier, and a
\* deleter is named only for what is deleted.
RootConsistent(r) ==
    /\ r.version = r.committed + Len(r.buffer)
    /\ r.createdAt <= r.updatedAt
    /\ IsDeleted(r) => r.createdAt <= r.deletedAt /\ r.deletedAt <= r.updatedAt
    /\ ~IsDeleted(r) => r.deletedBy = Nobody
=============================================================================

-------------------------- MODULE SyncableAggregate --------------------------
(***************************************************************************)
(* An aggregate that is kept in step with an external system, with the     *)
(* audit trail every aggregate has.  The source has no such aggregate yet: *)
(* its subclass is taken to be what the base class documents, a datum that *)
(* is changed and reported by markSyncRequired, and a worker that takes an *)
(* aggregate that needs syncing, sends its datum and reports back.         *)
(***************************************************************************)
EXTENDS AggregateRoot

CONSTANTS
    Actors,         \* user ids
    Data,
    Systems,        \* names of external systems
    MaxClock,
    MaxSyncVersion

ASSUME SyncBoundsAssumption ==
    MaxClock \in Nat \ {0} /\ MaxSyncVersion \in Nat \ {0} /\ Data # {}

VARIABLES
    clock,
    record,   \* the instance
    sending,  \* the datum the worker is sending, or NoDatum
    overtaken,\* whether the datum was changed since the worker took it
    remote    \* the datum the external system has, or NoDatum

syncVars == <<clock, record, sending, overtaken, remote>>

NoDatum == "no datum"
SyncStatus == {"SYNCED", "PENDING", "FAILED"}
Callers == Actors \cup {Nobody}

Syncable ==
    [live : BOOLEAN, datum : Data, externalIds : SUBSET Systems, status : SyncStatus,
     errorMessage : BOOLEAN, lastSyncedAt : 0 .. MaxClock, syncVersion : 1 .. MaxSyncVersion,
     root : RootType({}, Actors, 0 .. MaxClock)]

SyncTypeOK ==
    /\ clock \in 1 .. MaxClock
    /\ record \in Syncable
    /\ sending \in Data \cup {NoDatum}
    /\ overtaken \in BOOLEAN
    /\ remote \in Data \cup {NoDatum}

\* A new aggregate is SYNCED, although nothing of it was ever sent.
NewSyncable ==
    [live |-> FALSE, datum |-> CHOOSE d \in Data : TRUE, externalIds |-> {},
     status |-> "SYNCED", errorMessage |-> FALSE, lastSyncedAt |-> Never, syncVersion |-> 1, root |-> Root]

SyncInit ==
    /\ clock = 1
    /\ record = NewSyncable
    /\ sending = NoDatum
    /\ overtaken = FALSE
    /\ remote = NoDatum

Tick ==
    /\ clock < MaxClock
    /\ clock' = clock + 1
    /\ UNCHANGED <<record, sending, overtaken, remote>>

-----------------------------------------------------------------------------
(* The audit trail. *)

RootBecomes(root) ==
    /\ record' = [record EXCEPT !.root = root]
    /\ UNCHANGED <<clock, sending, overtaken, remote>>

CreateRecord(by) ==
    /\ ~record.live
    /\ record' = [record EXCEPT !.live = TRUE,
                                !.root = SetCreatedBy(InitAuditTimestamps(@, clock), by)]
    /\ UNCHANGED <<clock, sending, overtaken, remote>>

AuditStep ==
    /\ record.live
    /\ \E by \in Actors :
        \/ RootBecomes(SetUpdatedBy(record.root, by, clock))
        \/ RootBecomes(SoftDelete(record.root, by, clock))
        \/ RootBecomes(SoftDelete(record.root, Nobody, clock))
        \/ RootBecomes(Restore(record.root, clock))

HasExternalId(system) == system \in record.externalIds

SetExternalId(system) ==
    /\ record.live
    /\ record' = [record EXCEPT !.root = MarkUpdated(@, Nobody, clock),
                                !.externalIds = @ \cup {system}]
    /\ UNCHANGED <<clock, sending, overtaken, remote>>

RemoveExternalId(system) ==
    /\ record.live
    /\ HasExternalId(system)
    /\ record' = [record EXCEPT !.root = MarkUpdated(@, Nobody, clock),
                                !.externalIds = @ \ {system}]
    /\ UNCHANGED <<clock, sending, overtaken, remote>>

-----------------------------------------------------------------------------
(* Synchronization. *)

\* Faulty form: only what was in step before is marked.
MarkSyncRequiredOnce(r, now) ==
    IF r.status # "SYNCED" THEN r
    ELSE [r EXCEPT !.status = IF r.syncVersion > 1 THEN @ ELSE "PENDING",
                   !.syncVersion = @ + 1, !.root = MarkUpdated(@, Nobody, now)]

\* The version counts up once for all changes until the next success or failure.
MarkSyncRequired(r, now) ==
    IF r.status = "PENDING" THEN r
    ELSE [r EXCEPT !.status = "PENDING", !.syncVersion = @ + 1,
                   !.root = MarkUpdated(@, Nobody, now)]

ChangeDatum(d, by) ==
    /\ record.live
    /\ d # record.datum
    /\ record.syncVersion < MaxSyncVersion
    /\ record' = MarkSyncRequired([record EXCEPT !.datum = d,
                                                 !.root = MarkUpdated(@, by, clock)], clock)
    /\ overtaken' = (overtaken \/ sending # NoDatum)
    /\ UNCHANGED <<clock, sending, remote>>

NeedsSync(r) == r.status \in {"PENDING", "FAILED"}

TakeForSync ==
    /\ NeedsSync(record)
    /\ sending = NoDatum
    /\ sending' = record.datum
    /\ overtaken' = FALSE
    /\ UNCHANGED <<clock, record, remote>>

Send ==
    /\ sending # NoDatum
    /\ remote' = sending
    /\ UNCHANGED <<clock, record, sending, overtaken>>

\* markSynced does not ask what became of the aggregate meanwhile.
MarkSynced ==
    /\ sending # NoDatum
    /\ remote = sending
    /\ record' = [record EXCEPT !.status = "SYNCED", !.lastSyncedAt = clock,
                                !.root = MarkUpdated(@, Nobody, clock)]
    /\ sending' = NoDatum
    /\ UNCHANGED <<clock, overtaken, remote>>

\* The answer may be lost after the datum has arrived.  The message of the
\* error stays when a later sync succeeds: markSynced clears nothing.
MarkSyncFailed ==
    /\ sending # NoDatum
    /\ record' = [record EXCEPT !.status = "FAILED", !.errorMessage = TRUE,
                                !.root = MarkUpdated(@, Nobody, clock)]
    /\ sending' = NoDatum
    /\ UNCHANGED <<clock, overtaken, remote>>

SyncNext ==
    \/ Tick
    \/ \E by \in Actors : CreateRecord(by)
    \/ AuditStep
    \/ \E system \in Systems : SetExternalId(system) \/ RemoveExternalId(system)
    \/ \E d \in Data, by \in Callers : ChangeDatum(d, by)
    \/ TakeForSync
    \/ Send
    \/ MarkSynced
    \/ MarkSyncFailed

SyncSpec == SyncInit /\ [][SyncNext]_syncVars

-----------------------------------------------------------------------------
\* "SYNCED: in step with the external system" (enums-and-interfaces.ts:37) for
\* an aggregate that was ever synced: the external system has its datum, after
\* failures and retries too, unless the datum was changed while an earlier one
\* was on its way, which nobody looks for.
SyncedIsSent ==
    record.status = "SYNCED" /\ record.lastSyncedAt # Never /\ ~overtaken =>
        remote = record.datum

\* The audit trail of an aggregate tells one story (RootConsistent), and a sync
\* is an update.
AuditConsistent ==
    record.live => RootConsistent(record.root) /\ record.lastSyncedAt <= record.root.updatedAt
=============================================================================

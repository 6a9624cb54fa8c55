----------------------------- MODULE WriteSide ------------------------------
(***************************************************************************)
(* The write side: command handlers that load or create an aggregate,      *)
(* append its uncommitted events to the event store under optimistic       *)
(* concurrency control and write one outbox message per event, inside a    *)
(* unit of work when there is one.                                         *)
(*                                                                         *)
(* Every await of the code is a step, so the statements of any two         *)
(* commands interleave.  The event store and the outbox run their          *)
(* statements with em.getConnection().execute and do not hand over the     *)
(* transaction of the unit of work: with the connection of MikroORM 6.1.1  *)
(* every statement commits by itself, with and without a unit of work.     *)
(* The commit of the unit of work therefore writes nothing, and its        *)
(* rollback takes nothing back.                                            *)
(***************************************************************************)
EXTENDS Integers, FiniteSets, FiniteSetsExt

CONSTANTS
    Commands,       \* executions of command handlers
    Streams,        \* (tenant_id, aggregate_type, aggregate_id)
    Tenants,        \* those of tenants, whose repository keeps metadata
    MaxEvents       \* bound on the events one command emits

ASSUME MaxEventsAssumption == MaxEvents \in Nat \ {0}

VARIABLES
    rows,      \* rows of event_store_events
    outbox,    \* rows of messaging_outbox
    described, \* streams with a row in aggregate_metadata
    pc,        \* where each command is
    target,    \* the stream its aggregate lives in
    base,      \* committedVersion of its aggregate instance
    events,    \* length of the aggregate's buffer of uncommitted events
    version,   \* `version` of the insert loop of appendToStream
    sent       \* messages it has appended to the outbox

vars == <<rows, outbox, described, pc, target, base, events, version, sent>>
command == <<target, base, events>>

Active == {"decided", "appending", "publishing"}

Row == [stream : Streams, version : Nat, by : Commands]
Message == [by : Commands, n : Nat]

TypeOK ==
    /\ rows \in SUBSET Row
    /\ outbox \in SUBSET Message
    /\ described \in SUBSET Streams
    /\ pc \in [Commands -> {"idle", "done", "conflict", "failed"} \cup Active]
    /\ target \in [Commands -> Streams]
    /\ base \in [Commands -> Nat]
    /\ events \in [Commands -> 0 .. MaxEvents]
    /\ version \in [Commands -> Nat]
    /\ sent \in [Commands -> 0 .. MaxEvents]

-----------------------------------------------------------------------------
(* The tables, as a statement sees them (read committed). *)

VersionsIn(table, s) == { r.version : r \in { x \in table : x.stream = s } }
VersionsOf(s) == VersionsIn(rows, s)

\* select coalesce(max(version), 0)
CurrentVersion(s) == Max(VersionsOf(s) \cup {0})

\* What a command has written so far: its insert loop counts `version` up from
\* the expected version, and its messages follow the order of its events.
RowsOf(c) == { [stream |-> target[c], version |-> v, by |-> c] :
                 v \in base[c] + 1 .. version[c] }
MessagesOf(c) == { [by |-> c, n |-> i] : i \in 1 .. sent[c] }

-----------------------------------------------------------------------------
Init ==
    /\ rows = {}
    /\ outbox = {}
    /\ described = {}
    /\ pc = [c \in Commands |-> "idle"]
    /\ target \in [Commands -> Streams]
    /\ base = [c \in Commands |-> 0]
    /\ events = [c \in Commands |-> 0]
    /\ version = [c \in Commands |-> 0]
    /\ sent = [c \in Commands |-> 0]

Decide(c, n, loaded) ==
    /\ pc[c] = "idle"
    /\ pc' = [pc EXCEPT ![c] = "decided"]
    /\ base' = [base EXCEPT ![c] = loaded]
    /\ version' = [version EXCEPT ![c] = loaded]
    /\ events' = [events EXCEPT ![c] = n]
    /\ UNCHANGED <<described, rows, outbox, target, sent>>

\* A handler creates a new aggregate: committedVersion is 0 and its buffer
\* holds the events of the factory.
Create(c, n) == Decide(c, n, 0)

\* A handler loads the aggregate and calls it.  rehydrate counts the events it
\* applies, so committedVersion is their number and not the currentVersion of
\* loadStream; an empty stream gives null, and the handler has nothing to save.
Load(c, n) ==
    /\ VersionsOf(target[c]) # {}
    /\ Decide(c, n, Cardinality(VersionsOf(target[c])))

\* Faulty forms: the expected version is ignored; it is compared off by one.
CheckVersionIgnored(c) ==
    /\ pc[c] = "decided"
    /\ pc' = [pc EXCEPT ![c] = "appending"]
    /\ version' = [version EXCEPT ![c] = CurrentVersion(target[c])]
    /\ UNCHANGED <<described, rows, outbox, command, sent>>

CheckVersionOffByOne(c) ==
    /\ pc[c] = "decided"
    /\ pc' = [pc EXCEPT ![c] = IF CurrentVersion(target[c]) + 1 = base[c]
                               THEN "appending" ELSE "conflict"]
    /\ UNCHANGED <<described, rows, outbox, command, version, sent>>

\* appendToStream reads the stream's version and compares it with the expected
\* one; a difference throws.
CheckVersion(c) ==
    /\ pc[c] = "decided"
    /\ pc' = [pc EXCEPT ![c] = IF CurrentVersion(target[c]) = base[c]
                               THEN "appending" ELSE "conflict"]
    /\ UNCHANGED <<described, rows, outbox, command, version, sent>>

\* Faulty form: the version is advanced once more before it is used.
InsertShifted(c) ==
    LET next == version[c] + 1 IN
    /\ pc[c] = "appending"
    /\ version[c] < base[c] + events[c]
    /\ next \notin VersionsOf(target[c])
    /\ version' = [version EXCEPT ![c] = next]
    /\ rows' = rows \cup {[stream |-> target[c], version |-> next + 1, by |-> c]}
    /\ UNCHANGED <<described, outbox, pc, command, sent>>

\* One insert of the loop, a statement that commits at once.
Insert(c) ==
    LET next == version[c] + 1 IN
    /\ pc[c] = "appending"
    /\ version[c] < base[c] + events[c]
    /\ next \notin VersionsOf(target[c])
    /\ version' = [version EXCEPT ![c] = next]
    /\ rows' = rows \cup {[stream |-> target[c], version |-> next, by |-> c]}
    /\ UNCHANGED <<described, outbox, pc, command, sent>>

\* Faulty form: the insert is repeated for as long as its key is taken.
InsertRefusedRetried(c) ==
    /\ pc[c] = "appending"
    /\ version[c] < base[c] + events[c]
    /\ version[c] + 1 \in VersionsOf(target[c])
    /\ UNCHANGED vars

\* The unique index refuses a key that is taken; the rows the loop has already
\* inserted stay.
InsertRefused(c) ==
    /\ pc[c] = "appending"
    /\ version[c] < base[c] + events[c]
    /\ version[c] + 1 \in VersionsOf(target[c])
    /\ pc' = [pc EXCEPT ![c] = "conflict"]
    /\ UNCHANGED <<described, rows, outbox, command, version, sent>>

\* The aggregate is stored: its buffer is cleared, and a tenant's metadata is
\* written.  The handler goes on with the outbox.
Stored(c) ==
    /\ pc[c] = "appending"
    /\ version[c] = base[c] + events[c]
    /\ pc' = [pc EXCEPT ![c] = "publishing"]
    /\ described' = described \cup ({target[c]} \cap Tenants)
    /\ UNCHANGED <<rows, outbox, command, version, sent>>

\* Faulty forms: one message too many; the messages go out while the events
\* are still being inserted.
AppendOutboxAgain(c) ==
    /\ pc[c] = "publishing"
    /\ sent[c] <= events[c]
    /\ sent' = [sent EXCEPT ![c] = @ + 1]
    /\ outbox' = outbox \cup {[by |-> c, n |-> sent[c] + 1]}
    /\ UNCHANGED <<described, rows, pc, command, version>>

AppendOutboxFirst(c) ==
    /\ pc[c] \in {"appending", "publishing"}
    /\ sent[c] < events[c]
    /\ sent' = [sent EXCEPT ![c] = @ + 1]
    /\ outbox' = outbox \cup {[by |-> c, n |-> sent[c] + 1]}
    /\ UNCHANGED <<described, rows, pc, command, version>>

\* outbox.append of the next envelope, a statement that commits at once;
\* message ids are fresh, so the index of messaging_outbox never refuses one.
AppendOutbox(c) ==
    /\ pc[c] = "publishing"
    /\ sent[c] < events[c]
    /\ sent' = [sent EXCEPT ![c] = @ + 1]
    /\ outbox' = outbox \cup {[by |-> c, n |-> sent[c] + 1]}
    /\ UNCHANGED <<described, rows, pc, command, version>>

\* Faulty form: the last message is left out.
CommitEarly(c) ==
    /\ pc[c] = "publishing"
    /\ sent[c] >= events[c] - 1
    /\ pc' = [pc EXCEPT ![c] = "done"]
    /\ UNCHANGED <<described, rows, outbox, command, version, sent>>

\* The unit of work, if any, commits.  Every statement has already done so.
Commit(c) ==
    /\ pc[c] = "publishing"
    /\ sent[c] = events[c]
    /\ pc' = [pc EXCEPT ![c] = "done"]
    /\ UNCHANGED <<described, rows, outbox, command, version, sent>>

\* A statement fails, or the process dies: the exception leaves execute() and
\* the unit of work, if any, rolls back.  No statement took part in its
\* transaction: what the command has written stays.
Abort(c) ==
    /\ pc[c] \in Active
    /\ pc' = [pc EXCEPT ![c] = "failed"]
    /\ UNCHANGED <<described, rows, outbox, command, version, sent>>

Progress(c) ==
    \/ CheckVersion(c)
    \/ Insert(c)
    \/ InsertRefused(c)
    \/ Stored(c)
    \/ AppendOutbox(c)
    \/ Commit(c)

Next ==
    \E c \in Commands :
        \/ \E n \in 1 .. MaxEvents : Create(c, n) \/ Load(c, n)
        \/ Progress(c)
        \/ Abort(c)

Spec == Init /\ [][Next]_vars

\* A started command goes on: the event loop resumes an async function whose
\* statement has been answered.
FairSpec == Spec /\ \A c \in Commands : WF_vars(Progress(c))

-----------------------------------------------------------------------------
(* What the code must guarantee. *)

\* The versions of a stream are 1 .. n without a gap, each stored once
\* (ARCHITECTURE 6.5.2: strictly ordered, version monotone), whatever mix of
\* refused, failed and half-written batches the stream has seen.
GapFree ==
    \A r \in rows :
        /\ \A v \in 1 .. r.version : v \in VersionsOf(r.stream)
        /\ \A q \in rows :
             q.stream = r.stream /\ q.version = r.version => q = r

\* No lost update: when a command reports success, its events follow directly
\* on the events its aggregate was rebuilt from, with no other command's
\* events before or between them.
Serialized ==
    \A c \in Commands : pc[c] = "done" =>
        LET batch == 1 .. base[c] + events[c]
        IN  /\ batch \subseteq VersionsOf(target[c])
            /\ \A r \in rows : r.stream = target[c] /\ r.version \in batch =>
                 (r.by = c <=> r.version > base[c])

\* An announcement never runs ahead of the store: the event behind every
\* outbox message can be read.
AnnouncedIsStored ==
    \A m \in outbox :
        \E r \in rows :
            r.by = m.by /\ r.stream = target[m.by] /\ r.version = base[m.by] + m.n

\* The handler saves first and announces then (tenant handler: repository.save,
\* then outbox.append per event), and nothing ties the two together but that
\* order: from its first message on, all events of a command are in the store,
\* and a command that reports success has announced each of them.
OutboxFollowsStore ==
    /\ AnnouncedIsStored
    /\ \A c \in Commands : (\E m \in outbox : m.by = c) =>
         \A i \in 1 .. events[c] :
           [stream |-> target[c], version |-> base[c] + i, by |-> c] \in rows
    /\ \A c \in Commands : pc[c] = "done" =>
         \A i \in 1 .. events[c] : [by |-> c, n |-> i] \in outbox

\* No command that has ended leaves events nobody is told about
\* (ARCHITECTURE 6.5.3: "stored but not published").
NoUnannouncedEvents ==
    \A c \in Commands : pc[c] \in {"done", "conflict", "failed"} =>
        \A r \in rows : r.by = c => [by |-> c, n |-> r.version - base[c]] \in outbox

\* A command is told of a conflict only if another command has got further on
\* the stream than it has itself, its own rows of a half-written batch
\* included: two commands racing for a stream never both lose to each other.
ConflictMeansOvertaken ==
    \A c \in Commands : pc[c] = "conflict" =>
        \E r \in rows :
            r.stream = target[c] /\ r.version > version[c] /\ r.by # c

\* Events are immutable: a stored row stays, and a new one comes after every
\* row its stream already has.
AppendOnly ==
    [][ /\ rows \subseteq rows'
        /\ \A r \in rows' \ rows, q \in rows :
             q.stream = r.stream => q.version < r.version ]_vars

\* Every command ends, for a refused insert gives up.
EventuallySettled ==
    \A c \in Commands :
        pc[c] = "decided" ~> pc[c] \in {"done", "conflict", "failed"}

\* The write side implements the abstract log, whatever interleaving its
\* statements take: entry by entry behind what the command has read, and only
\* then the announcements, in order.
Log == INSTANCE EventLog WITH
    log <- rows,
    announced <- outbox,
    seen <- [c \in Commands |-> IF pc[c] = "idle" THEN -1 ELSE base[c]],
    written <- [c \in Commands |-> version[c] - base[c]]

ImplementsLog == Log!Spec

=============================================================================

---------------------------- MODULE EventArchive ----------------------------
(***************************************************************************)
(* Reading stored events back: the codec that turns event data into JSON   *)
(* and JSON into events again, the registry with the upgraders of each     *)
(* event type, and the enhanced event store with its filters, its stream   *)
(* in batches and its snapshots.  Who appends, and in which order, is the  *)
(* business of WriteSide: here every append succeeds.  One tenant and one  *)
(* type of aggregate; the events of a command share a millisecond.         *)
(***************************************************************************)
EXTENDS Integers, FiniteSets, Sequences, SequencesExt, TLC

CONSTANTS
    Streams,          \* aggregates with events
    RegistryEntries,  \* what can be registered, [eventType, accepts, upgraders]
    ArchiveCommands,  \* lists of events, [eventType, schemaVersion, eventData, encoded]
    ArchiveTimes,     \* when events occur, by the clock of whoever runs the command
    DataStrings,      \* texts, keys and indices within event data
    ArchiveQueries,   \* filters and options of a query
    UpgradeTargets,   \* schema versions that callers ask for
    MaxArchived       \* bound: events in the store

VARIABLES
    entries,    \* EventRegistry.entries: the entry of a type
    archive,    \* the rows of event_store_events
    emitted,    \* the event of each row as the command had it
    snapshots,  \* the rows of event_store_snapshots
    session,    \* an aggregate as somebody has rebuilt it
    upgrading   \* data that is being upgraded: the upgraders applied so far

archiveVars == <<entries, archive, emitted, snapshots, session, upgrading>>

Unlimited == MaxArchived + 1
EventTypes == {e.eventType : e \in RegistryEntries}
Nowhere == [aggregateId |-> "none", version |-> 0, state |-> <<>>]

\* ORDER BY: the rows one after the other, where the order tells them apart.
OrderBy(rows, Before(_, _)) ==
    CHOOSE s \in SetToSeqs(rows) : \A i, j \in DOMAIN s : i < j => Before(s[i], s[j])

-----------------------------------------------------------------------------
(* Event data, as the nodes at the paths of a tree: the path of what is under a
   key of an object, or at an index of an array, is that of the object or array
   and the key or index.  Numbers and truth values are as null is. *)

Node == [kind : {"null", "array", "object"}]
            \cup [kind : {"text", "Date", "Buffer"}, value : DataStrings]
Text(value) == [kind |-> "text", value |-> value]
Object == [kind |-> "object"]
Special == {"Date", "Buffer"}

IsEventData(data) ==
    /\ data = [p \in DOMAIN data |-> data[p]]
    /\ <<>> \in DOMAIN data
    /\ \A p \in DOMAIN data :
         /\ p \in Seq(DataStrings) /\ data[p] \in Node
         /\ \A n \in 0 .. Len(p) - 1 : /\ SubSeq(p, 1, n) \in DOMAIN data
                                       /\ data[SubSeq(p, 1, n)].kind \in {"array", "object"}

\* What is found under a key of the object that stands for a date or a buffer.
Marker(node, key) == Text(IF key = "__type" THEN node.kind ELSE node.value)

IsMarked(data, p) ==
    LET type == Append(p, "__type")
        value == Append(p, "value")
    IN  /\ {p, type, value} \subseteq DOMAIN data
        /\ data[p].kind = "object"
        /\ data[type].kind = "text" /\ data[type].value \in Special
        /\ data[value].kind = "text"

HasMarker(data) == \E p \in DOMAIN data : IsMarked(data, p)

HasSpecial(data) == \E p \in DOMAIN data : data[p].kind \in Special

serializeEventData(data) ==
    LET special == {p \in DOMAIN data : data[p].kind \in Special}
    IN  [p \in DOMAIN data \cup {Append(q, key) : q \in special, key \in {"__type", "value"}} |->
            IF p \in special THEN Object
            ELSE IF p \in DOMAIN data THEN data[p]
            ELSE Marker(data[Front(p)], Last(p))]

\* What is within an object that stands for a date or a buffer is not looked at.
deserializeEventData(data) ==
    [p \in {q \in DOMAIN data : \A n \in 0 .. Len(q) - 1 : ~IsMarked(data, SubSeq(q, 1, n))} |->
        IF IsMarked(data, p)
        THEN [kind |-> data[Append(p, "__type")].value, value |-> data[Append(p, "value")].value]
        ELSE data[p]]

serialize(event) ==
    [event EXCEPT !.schemaVersion = IF @ = 0 THEN 1 ELSE @,  \* 0: the event does not say
                  !.eventData = serializeEventData(@)]

\* What the column gives back: the driver writes data as JSON.stringify does, a
\* date as text, and a buffer as an object with its bytes (which are left out).
Jsonb(data) ==
    LET buffers == {p \in DOMAIN data : data[p].kind = "Buffer"}
        Member(key) == IF key = "type" THEN Text("Buffer") ELSE [kind |-> "array"]
    IN  [p \in DOMAIN data \cup {Append(q, key) : q \in buffers, key \in {"type", "data"}} |->
            IF p \in buffers THEN Object
            ELSE IF p \notin DOMAIN data THEN Member(Last(p))
            ELSE IF data[p].kind = "Date" THEN Text(data[p].value) ELSE data[p]]

\* null where the type is not registered or its constructor throws; the schema
\* version of the row is not looked at.
deserialize(row) ==
    LET data == deserializeEventData(row.eventData) IN
    IF row.eventType \notin DOMAIN entries \/ data[<<>>].kind \notin entries[row.eventType].accepts
    THEN {}
    ELSE {[aggregateId |-> row.aggregateId, eventType |-> row.eventType, eventData |-> data]}

\* What cannot be decoded is skipped.
deserializeAll(rows) ==
    FoldLeft(LAMBDA events, row : events \o SetToSeq(deserialize(row)), <<>>, rows)

-----------------------------------------------------------------------------
(* The constants: a limit of 0 is no limit for one query, and nothing in batches. *)

QueryOptions == [ascending : BOOLEAN, limit : Nat \ {0}, offset : Nat]
NewEvents == UNION {ToSet(events) : events \in ArchiveCommands}

ASSUME ArchiveAssumption ==
    /\ MaxArchived \in Nat /\ UpgradeTargets \subseteq Nat /\ ArchiveTimes \subseteq Nat
    /\ \A e \in RegistryEntries : e.upgraders \subseteq Nat \ {0}
    /\ ArchiveCommands \subseteq Seq(NewEvents) /\ {"__type", "value"} \subseteq DataStrings
    /\ \A e \in NewEvents :
         /\ e = [eventType |-> e.eventType, schemaVersion |-> e.schemaVersion,
                 eventData |-> e.eventData, encoded |-> e.encoded]
         /\ IsEventData(e.eventData) /\ e.encoded \in BOOLEAN
    /\ \A q \in ArchiveQueries : q.options \in QueryOptions

-----------------------------------------------------------------------------
(* The registry. *)

register(registry, es) ==
    [type \in DOMAIN registry \cup {e.eventType : e \in es} |->
        IF type \in DOMAIN registry THEN registry[type] ELSE CHOOSE e \in es : e.eventType = type]

RegisterEvent(e) ==
    /\ e.eventType \notin DOMAIN entries
    /\ entries' = register(entries, {e})
    /\ UNCHANGED <<archive, emitted, snapshots, session, upgrading>>

\* Entries before the first duplicate stay registered when it is refused.
RegisterAll(es) ==
    LET Duplicate(i) == es[i].eventType \in DOMAIN entries \cup {es[j].eventType : j \in 1 .. i - 1}
    IN
    /\ entries' = register(entries, {es[i] : i \in {j \in DOMAIN es : \A k \in 1 .. j : ~Duplicate(k)}})
    /\ UNCHANGED <<archive, emitted, snapshots, session, upgrading>>

ClearRegistry ==
    /\ entries' = <<>>
    /\ UNCHANGED <<archive, emitted, snapshots, session, upgrading>>

\* Every upgrader on the way, in order; versions without one are passed over.
upgradeEventData(type, applied, fromVersion, toVersion) ==
    IF type \notin DOMAIN entries THEN applied
    ELSE applied \o OrderBy(entries[type].upgraders \cap (fromVersion .. toVersion - 1), <)

\* A caller upgrades in as many calls as it likes.
Upgrade(toVersion) ==
    /\ toVersion >= upgrading.version
    /\ upgrading' = [upgrading EXCEPT
           !.applied = upgradeEventData(upgrading.eventType, @, upgrading.version, toVersion),
           !.version = toVersion]
    /\ UNCHANGED <<entries, archive, emitted, snapshots, session>>

-----------------------------------------------------------------------------
(* The store. *)

OfStream(a) == {r \in ToSet(archive) : r.aggregateId = a}
StreamLength(a) == Max({0} \cup {r.version : r \in OfStream(a)})

\* appendToStream stores what it is given: who wants the codec encodes before.
AppendToStream(a, events, time) ==
    LET Given(e) == IF e.encoded THEN serialize(e) ELSE e
        Row(i) == [aggregateId |-> a, version |-> StreamLength(a) + i, occurredAt |-> time,
                   eventType |-> events[i].eventType,
                   schemaVersion |-> IF events[i].schemaVersion = 0 THEN 1
                                     ELSE events[i].schemaVersion,
                   eventData |-> Jsonb(Given(events[i]).eventData)]
    IN
    /\ Len(archive) + Len(events) <= MaxArchived
    /\ archive' = archive \o [i \in DOMAIN events |-> Row(i)]
    /\ emitted' = emitted \o events
    /\ UNCHANGED <<entries, snapshots, session, upgrading>>

\* Faulty form: the first event is the snapshot's own.
loadStreamInclusive(a, fromVersion) ==
    OrderBy({r \in OfStream(a) : r.version >= fromVersion}, LAMBDA r, s : r.version < s.version)

loadStream(a, fromVersion) ==
    OrderBy({r \in OfStream(a) : r.version > fromVersion}, LAMBDA r, s : r.version < s.version)

\* A condition that is not given is the empty set.
Matches(row, filter) ==
    /\ filter.aggregateId # {} => row.aggregateId \in filter.aggregateId
    /\ filter.eventTypes # {} => row.eventType \in filter.eventTypes
    /\ row.occurredAt >= filter.from
    /\ row.occurredAt <= filter.to
    /\ row.version > filter.fromVersion

Earlier(r, s) == \/ r.occurredAt < s.occurredAt
                 \/ r.occurredAt = s.occurredAt /\ r.version < s.version

Selected(filter) == {r \in ToSet(archive) : Matches(r, filter)}

\* Rows of different aggregates may tie; the database then gives them in any order,
\* and in another one for the next statement.
InStrictOrder(filter) ==
    \A r, s \in Selected(filter) : r.occurredAt = s.occurredAt /\ r.version = s.version => r = s

\* A limit or offset of 0 leaves the clause out.  Of rows in strict order.
buildFilterQuery(filter, options) ==
    LET rows == OrderBy(Selected(filter),
                        LAMBDA r, s : IF options.ascending THEN Earlier(r, s) ELSE Earlier(s, r))
        last == IF options.limit = 0 THEN Len(rows) ELSE options.offset + options.limit
    IN  SubSeq(rows, options.offset + 1, IF last < Len(rows) THEN last ELSE Len(rows))

loadAllEvents(filter, options) == buildFilterQuery(filter, options)

nextBatch(filter, options, batchSize, yielded) ==
    LET rest == options.limit - Len(yielded)
    IN  buildFilterQuery(filter,
            [options EXCEPT !.limit = IF batchSize < rest THEN batchSize ELSE rest,
                            !.offset = @ + Len(yielded)])

\* One turn of the loop.
turn(filter, options, batchSize, loop) ==
    LET rows == nextBatch(filter, options, batchSize, loop.yielded)
    IN  IF loop.ended \/ Len(loop.yielded) >= options.limit \/ rows = <<>>
        THEN [loop EXCEPT !.ended = TRUE]
        ELSE [yielded |-> loop.yielded \o rows, ended |-> Len(rows) < batchSize]

\* Each turn yields something or is the last one.
streamAllEvents(filter, options, batchSize) ==
    LET loop[n \in Nat] == IF n = 0 THEN [yielded |-> <<>>, ended |-> FALSE]
                           ELSE turn(filter, options, batchSize, loop[n - 1])
    IN  loop[MaxArchived + 1].yielded

-----------------------------------------------------------------------------
(* Snapshots.  A state is the versions of the events it is built from. *)

\* No snapshot is a state without events.  One that is found cannot be given: the
\* state is jsonb, so what the row holds is parsed already, and JSON.parse throws.
loadSnapshotAtVersion(a, maxVersion) ==
    IF \E s \in snapshots : s.aggregateId = a /\ s.version <= maxVersion THEN {}
    ELSE {[Nowhere EXCEPT !.aggregateId = a]}

loadLatestSnapshot(a) == loadSnapshotAtVersion(a, MaxArchived)

buildFromEvents(initialState, rows) == initialState \o [i \in DOMAIN rows |-> rows[i].version]

Rebuilt(snapshot) ==
    LET state == buildFromEvents(snapshot.state, loadStream(snapshot.aggregateId, snapshot.version))
    IN  [snapshot EXCEPT !.state = state, !.version = @ + Len(state) - Len(snapshot.state)]

\* Somebody rebuilds an aggregate that has events, and may save it after others have
\* appended.
RebuildAggregate(a) ==
    /\ OfStream(a) # {}
    /\ \E snapshot \in loadLatestSnapshot(a) : session' = Rebuilt(snapshot)
    /\ UNCHANGED <<entries, archive, emitted, snapshots, upgrading>>

saveSnapshot ==
    /\ session # Nowhere
    /\ snapshots' = {s \in snapshots : s.aggregateId # session.aggregateId \/ s.version # session.version}
                        \cup {session}
    /\ UNCHANGED <<entries, archive, emitted, session, upgrading>>

deleteSnapshots(a) ==
    /\ snapshots' = {s \in snapshots : s.aggregateId # a}
    /\ UNCHANGED <<entries, archive, emitted, session, upgrading>>
-----------------------------------------------------------------------------
ArchiveInit ==
    /\ entries = <<>>
    /\ archive = <<>> /\ emitted = <<>>
    /\ snapshots = {}
    /\ session = Nowhere
    /\ upgrading \in [eventType : EventTypes, version : {1}, applied : {<<>>}]

ArchiveNext ==
    \/ \E e \in RegistryEntries :
         RegisterEvent(e) \/ \E f \in RegistryEntries : RegisterAll(<<e, f>>)
    \/ ClearRegistry
    \/ \E v \in UpgradeTargets : Upgrade(v)
    \/ \E a \in Streams :
         \/ \E events \in ArchiveCommands, time \in ArchiveTimes :
              AppendToStream(a, events, time)
         \/ RebuildAggregate(a)
         \/ deleteSnapshots(a)
    \/ saveSnapshot

ArchiveSpec == ArchiveInit /\ [][ArchiveNext]_archiveVars

ArchiveTypeOK ==
    /\ DOMAIN entries \subseteq EventTypes
    /\ Len(archive) = Len(emitted) /\ Len(archive) <= MaxArchived
    /\ snapshots \cup {session} \subseteq
           [aggregateId : Streams \cup {"none"}, version : 0 .. MaxArchived, state : Seq(1 .. MaxArchived)]
    /\ upgrading.version \in UpgradeTargets \cup {1}

\* What has been stored is read back.  A stored snapshot, taken while others
\* appended, and the events after it are the whole stream, as no snapshot and all
\* events are (snapshot.interface.ts:6), though the store cannot load one; where no
\* rows tie, paging with OFFSET yields what one query yields
\* (pg-event-store-enhanced.ts:160); an event that decodes carries the data that was
\* emitted, if it was encoded or has neither dates nor buffers, and unless it holds
\* what looks like the codec's own markers; and no upgrader is applied twice or out
\* of order, or ahead of its version.
ArchiveFaithful ==
    /\ \A s \in snapshots \cup {[Nowhere EXCEPT !.aggregateId = a] : a \in Streams} :
         Rebuilt(s).state = [i \in 1 .. StreamLength(s.aggregateId) |-> i]
    /\ \A q \in ArchiveQueries, batchSize \in 1 .. 2 : InStrictOrder(q.filter) =>
         streamAllEvents(q.filter, q.options, batchSize) = loadAllEvents(q.filter, q.options)
    /\ \A i \in DOMAIN archive : \A e \in deserialize(archive[i]) :
         \/ e.eventData = emitted[i].eventData
         \/ HasMarker(emitted[i].eventData)
         \/ ~emitted[i].encoded /\ HasSpecial(emitted[i].eventData)
    /\ \A i \in DOMAIN upgrading.applied :
         /\ upgrading.applied[i] \in 1 .. upgrading.version - 1
         /\ \A j \in 1 .. i - 1 : upgrading.applied[j] < upgrading.applied[i]

=============================================================================

-------------------------- MODULE AggregateMetadata --------------------------
(***************************************************************************)
(* The table of aggregate metadata: the projector that writes it, and the  *)
(* query service that pages through it, counting and selecting in two      *)
(* statements on one connection and no transaction.  The upsert numbers    *)
(* its placeholders so that the database refuses it, so rows come from     *)
(* elsewhere (ImportRow).  A row's columns are abstracted to those that a  *)
(* filter or a mapping tells apart.                                        *)
(***************************************************************************)
EXTENDS Naturals, FiniteSets, Sequences, SequencesExt, TLC

CONSTANTS
    MetadataKeys,   \* the keys, [tenantId, aggregateType, aggregateId]
    MetadataRows,   \* rows as they are imported
    PageLimit,      \* the limit a reader asks for
    MaxImports      \* bound: changes of the table

VARIABLES
    metadataTable,  \* the rows, by key
    projected,      \* what came of the last projection
    imports,        \* changes of the table so far
    reader          \* one caller that pages through a filter

metadataVars == <<metadataTable, projected, imports, reader>>

Null == "null"
NoTags == {Null}  \* the column without a value
NoScore == 101    \* the same
Times == 1 .. 3
MetadataTenants == {k.tenantId : k \in MetadataKeys}
Columns ==
    [createdAt : Times, isDeleted : BOOLEAN, category : {Null, "c"},
     tags : {NoTags, {}, {"vip"}}, qualityScore : 0 .. 100 \cup {NoScore},
     embeddingStatus : {Null, "SYNCED", "STALE"}, syncStatus : {Null, "SYNCED", "FAILED"}]

ASSUME MetadataAssumption ==
    /\ IsFiniteSet(MetadataKeys)
    /\ MetadataRows \subseteq Columns
    /\ PageLimit \in Nat \ {0}
    /\ MaxImports \in Nat

Filters ==
    [tenantId : MetadataTenants \cup {Null},
     aggregateType : {Null} \cup {k.aggregateType : k \in MetadataKeys},
     category : {Null, "c"}, tags : {{}, {"vip"}}, excludeDeleted : BOOLEAN,
     createdAtFrom : {1, 2}]

\* What a caller is given of a row: an extension is there when a column of it is.
Items ==
    [key : MetadataKeys, isDeleted : BOOLEAN, analyzable : BOOLEAN,
     needsReembedding : BOOLEAN, needsSync : BOOLEAN]

MetadataTypeOK ==
    /\ DOMAIN metadataTable \subseteq MetadataKeys
    /\ \A k \in DOMAIN metadataTable : metadataTable[k] \in Columns
    /\ projected \in {"never", "stored", "refused"}
    /\ imports \in 0 .. MaxImports
    /\ reader \in [phase : {"idle", "count", "select", "done", "failed"}, filter : Filters,
                   offset : Nat, total : Nat, seen : Seq(Items), calm : BOOLEAN]

NoFilter ==
    [tenantId |-> Null, aggregateType |-> Null, category |-> Null, tags |-> {},
     excludeDeleted |-> TRUE, createdAtFrom |-> 1]

MetadataInit ==
    /\ metadataTable = [k \in {} |-> Null]
    /\ projected = "never"
    /\ imports = 0
    /\ reader = [phase |-> "idle", filter |-> NoFilter, offset |-> 0, total |-> 0,
                 seen |-> <<>>, calm |-> TRUE]

Present == DOMAIN metadataTable

-----------------------------------------------------------------------------
(* The projector. *)

\* VALUES ($21, $22, $23, $24, ...): the parameters are the ETL metadata, the
\* tenant, the type and the id, one place before the columns they are for.
Bound(k, row) ==
    [tenant_id |-> Null, aggregate_type |-> k.tenantId, aggregate_id |-> k.aggregateType,
     created_at |-> k.aggregateId, columns |-> row]

\* NOT NULL on the key, a timestamp for created_at.
Accepted(values) == values.tenant_id # Null /\ values.created_at \in Times

\* Where the row is there, the upsert leaves created_at as it is.
Upsert(k, row) ==
    IF k \notin Present THEN row
    ELSE [row EXCEPT !.createdAt = metadataTable[k].createdAt]

\* Changes of the table are counted, and a reader under way is disturbed.
Changing ==
    /\ imports < MaxImports
    /\ imports' = imports + 1
    /\ reader' = [reader EXCEPT !.calm = @ /\ reader.phase = "idle"]

\* projectBatch projects one after the other and stops at the first that is refused.
ProjectBatch(keys, row) ==
    LET refused == {n \in DOMAIN keys : ~Accepted(Bound(keys[n], row))}
        written == {keys[n] : n \in {m \in DOMAIN keys : \A r \in refused : m < r}}
    IN
    /\ Changing
    /\ metadataTable' = [k \in Present \cup written |->
                            IF k \in written THEN Upsert(k, row) ELSE metadataTable[k]]
    /\ projected' = IF refused = {} THEN "stored" ELSE "refused"

Project(k, row) == ProjectBatch(<<k>>, row)

ImportRow(k, row) ==
    /\ k \notin Present
    /\ Changing
    /\ metadataTable' = [l \in Present \cup {k} |-> IF l = k THEN row ELSE metadataTable[l]]
    /\ UNCHANGED projected

\* Both update the row of the key, if there is one.
SoftDelete(k) ==
    /\ k \in Present
    /\ Changing
    /\ metadataTable' = [metadataTable EXCEPT ![k].isDeleted = TRUE]
    /\ UNCHANGED projected

Restore(k) ==
    /\ k \in Present
    /\ Changing
    /\ metadataTable' = [metadataTable EXCEPT ![k].isDeleted = FALSE]
    /\ UNCHANGED projected

-----------------------------------------------------------------------------
(* The query service. *)

\* What the columns of a row are mapped to.
MapRow(k) ==
    LET row == metadataTable[k] IN
    [key |-> k, isDeleted |-> row.isDeleted,
     analyzable |-> row.tags # NoTags \/ row.category # Null \/ row.qualityScore # NoScore,
     needsReembedding |-> row.embeddingStatus = "STALE",
     needsSync |-> row.syncStatus = "FAILED"]

\* A single row is found whether it is deleted or not.
GetById(k) == IF k \in Present THEN {MapRow(k)} ELSE {}

\* What is offered to filter by, deleted rows included.
AggregateTypes(tenant) == {k.aggregateType : k \in {l \in Present : l.tenantId = tenant}}
Categories(tenant) ==
    {metadataTable[k].category : k \in {l \in Present : l.tenantId = tenant}} \ {Null}
Tags(tenant) ==
    UNION {metadataTable[k].tags : k \in {l \in Present : l.tenantId = tenant}} \ NoTags

Matching(f) ==
    {k \in Present :
        LET row == metadataTable[k] IN
        /\ k.tenantId = f.tenantId
        /\ f.aggregateType \in {Null, k.aggregateType}
        /\ f.excludeDeleted => ~row.isDeleted
        /\ f.category \in {Null, row.category}
        /\ row.createdAt >= f.createdAtFrom}

\* Newest first; rows of one time come in any order, and another one each time.
Orders(keys) ==
    {s \in SetToSeqs(keys) :
        \A i, j \in DOMAIN s :
            i < j => metadataTable[s[i]].createdAt >= metadataTable[s[j]].createdAt}

\* A filter is made of what is offered.  Without a tenant the query throws;
\* by tags it fails in the database, as the operator ?| holds the character
\* of a placeholder.
Ask(f) ==
    /\ reader.phase = "idle"
    /\ f.aggregateType \in {Null} \cup AggregateTypes(f.tenantId)
    /\ f.category \in {Null} \cup Categories(f.tenantId)
    /\ f.tags \subseteq Tags(f.tenantId)
    /\ reader' = [reader EXCEPT
         !.phase = IF f.tenantId = Null \/ f.tags # {} THEN "failed" ELSE "count",
         !.filter = f]
    /\ UNCHANGED <<metadataTable, projected, imports>>

CountRows ==
    /\ reader.phase = "count"
    /\ reader' = [reader EXCEPT !.phase = "select", !.total = Cardinality(Matching(reader.filter))]
    /\ UNCHANGED <<metadataTable, projected, imports>>

\* Faulty form: a last page of one row is not fetched.
HasMoreOffByOne(offset, total) == offset + PageLimit + 1 < total

HasMore(offset, total) == offset + PageLimit < total

SelectRows ==
    /\ reader.phase = "select"
    /\ \E order \in Orders(Matching(reader.filter)) :
         LET page == SubSeq(order, reader.offset + 1, Min({reader.offset + PageLimit, Len(order)}))
             more == HasMore(reader.offset, reader.total)
         IN reader' = [reader EXCEPT
              !.phase = IF more THEN "count" ELSE "done",
              !.offset = IF more THEN @ + PageLimit ELSE @,
              !.seen = @ \o [n \in DOMAIN page |-> MapRow(page[n])]]
    /\ UNCHANGED <<metadataTable, projected, imports>>

MetadataNext ==
    \/ \E k \in MetadataKeys :
        \/ \E row \in MetadataRows :
            \/ Project(k, row)
            \/ ImportRow(k, row)
            \/ \E other \in MetadataKeys \ {k} : ProjectBatch(<<k, other>>, row)
        \/ SoftDelete(k)
        \/ Restore(k)
    \/ \E f \in Filters : Ask(f)
    \/ CountRows
    \/ SelectRows

MetadataSpec == MetadataInit /\ [][MetadataNext]_metadataVars

-----------------------------------------------------------------------------
\* A reader that follows hasMore to the end, over a table nobody changed
\* meanwhile, has been given every row of its filter exactly once, as it is,
\* and none of another tenant, provided that no two of the rows have one
\* created_at: ties have no order (aggregate-metadata-query.service.ts:84).
PagesComplete ==
    LET rows == Matching(reader.filter) IN
    /\ \A n \in DOMAIN reader.seen : reader.seen[n].key.tenantId = reader.filter.tenantId
    /\ (/\ reader.phase = "done" /\ reader.calm
        /\ \A k, l \in rows : k # l => metadataTable[k].createdAt # metadataTable[l].createdAt)
       => /\ Len(reader.seen) = Cardinality(rows)
          /\ {reader.seen[n] : n \in DOMAIN reader.seen} = UNION {GetById(k) : k \in rows}
=============================================================================

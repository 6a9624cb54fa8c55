--------------------------- MODULE Queries_proofs ---------------------------
(* What TLAPS proves of what queries are answered from: of the reader that pages
   through the aggregate metadata, for any keys, rows, filters and limit of a
   page; of the rows of the tenants' analytics, for any events and failures; of
   the scores of metadata, for any changes of it; and of reports, for any
   configurations, callers and rows. *)
EXTENDS AnalyticsReports, TenantAnalytics, QualityScores, Replay_proofs

-----------------------------------------------------------------------------
(* The table. *)

TableTyped ==
    /\ Present \subseteq MetadataKeys
    /\ \A k \in Present : metadataTable[k] \in Columns

LEMMA ColumnsKept ==
    ASSUME NEW row \in Columns
    PROVE  /\ \A t \in Times : [row EXCEPT !.createdAt = t] \in Columns
           /\ \A b \in BOOLEAN : [row EXCEPT !.isDeleted = b] \in Columns
BY DEF Columns

LEMMA ProjectBatchTyped ==
    ASSUME TableTyped, NEW keys \in Seq(MetadataKeys), NEW row \in Columns,
           ProjectBatch(keys, row)
    PROVE  TableTyped'
<1> DEFINE refused == {n \in DOMAIN keys : ~Accepted(Bound(keys[n], row))}
           written == {keys[n] : n \in {m \in DOMAIN keys : \A r \in refused : m < r}}
<1>1. written \subseteq MetadataKeys
  OBVIOUS
<1>2. metadataTable' = [k \in Present \cup written |->
                            IF k \in written THEN Upsert(k, row) ELSE metadataTable[k]]
  BY DEF ProjectBatch
<1> HIDE DEF written
<1>3. ASSUME NEW k PROVE Upsert(k, row) \in Columns
  <2>1. CASE k \notin Present
    BY <2>1 DEF Upsert
  <2>2. CASE k \in Present
    <3>1. metadataTable[k].createdAt \in Times
      BY <2>2 DEF TableTyped, Columns
    <3> QED  BY <2>2, <3>1, ColumnsKept DEF Upsert
  <2> QED  BY <2>1, <2>2
<1> QED  BY <1>1, <1>2, <1>3 DEF TableTyped, Present

LEMMA TableStep ==
    ASSUME TableTyped, [MetadataNext]_metadataVars
    PROVE  TableTyped'
<1>1. ASSUME NEW k \in MetadataKeys, NEW row \in MetadataRows, Project(k, row)
      PROVE  TableTyped'
  <2>1. <<k>> \in Seq(MetadataKeys) /\ row \in Columns
    BY MetadataAssumption
  <2> QED  BY <1>1, <2>1, ProjectBatchTyped DEF Project
<1>2. ASSUME NEW k \in MetadataKeys, NEW row \in MetadataRows, ImportRow(k, row)
      PROVE  TableTyped'
  <2>1. /\ metadataTable' = [l \in Present \cup {k} |-> IF l = k THEN row ELSE metadataTable[l]]
        /\ row \in Columns
    BY <1>2, MetadataAssumption DEF ImportRow
  <2> QED  BY <2>1 DEF TableTyped, Present
<1>3. ASSUME NEW k \in MetadataKeys, NEW row \in MetadataRows, NEW other \in MetadataKeys \ {k},
             ProjectBatch(<<k, other>>, row)
      PROVE  TableTyped'
  <2>1. <<k, other>> \in Seq(MetadataKeys) /\ row \in Columns
    BY MetadataAssumption
  <2> QED  BY <1>3, <2>1, ProjectBatchTyped
<1>4. ASSUME NEW k \in MetadataKeys, SoftDelete(k) \/ Restore(k)
      PROVE  TableTyped'
  <2>1. PICK b \in BOOLEAN : metadataTable' = [metadataTable EXCEPT ![k].isDeleted = b]
    BY <1>4 DEF SoftDelete, Restore
  <2>2. [metadataTable[k] EXCEPT !.isDeleted = b] \in Columns
    BY <1>4, ColumnsKept DEF SoftDelete, Restore, TableTyped
  <2> QED  BY <2>1, <2>2 DEF TableTyped, Present
<1>5. CASE (\E f \in Filters : Ask(f)) \/ CountRows \/ SelectRows \/ UNCHANGED metadataVars
  <2>1. metadataTable' = metadataTable
    BY <1>5 DEF Ask, CountRows, SelectRows, metadataVars
  <2> QED  BY <2>1 DEF TableTyped, Present
<1> QED  BY <1>1, <1>2, <1>3, <1>4, <1>5 DEF MetadataNext

-----------------------------------------------------------------------------
(* The rows of a filter, and the orders of them. *)

Rows == Matching(reader.filter)

LEMMA FewRows ==
    ASSUME TableTyped, NEW f
    PROVE  /\ Matching(f) \subseteq Present /\ Matching(f) \subseteq MetadataKeys
           /\ IsFiniteSet(Matching(f)) /\ Cardinality(Matching(f)) \in Nat
           /\ \A k \in Matching(f) : k.tenantId = f.tenantId /\ metadataTable[k].createdAt \in Nat
<1>1. Matching(f) \subseteq Present /\ Matching(f) \subseteq MetadataKeys
  BY DEF Matching, TableTyped
<1>2. IsFiniteSet(Matching(f)) /\ Cardinality(Matching(f)) \in Nat
  <2>1. IsFiniteSet(MetadataKeys)
    BY MetadataAssumption
  <2>2. IsFiniteSet(Matching(f))
    BY <1>1, <2>1, FS_Subset
  <2> QED  BY <2>2, FS_CardinalityType
<1>3. \A k \in Matching(f) : metadataTable[k].createdAt \in Nat
  <2>1. \A k \in Present : metadataTable[k].createdAt \in Times
    BY DEF TableTyped, Columns
  <2>2. Times \subseteq Nat
    BY DEF Times
  <2> QED  BY <1>1, <2>1, <2>2
<1>4. \A k \in Matching(f) : k.tenantId = f.tenantId
  BY DEF Matching
<1> QED  BY <1>1, <1>2, <1>3, <1>4

\* An order has each row once.
LEMMA OrderHasAll ==
    ASSUME NEW S, IsFiniteSet(S), NEW o \in SetToSeqs(S)
    PROVE  /\ o \in Seq(S) /\ Len(o) = Cardinality(S) /\ DOMAIN o = 1 .. Cardinality(S)
           /\ \A i \in 1 .. Cardinality(S) : o[i] \in S
           /\ \A k \in S : \E i \in 1 .. Cardinality(S) : o[i] = k
<1> DEFINE n == Cardinality(S)
<1>1. n \in Nat
  BY FS_CardinalityType
<1>2. o \in [1 .. n -> S] /\ \A i, j \in 1 .. n : i # j => o[i] # o[j]
  BY DEF SetToSeqs
<1> HIDE DEF n
<1>3. o \in Seq(S) /\ Len(o) = n
  BY <1>1, <1>2
<1>4. o \in Injection(1 .. n, S)
  BY <1>2 DEF Injection, IsInjective
<1>5. Cardinality(1 .. n) = n
  BY <1>1, FS_Interval
<1>6. o \in Surjection(1 .. n, S)
  BY <1>4, <1>5, FS_Injection DEF n
<1>7. \A k \in S : \E i \in 1 .. n : o[i] = k
  BY <1>6 DEF Surjection
<1> QED  BY <1>2, <1>3, <1>7 DEF n

\* Newest first: a row's time is greater than that of every later one.
Newest(o, n, time) ==
    /\ \A i \in 1 .. n : time[o[i]] \in Nat
    /\ \A i, j \in 1 .. n : i < j => time[o[i]] > time[o[j]]

Among(o, p, n) == \A i \in 1 .. n : \E j \in 1 .. n : p[j] = o[i]

\* Without ties there is one order.
LEMMA OrderedOnce ==
    ASSUME NEW n \in Nat, NEW time, NEW o, NEW p, Newest(o, n, time), Newest(p, n, time),
           Among(o, p, n), Among(p, o, n)
    PROVE  \A i \in 1 .. n : o[i] = p[i]
<1> DEFINE Same(k) == k <= n => \A i \in 1 .. k : o[i] = p[i]
           S == {k \in Nat : Same(k)}
<1>1. Same(0)
  OBVIOUS
<1>2. ASSUME NEW k \in Nat, Same(k) PROVE Same(k + 1)
  <2> SUFFICES ASSUME k + 1 <= n PROVE o[k + 1] = p[k + 1]
    <3>1. \A i \in 1 .. k + 1 : i \in 1 .. k \/ i = k + 1
      OBVIOUS
    <3> QED  BY <1>2, <3>1
  <2>0. k + 1 \in 1 .. n /\ \A i \in 1 .. k : o[i] = p[i]
    BY <1>2
  <2> HIDE DEF Same
  <2>1. PICK j \in 1 .. n : p[j] = o[k + 1]
    BY <2>0 DEF Among
  <2>2. PICK l \in 1 .. n : o[l] = p[k + 1]
    BY <2>0 DEF Among
  <2>3. j >= k + 1
    <3> SUFFICES ASSUME j \in 1 .. k PROVE FALSE
      OBVIOUS
    <3>1. o[j] = o[k + 1]
      BY <2>0, <2>1
    <3>2. time[o[j]] > time[o[k + 1]] /\ time[o[j]] \in Nat
      BY <2>0 DEF Newest
    <3> QED  BY <3>1, <3>2
  <2>4. l >= k + 1
    <3> SUFFICES ASSUME l \in 1 .. k PROVE FALSE
      OBVIOUS
    <3>1. p[l] = p[k + 1]
      BY <2>0, <2>2
    <3>2. time[p[l]] > time[p[k + 1]] /\ time[p[l]] \in Nat
      BY <2>0 DEF Newest
    <3> QED  BY <3>1, <3>2
  <2>5. CASE j = k + 1
    BY <2>1, <2>5
  <2>6. CASE j > k + 1
    <3>1. time[p[k + 1]] > time[o[k + 1]]
      BY <2>0, <2>1, <2>6 DEF Newest
    <3>2. l = k + 1 \/ time[o[k + 1]] > time[p[k + 1]]
      BY <2>0, <2>2, <2>4 DEF Newest
    <3>3. time[o[k + 1]] \in Nat /\ time[p[k + 1]] \in Nat
      BY <2>0 DEF Newest
    <3> QED  BY <2>2, <3>1, <3>2, <3>3
  <2> QED  BY <2>3, <2>5, <2>6
<1>3. n \in S
  <2>1. 0 \in S /\ \A k \in Nat : k \in S => k + 1 \in S
    BY <1>1, <1>2
  <2> HIDE DEF S
  <2> QED  BY <2>1, Induction
<1> QED  BY <1>3

\* No two rows of the filter have one time.
NoTies == \A k, l \in Rows : k # l => metadataTable[k].createdAt # metadataTable[l].createdAt

LEMMA OneOrder ==
    ASSUME TableTyped, NoTies, NEW o \in Orders(Rows), NEW p \in Orders(Rows)
    PROVE  \A i \in 1 .. Cardinality(Rows) : o[i] = p[i]
<1> DEFINE n == Cardinality(Rows)
           time == [k \in Rows |-> metadataTable[k].createdAt]
<1>1. n \in Nat /\ IsFiniteSet(Rows) /\ \A k \in Rows : time[k] \in Nat
  BY FewRows DEF Rows
<1>2. ASSUME NEW q \in Orders(Rows)
      PROVE  /\ Newest(q, n, time)
             /\ \A i \in 1 .. n : q[i] \in Rows
             /\ \A k \in Rows : \E i \in 1 .. n : q[i] = k
  <2>1. /\ q \in SetToSeqs(Rows)
        /\ \A i, j \in DOMAIN q : i < j =>
              metadataTable[q[i]].createdAt >= metadataTable[q[j]].createdAt
    BY DEF Orders
  <2>2. /\ DOMAIN q = 1 .. n
        /\ \A i \in 1 .. n : q[i] \in Rows
        /\ \A k \in Rows : \E i \in 1 .. n : q[i] = k
    BY <1>1, <2>1, OrderHasAll
  <2>3. \A i, j \in 1 .. n : i # j => q[i] # q[j]
    BY <2>1 DEF SetToSeqs
  <2>4. ASSUME NEW i \in 1 .. n, NEW j \in 1 .. n, i < j PROVE time[q[i]] > time[q[j]]
    <3>1. q[i] \in Rows /\ q[j] \in Rows /\ q[i] # q[j]
      BY <2>2, <2>3, <2>4
    <3>2. /\ metadataTable[q[i]].createdAt >= metadataTable[q[j]].createdAt
          /\ metadataTable[q[i]].createdAt # metadataTable[q[j]].createdAt
      BY <2>1, <2>2, <2>4, <3>1 DEF NoTies
    <3>3. time[q[i]] \in Nat /\ time[q[j]] \in Nat
      BY <1>1, <3>1
    <3> QED  BY <3>1, <3>2, <3>3
  <2>5. Newest(q, n, time)
    BY <1>1, <2>2, <2>4 DEF Newest
  <2> QED  BY <2>2, <2>5
<1> HIDE DEF n, time
<1>3. Among(o, p, n) /\ Among(p, o, n)
  BY <1>2 DEF Among
<1> QED  BY <1>1, <1>2, <1>3, OrderedOnce DEF n

-----------------------------------------------------------------------------
(* The reader. *)

ReaderType ==
    [phase : {"idle", "count", "select", "done", "failed"}, filter : Filters,
     offset : Nat, total : Nat, seen : Seq(Items), calm : BOOLEAN]

\* The reader was given rows of its tenant; and as long as nobody changes the
\* table, it has the first ones, as they are, of the only order there is.
Reading ==
    /\ reader \in ReaderType
    /\ \A n \in 1 .. Len(reader.seen) : reader.seen[n].key.tenantId = reader.filter.tenantId
    /\ reader.phase \in {"idle", "failed"} => reader.offset = 0 /\ reader.seen = <<>>

Begins(order, n) ==
    /\ Len(reader.seen) = n
    /\ n <= Cardinality(Rows)
    /\ \A i \in 1 .. n : reader.seen[i] = MapRow(order[i])

Followed ==
    reader.calm = TRUE /\ NoTies =>
        /\ reader.phase \in {"count", "select"} =>
             \A order \in Orders(Rows) : Begins(order, reader.offset)
        /\ reader.phase = "select" => reader.total = Cardinality(Rows)
        /\ reader.phase = "done" =>
             \E order \in Orders(Rows) : Begins(order, Cardinality(Rows))

LEMMA ItemsTyped ==
    ASSUME TableTyped, NEW k \in Present
    PROVE  MapRow(k) \in Items /\ MapRow(k).key = k
<1>1. metadataTable[k].isDeleted \in BOOLEAN /\ k \in MetadataKeys
  BY DEF TableTyped, Columns
<1> QED  BY <1>1 DEF MapRow, Items

LEMMA Slice ==
    ASSUME NEW S, NEW s, NEW a \in Nat, NEW b \in Nat, \A i \in a + 1 .. b : s[i] \in S
    PROVE  /\ SubSeq(s, a + 1, b) \in Seq(S)
           /\ Len(SubSeq(s, a + 1, b)) = IF a < b THEN b - a ELSE 0
           /\ \A n \in 1 .. b - a : SubSeq(s, a + 1, b)[n] = s[a + n]
<1> DEFINE m == a + 1
<1>1. m \in Int /\ b \in Int /\ \A i \in m .. b : s[i] \in S
  OBVIOUS
<1>2. b - m + 1 = b - a /\ (m <= b <=> a < b) /\ \A n \in Nat : m + n - 1 = a + n
  OBVIOUS
<1> HIDE DEF m
<1>3. /\ SubSeq(s, m, b) \in Seq(S)
      /\ Len(SubSeq(s, m, b)) = IF m <= b THEN b - m + 1 ELSE 0
      /\ \A n \in 1 .. b - m + 1 : SubSeq(s, m, b)[n] = s[m + n - 1]
  BY <1>1, SubSeqProperties
<1> DEFINE slice == SubSeq(s, m, b)
<1>4. /\ slice \in Seq(S) /\ Len(slice) = IF m <= b THEN b - m + 1 ELSE 0
      /\ \A n \in 1 .. b - m + 1 : slice[n] = s[m + n - 1]
  BY <1>3
<1> HIDE DEF slice
<1>5. /\ Len(slice) = IF a < b THEN b - a ELSE 0
      /\ \A n \in 1 .. b - a : slice[n] = s[a + n]
  BY <1>2, <1>4
<1> QED  BY <1>4, <1>5 DEF slice, m

\* What the rows of a page are mapped to.
GivenOf(page) == [n \in DOMAIN page |-> MapRow(page[n])]

LEMMA PageGiven ==
    ASSUME TableTyped, NEW S \in SUBSET Present, NEW page \in Seq(S)
    PROVE  /\ GivenOf(page) \in Seq(Items) /\ Len(GivenOf(page)) = Len(page)
           /\ \A n \in 1 .. Len(page) :
                 /\ GivenOf(page)[n] = MapRow(page[n])
                 /\ GivenOf(page)[n].key = page[n] /\ page[n] \in S
<1>1. DOMAIN page = 1 .. Len(page) /\ Len(page) \in Nat /\ \A n \in 1 .. Len(page) : page[n] \in S
  OBVIOUS
<1>2. \A n \in 1 .. Len(page) : MapRow(page[n]) \in Items /\ MapRow(page[n]).key = page[n]
  BY <1>1, ItemsTyped
<1>3. GivenOf(page) = [n \in 1 .. Len(page) |-> MapRow(page[n])]
  BY <1>1 DEF GivenOf
<1>4. GivenOf(page) \in Seq(Items) /\ Len(GivenOf(page)) = Len(page)
  BY <1>1, <1>2, <1>3
<1> QED  BY <1>1, <1>2, <1>3, <1>4

\* The page of an order: its rows from the offset on, as many as there are.
LEMMA PageOfOrder ==
    ASSUME TableTyped, NEW f, NEW o \in Orders(Matching(f)), NEW from \in Nat
    PROVE  LET given == GivenOf(SubSeq(o, from + 1, Min({from + PageLimit, Len(o)})))
               N == Cardinality(Matching(f))
           IN
           /\ given \in Seq(Items)
           /\ \A n \in 1 .. Len(given) : given[n].key.tenantId = f.tenantId
           /\ from + PageLimit < N => Len(given) = PageLimit
           /\ ~(from + PageLimit < N) /\ from <= N => Len(given) = N - from
           /\ \A n \in 1 .. Len(given) : from + n \in 1 .. N /\ given[n] = MapRow(o[from + n])
<1> DEFINE N == Cardinality(Matching(f))
           to == Min({from + PageLimit, Len(o)})
           page == SubSeq(o, from + 1, to)
           given == GivenOf(page)
<1> USE MetadataAssumption
<1>1. /\ N \in Nat /\ IsFiniteSet(Matching(f)) /\ Matching(f) \in SUBSET Present
      /\ \A k \in Matching(f) : k.tenantId = f.tenantId
  BY FewRows
<1>2. Len(o) = N /\ \A i \in 1 .. N : o[i] \in Matching(f)
  BY <1>1, OrderHasAll DEF Orders
<1> HIDE DEF N
<1>3. to = IF from + PageLimit < N THEN from + PageLimit ELSE N
  BY <1>1, <1>2 DEF Min
<1>4. to \in Nat /\ to <= N
  BY <1>1, <1>3
<1> HIDE DEF to
<1>5. \A i \in from + 1 .. to : o[i] \in Matching(f)
  BY <1>1, <1>2, <1>4
<1>6. /\ page \in Seq(Matching(f))
      /\ Len(page) = IF from < to THEN to - from ELSE 0
      /\ \A n \in 1 .. to - from : page[n] = o[from + n]
  BY <1>4, <1>5, Slice
<1> HIDE DEF page
<1>7. /\ given \in Seq(Items) /\ Len(given) = Len(page)
      /\ \A n \in 1 .. Len(page) :
           given[n] = MapRow(page[n]) /\ given[n].key = page[n] /\ page[n] \in Matching(f)
  BY <1>1, <1>6, PageGiven
<1> HIDE DEF given
<1>8. \A n \in 1 .. Len(given) : given[n].key.tenantId = f.tenantId
  BY <1>1, <1>7
<1>9. /\ from + PageLimit < N => Len(given) = PageLimit
      /\ ~(from + PageLimit < N) /\ from <= N => Len(given) = N - from
  BY <1>1, <1>3, <1>6, <1>7
<1>10. \A n \in 1 .. Len(given) : from + n \in 1 .. N /\ given[n] = MapRow(o[from + n])
  <2> SUFFICES ASSUME NEW n \in 1 .. Len(given)
               PROVE  from + n \in 1 .. N /\ given[n] = MapRow(o[from + n])
    OBVIOUS
  <2>1. n \in 1 .. Len(page) /\ n \in 1 .. to - from
    BY <1>4, <1>6, <1>7
  <2>2. given[n] = MapRow(page[n]) /\ page[n] = o[from + n]
    BY <1>6, <1>7, <2>1
  <2> QED  BY <1>1, <1>4, <2>1, <2>2
<1> QED  BY <1>7, <1>8, <1>9, <1>10 DEF given, page, to, N

-----------------------------------------------------------------------------
(* The steps of the reader. *)

\* What a filter selects is a matter of the table alone.
LEMMA SameTable ==
    ASSUME metadataTable' = metadataTable, reader'.filter = reader.filter
    PROVE  /\ Rows' = Rows /\ Orders(Rows)' = Orders(Rows) /\ NoTies' = NoTies
           /\ \A k : MapRow(k)' = MapRow(k)
<1>1. Rows' = Rows
  BY DEF Rows, Matching, Present
<1>2. Orders(Rows)' = Orders(Rows)
  BY <1>1 DEF Orders
<1>3. NoTies' = NoTies
  BY <1>1 DEF NoTies
<1>4. \A k : MapRow(k)' = MapRow(k)
  BY DEF MapRow
<1> QED  BY <1>1, <1>2, <1>3, <1>4

\* A change disturbs the reader that is under way.
LEMMA Disturbing ==
    ASSUME Reading, Changing
    PROVE  Reading' /\ Followed'
<1> DEFINE b == reader.calm /\ reader.phase = "idle"
           after == [reader EXCEPT !.calm = b]
<1>1. reader' = after
  BY DEF Changing
<1>2. b \in BOOLEAN /\ reader \in ReaderType
  BY DEF Reading, ReaderType
<1>3. b = TRUE => reader.phase = "idle"
  OBVIOUS
<1> HIDE DEF b
<1>4. /\ after \in ReaderType /\ after.seen = reader.seen /\ after.filter = reader.filter
      /\ after.phase = reader.phase /\ after.offset = reader.offset /\ after.calm = b
  BY <1>2 DEF ReaderType
<1> HIDE DEF after
<1>5. Reading'
  BY <1>1, <1>4 DEF Reading
<1>6. Followed'
  <2>1. reader'.calm = TRUE => reader'.phase = "idle"
    BY <1>1, <1>3, <1>4
  <2> QED  BY <2>1 DEF Followed
<1> QED  BY <1>5, <1>6

LEMMA Asking ==
    ASSUME TableTyped, Reading, Followed, NEW f \in Filters, Ask(f)
    PROVE  Reading' /\ Followed'
<1> DEFINE ph == IF f.tenantId = Null \/ f.tags # {} THEN "failed" ELSE "count"
           after == [reader EXCEPT !.phase = ph, !.filter = f]
<1>1. reader' = after /\ reader.phase = "idle" /\ metadataTable' = metadataTable
  BY DEF Ask
<1>2. ph \in {"failed", "count"} /\ reader \in ReaderType
  BY DEF Reading
<1> HIDE DEF ph
<1>3. /\ after \in ReaderType /\ after.seen = reader.seen /\ after.filter = f
      /\ after.phase = ph /\ after.offset = reader.offset
  BY <1>2 DEF ReaderType
<1> HIDE DEF after
<1>4. reader.offset = 0 /\ reader.seen = <<>>
  BY <1>1 DEF Reading
<1>5. Reading'
  BY <1>1, <1>3, <1>4 DEF Reading
<1>6. TableTyped'
  BY <1>1 DEF TableTyped, Present
<1>7. Cardinality(Rows') \in Nat
  <2>1. Rows' = Matching(f)
    BY <1>1, <1>3 DEF Rows, Matching, Present
  <2> QED  BY <2>1, FewRows
<1>8. \A order : Begins(order, reader.offset)'
  BY <1>1, <1>3, <1>4, <1>7 DEF Begins
<1>9. Followed'
  <2>1. reader'.phase \in {"failed", "count"} /\ reader'.offset = 0
    BY <1>1, <1>2, <1>3, <1>4
  <2> QED  BY <1>8, <2>1 DEF Followed
<1> QED  BY <1>5, <1>9

LEMMA Counting ==
    ASSUME TableTyped, Reading, Followed, CountRows
    PROVE  Reading' /\ Followed'
<1> DEFINE N == Cardinality(Rows)
           after == [reader EXCEPT !.phase = "select", !.total = N]
<1>1. reader' = after /\ reader.phase = "count" /\ metadataTable' = metadataTable
  BY DEF CountRows, Rows
<1>2. N \in Nat /\ reader \in ReaderType
  BY FewRows DEF Reading, Rows
<1> HIDE DEF N
<1>3. /\ after \in ReaderType /\ after.seen = reader.seen /\ after.filter = reader.filter
      /\ after.phase = "select" /\ after.offset = reader.offset /\ after.calm = reader.calm
      /\ after.total = N
  BY <1>2 DEF ReaderType
<1> HIDE DEF after
<1>4. Reading'
  BY <1>1, <1>3 DEF Reading
<1>5. /\ Rows' = Rows /\ Orders(Rows)' = Orders(Rows) /\ NoTies' = NoTies
      /\ \A k : MapRow(k)' = MapRow(k)
  BY <1>1, <1>3, SameTable
<1>6. ASSUME reader'.calm = TRUE, NoTies' PROVE (\A order \in Orders(Rows) : Begins(order, reader.offset))'
  <2>1. reader.calm = TRUE /\ NoTies
    BY <1>1, <1>3, <1>5, <1>6
  <2>2. \A order \in Orders(Rows) : Begins(order, reader.offset)
    BY <1>1, <2>1 DEF Followed
  <2> QED  BY <1>1, <1>3, <1>5, <2>2 DEF Begins
<1>7. Followed'
  <2>1. reader'.phase = "select" /\ reader'.total = Cardinality(Rows)'
    BY <1>1, <1>3, <1>5 DEF N
  <2> QED  BY <1>6, <2>1 DEF Followed
<1> QED  BY <1>4, <1>7

\* The page an order gives, read behind what the reader has been given.
LEMMA Selecting ==
    ASSUME TableTyped, Reading, Followed, SelectRows
    PROVE  Reading' /\ Followed'
<1> DEFINE N == Cardinality(Rows)
<1>1. PICK o \in Orders(Rows) :
        LET page == SubSeq(o, reader.offset + 1, Min({reader.offset + PageLimit, Len(o)}))
            more == HasMore(reader.offset, reader.total)
        IN reader' = [reader EXCEPT
             !.phase = IF more THEN "count" ELSE "done",
             !.offset = IF more THEN @ + PageLimit ELSE @,
             !.seen = @ \o [n \in DOMAIN page |-> MapRow(page[n])]]
  BY DEF SelectRows, Rows
<1> DEFINE more == HasMore(reader.offset, reader.total)
           from == reader.offset
           given == GivenOf(SubSeq(o, from + 1, Min({from + PageLimit, Len(o)})))
           ph == IF more THEN "count" ELSE "done"
           off == IF more THEN from + PageLimit ELSE from
           sn == reader.seen \o given
           after == [reader EXCEPT !.phase = ph, !.offset = off, !.seen = sn]
<1>2. reader' = after /\ reader.phase = "select" /\ metadataTable' = metadataTable
  BY <1>1 DEF SelectRows, GivenOf
<1>3. /\ reader \in ReaderType /\ from \in Nat /\ reader.total \in Nat /\ reader.seen \in Seq(Items)
      /\ N \in Nat /\ PageLimit \in Nat
  BY FewRows, MetadataAssumption DEF Reading, ReaderType, Rows
<1>4. /\ given \in Seq(Items)
      /\ \A n \in 1 .. Len(given) : given[n].key.tenantId = reader.filter.tenantId
      /\ from + PageLimit < N => Len(given) = PageLimit
      /\ ~(from + PageLimit < N) /\ from <= N => Len(given) = N - from
      /\ \A n \in 1 .. Len(given) : from + n \in 1 .. N /\ given[n] = MapRow(o[from + n])
  <2>1. o \in Orders(Matching(reader.filter)) /\ from \in Nat
    BY <1>3 DEF Rows
  <2> QED  BY <2>1, PageOfOrder DEF Rows
<1>5. (more <=> from + PageLimit < reader.total) /\ ph \in {"count", "done"} /\ off \in Nat
  BY <1>3 DEF HasMore
<1> HIDE DEF given, N, more
<1>6. /\ sn \in Seq(Items) /\ Len(sn) = Len(reader.seen) + Len(given)
      /\ \A n \in 1 .. Len(reader.seen) : sn[n] = reader.seen[n]
      /\ \A n \in 1 .. Len(given) : sn[Len(reader.seen) + n] = given[n]
      /\ \A n \in 1 .. Len(sn) : n \in 1 .. Len(reader.seen)
                                   \/ \E m \in 1 .. Len(given) : n = Len(reader.seen) + m
  <2> HIDE DEF from
  <2>1. reader.seen \in Seq(Items) /\ given \in Seq(Items)
    BY <1>3, <1>4
  <2> QED  BY <2>1, ConcatIs
<1> HIDE DEF sn, off, ph
<1>7. /\ after \in ReaderType /\ after.seen = sn /\ after.filter = reader.filter
      /\ after.phase = ph /\ after.offset = off /\ after.calm = reader.calm
      /\ after.total = reader.total
  BY <1>3, <1>5, <1>6 DEF ReaderType
<1> HIDE DEF after
<1>8. Reading'
  <2>1. ASSUME NEW n \in 1 .. Len(sn) PROVE sn[n].key.tenantId = reader.filter.tenantId
    <3>1. CASE n \in 1 .. Len(reader.seen)
      BY <1>6, <3>1 DEF Reading
    <3>2. ASSUME NEW m \in 1 .. Len(given), n = Len(reader.seen) + m
          PROVE  sn[n].key.tenantId = reader.filter.tenantId
      BY <1>4, <1>6, <3>2
    <3> QED  BY <1>6, <3>1, <3>2
  <2>2. ph \notin {"idle", "failed"}
    BY <1>5
  <2>3. reader' \in ReaderType /\ reader'.seen = sn /\ reader'.filter = reader.filter /\ reader'.phase = ph
    BY <1>2, <1>7
  <2> QED  BY <2>1, <2>2, <2>3 DEF Reading
<1>9. /\ Rows' = Rows /\ Orders(Rows)' = Orders(Rows) /\ NoTies' = NoTies
      /\ \A k : MapRow(k)' = MapRow(k)
  BY <1>2, <1>7, SameTable
<1>10. ASSUME reader'.calm = TRUE, NoTies', NEW p \in Orders(Rows)
       PROVE  /\ Len(sn) = (IF more THEN off ELSE N) /\ Len(sn) <= N
              /\ \A i \in 1 .. Len(sn) : sn[i] = MapRow(p[i])
  <2>1. reader.calm = TRUE /\ NoTies
    BY <1>2, <1>7, <1>9, <1>10
  <2>2. Begins(p, from) /\ reader.total = N
    BY <1>2, <2>1 DEF Followed, N
  <2>3. /\ Len(reader.seen) = from /\ from <= N
        /\ \A i \in 1 .. from : reader.seen[i] = MapRow(p[i])
    BY <2>2 DEF Begins, N
  <2>4. \A i \in 1 .. N : o[i] = p[i]
    BY <2>1, OneOrder DEF N
  <2>5. \A n \in 1 .. Len(given) : given[n] = MapRow(p[from + n])
    BY <1>4, <2>4
  <2>6. Len(given) = IF more THEN PageLimit ELSE N - from
    BY <1>4, <1>5, <2>2, <2>3
  <2>7. Len(sn) = (IF more THEN off ELSE N)
    BY <1>3, <1>6, <2>3, <2>6 DEF off
  <2>8. Len(sn) <= N
    BY <1>3, <1>5, <2>2, <2>7 DEF off
  <2>9. \A i \in 1 .. Len(sn) : sn[i] = MapRow(p[i])
    <3> SUFFICES ASSUME NEW i \in 1 .. Len(sn) PROVE sn[i] = MapRow(p[i])
      OBVIOUS
    <3>1. CASE i \in 1 .. Len(reader.seen)
      BY <1>6, <2>3, <3>1
    <3>2. ASSUME NEW m \in 1 .. Len(given), i = from + m PROVE sn[i] = MapRow(p[i])
      BY <1>6, <2>3, <2>5, <3>2
    <3> QED  BY <1>6, <2>3, <3>1, <3>2
  <2> QED  BY <2>7, <2>8, <2>9
<1>11. ASSUME reader'.calm = TRUE, NoTies'
       PROVE  /\ more => (\A order \in Orders(Rows) : Begins(order, reader.offset))'
              /\ ~more => (\E order \in Orders(Rows) : Begins(order, Cardinality(Rows)))'
  <2>1. /\ reader'.seen = sn /\ reader'.offset = off /\ Cardinality(Rows') = N
    BY <1>2, <1>7, <1>9 DEF N
  <2>2. ASSUME NEW p \in Orders(Rows)
        PROVE  /\ Len(sn) = (IF more THEN off ELSE N) /\ Len(sn) <= N
               /\ \A i \in 1 .. Len(sn) : sn[i] = MapRow(p[i])'
    BY <1>9, <1>10, <1>11
  <2>3. ASSUME more, NEW p \in Orders(Rows) PROVE Begins(p, reader.offset)'
    BY <2>1, <2>2, <2>3 DEF Begins
  <2>4. ASSUME ~more PROVE Begins(o, Cardinality(Rows))'
    BY <2>1, <2>2, <2>4 DEF Begins
  <2> QED  BY <1>9, <2>3, <2>4
<1>12. Followed'
  <2>1. reader'.phase = IF more THEN "count" ELSE "done"
    BY <1>2, <1>7 DEF ph
  <2> QED  BY <1>11, <2>1 DEF Followed
<1> QED  BY <1>8, <1>12

-----------------------------------------------------------------------------
(* The specification. *)

MetadataInv ==
    /\ TableTyped
    /\ projected \in {"never", "stored", "refused"} /\ imports \in 0 .. MaxImports
    /\ Reading /\ Followed

LEMMA MetadataStart == MetadataInit => MetadataInv
<1> SUFFICES ASSUME MetadataInit PROVE MetadataInv
  OBVIOUS
<1>1. TableTyped
  BY DEF MetadataInit, TableTyped, Present
<1>2. projected \in {"never", "stored", "refused"} /\ imports \in 0 .. MaxImports
  BY MetadataAssumption DEF MetadataInit
<1>3. reader \in ReaderType
  <2>1. NoFilter \in Filters
    BY DEF NoFilter, Filters
  <2> QED  BY <2>1 DEF MetadataInit, ReaderType
<1>4. Reading /\ Followed
  BY <1>3 DEF MetadataInit, Reading, Followed
<1> QED  BY <1>1, <1>2, <1>4 DEF MetadataInv

LEMMA MetadataStep == MetadataInv /\ [MetadataNext]_metadataVars => MetadataInv'
<1> SUFFICES ASSUME MetadataInv, [MetadataNext]_metadataVars PROVE MetadataInv'
  OBVIOUS
<1>1. TableTyped'
  BY TableStep DEF MetadataInv
<1>2. ASSUME Changing, \/ UNCHANGED projected
                       \/ projected' \in {"stored", "refused"}
      PROVE  MetadataInv'
  <2>1. Reading' /\ Followed'
    BY <1>2, Disturbing DEF MetadataInv
  <2>2. imports' \in 0 .. MaxImports
    BY <1>2, MetadataAssumption DEF MetadataInv, Changing
  <2> QED  BY <1>1, <1>2, <2>1, <2>2 DEF MetadataInv
<1>3. ASSUME NEW keys, NEW row, ProjectBatch(keys, row) PROVE MetadataInv'
  BY <1>2, <1>3 DEF ProjectBatch
<1>4. ASSUME NEW k \in MetadataKeys, NEW row \in MetadataRows,
             \/ Project(k, row)
             \/ ImportRow(k, row)
             \/ \E other \in MetadataKeys \ {k} : ProjectBatch(<<k, other>>, row)
      PROVE  MetadataInv'
  <2>1. CASE Project(k, row)
    BY <1>3, <2>1 DEF Project
  <2>2. CASE ImportRow(k, row)
    BY <1>2, <2>2 DEF ImportRow
  <2>3. CASE \E other \in MetadataKeys \ {k} : ProjectBatch(<<k, other>>, row)
    BY <1>3, <2>3
  <2> QED  BY <1>4, <2>1, <2>2, <2>3
<1>5. ASSUME NEW k \in MetadataKeys, SoftDelete(k) \/ Restore(k) PROVE MetadataInv'
  BY <1>2, <1>5 DEF SoftDelete, Restore
<1>6. ASSUME (\E f \in Filters : Ask(f)) \/ CountRows \/ SelectRows PROVE MetadataInv'
  <2>1. UNCHANGED <<projected, imports>>
    BY <1>6 DEF Ask, CountRows, SelectRows
  <2>2. Reading' /\ Followed'
    BY <1>6, Asking, Counting, Selecting DEF MetadataInv
  <2> QED  BY <1>1, <2>1, <2>2 DEF MetadataInv
<1>7. CASE UNCHANGED metadataVars
  <2>1. metadataTable' = metadataTable /\ reader' = reader
    BY <1>7 DEF metadataVars
  <2>2. /\ Rows' = Rows /\ Orders(Rows)' = Orders(Rows) /\ NoTies' = NoTies
        /\ \A k : MapRow(k)' = MapRow(k)
    BY <2>1, SameTable
  <2>3. Followed'
    BY <2>1, <2>2 DEF MetadataInv, Followed, Begins
  <2>4. Reading'
    BY <2>1 DEF MetadataInv, Reading
  <2> QED  BY <1>1, <1>7, <2>3, <2>4 DEF MetadataInv, metadataVars
<1> QED  BY <1>4, <1>5, <1>6, <1>7 DEF MetadataNext

\* The table, the projector and the reader keep their types whatever is
\* projected, imported, deleted and asked for (aggregate-metadata.projector.ts,
\* aggregate-metadata-query.service.ts).
THEOREM MetadataTypeCorrect == MetadataSpec => []MetadataTypeOK
<1>1. MetadataInv => MetadataTypeOK
  BY DEF MetadataInv, MetadataTypeOK, TableTyped, Present, Reading, ReaderType
<1> QED  BY <1>1, MetadataStart, MetadataStep, PTL DEF MetadataSpec

\* query() counts and selects in two statements, page by page: who follows
\* hasMore to the end over a table that stays as it is has every row of the
\* filter once and as it is, unless two of them were created at one time, and
\* never has a row of another tenant (aggregate-metadata-query.service.ts:41).
THEOREM PagesAreComplete == MetadataSpec => []PagesComplete
<1>1. MetadataInv => PagesComplete
  <2> SUFFICES ASSUME MetadataInv PROVE PagesComplete
    OBVIOUS
  <2>1. reader.seen \in Seq(Items) /\ DOMAIN reader.seen = 1 .. Len(reader.seen)
    BY DEF MetadataInv, Reading, ReaderType
  <2>2. \A n \in DOMAIN reader.seen : reader.seen[n].key.tenantId = reader.filter.tenantId
    BY <2>1 DEF MetadataInv, Reading
  <2>3. ASSUME reader.phase = "done", reader.calm, NoTies
        PROVE  /\ Len(reader.seen) = Cardinality(Rows)
               /\ {reader.seen[n] : n \in DOMAIN reader.seen} = UNION {GetById(k) : k \in Rows}
    <3>1. reader.calm = TRUE
      BY <2>3 DEF MetadataInv, Reading, ReaderType
    <3>2. PICK o \in Orders(Rows) : Begins(o, Cardinality(Rows))
      BY <2>3, <3>1 DEF MetadataInv, Followed
    <3>3. /\ Len(reader.seen) = Cardinality(Rows)
          /\ \A i \in 1 .. Cardinality(Rows) : reader.seen[i] = MapRow(o[i])
      BY <3>2 DEF Begins
    <3>4. IsFiniteSet(Rows) /\ Rows \subseteq Present
      BY FewRows DEF MetadataInv, Rows
    <3>5. /\ \A i \in 1 .. Cardinality(Rows) : o[i] \in Rows
          /\ \A k \in Rows : \E i \in 1 .. Cardinality(Rows) : o[i] = k
      <4>1. o \in SetToSeqs(Rows)
        BY DEF Orders
      <4> QED  BY <3>4, <4>1, OrderHasAll
    <3>6. UNION {GetById(k) : k \in Rows} = {MapRow(k) : k \in Rows}
      BY <3>4 DEF GetById
    <3>7. {reader.seen[n] : n \in DOMAIN reader.seen} = {MapRow(k) : k \in Rows}
      BY <2>1, <3>3, <3>5
    <3> QED  BY <3>3, <3>6, <3>7
  <2> QED  BY <2>2, <2>3 DEF PagesComplete, NoTies, Rows
<1> QED  BY <1>1, MetadataStart, MetadataStep, PTL DEF MetadataSpec

-----------------------------------------------------------------------------
(* The analytics of tenants. *)

Handlings ==
    [executed : 0 .. 2, failed : 0 .. MaxHandleFailures, ended : {"no", "done", "abandoned"}]

\* A handling is done when its last statement was executed, and not before.
EventsTyped ==
    /\ tenantEvents \in Seq([tenantId : AnalyticsTenants, eventType : subscribedEvents])
    /\ handled \in Seq(Handlings)
    /\ Len(handled) = Len(tenantEvents)
    /\ Len(tenantEvents) <= MaxTenantEvents
    /\ \A i \in DOMAIN handled :
        /\ handled[i].executed <= Statements(i)
        /\ handled[i].ended = "done" <=> handled[i].executed = Statements(i)
    /\ replaying \in BOOLEAN

RowsTyped ==
    /\ DOMAIN analytics \subseteq AnalyticsTenants
    /\ \A t \in DOMAIN analytics : analytics[t] \in TenantAnalyticsReadModel

\* Each tenant was created, once; and a rebuild takes the events in order.
CreatedOnce ==
    /\ \A i \in DOMAIN tenantEvents :
         Of(tenantEvents[i].tenantId, {"TenantCreated"}) # {}
    /\ \A t : \A i, j \in Of(t, {"TenantCreated"}) : i = j

TakenInOrder ==
    replaying => \A i, j \in DOMAIN handled : j < i /\ handled[i].executed > 0 => Ended(j)

Begun(t, types) == {i \in Of(t, types) : handled[i].executed > 0}
Finished(t, types) == {i \in Of(t, types) : handled[i].ended = "done"}
Counted(t) == Cardinality(Begun(t, {"MemberAdded"})) - Cardinality(Begun(t, {"MemberRemoved"}))

StatusEvents == {"TenantCreated", "TenantActivated", "TenantSuspended"}
ActiveEvents == subscribedEvents \ {"TenantSuspended", "MemberRemoved"}
StatusAfter(i) == IF tenantEvents[i].eventType = "TenantSuspended" THEN "suspended" ELSE "active"

\* A row that no update missed holds what was executed.
RowTold(t) ==
    /\ Begun(t, {"TenantCreated"}) # {}
    /\ analytics[t].memberCount \in Counted(t) .. Counted(t) + Repeated(t)
    /\ replaying =>
         /\ analytics[t].memberCount = Counted(t)
         /\ analytics[t].status = StatusAfter(Latest(Begun(t, StatusEvents)))
         /\ analytics[t].lastActiveAt = Latest(Finished(t, ActiveEvents))

RowTrue(t) ==
    t \notin missed =>
        IF t \in DOMAIN analytics THEN RowTold(t)
        ELSE \A i \in OfTenant(t) : handled[i].executed = 0

AnalyticsInv ==
    /\ EventsTyped /\ RowsTyped /\ CreatedOnce /\ TakenInOrder
    /\ \A t \in AnalyticsTenants : RowTrue(t)

-----------------------------------------------------------------------------
(* Counting the attempts that failed. *)

LEMMA Places ==
    ASSUME EventsTyped
    PROVE  /\ Len(handled) \in Nat /\ Len(handled) = Len(tenantEvents)
           /\ DOMAIN handled = 1 .. Len(handled) /\ DOMAIN tenantEvents = 1 .. Len(handled)
           /\ \A t, types : Of(t, types) \subseteq 1 .. Len(handled)
           /\ \A t : OfTenant(t) \subseteq 1 .. Len(handled)
           /\ \A i \in 1 .. Len(handled) : handled[i] \in Handlings
           /\ \A i \in 1 .. Len(handled) :
                tenantEvents[i].tenantId \in AnalyticsTenants
                /\ tenantEvents[i].eventType \in subscribedEvents
<1>1. /\ Len(handled) \in Nat /\ Len(tenantEvents) \in Nat
      /\ DOMAIN handled = 1 .. Len(handled) /\ DOMAIN tenantEvents = 1 .. Len(tenantEvents)
  BY DEF EventsTyped
<1>2. Len(handled) = Len(tenantEvents)
  BY DEF EventsTyped
<1>3. \A t, types : Of(t, types) \subseteq 1 .. Len(handled)
  BY <1>1, <1>2 DEF Of, OfTenant
<1>4. \A t : OfTenant(t) \subseteq 1 .. Len(handled)
  BY <1>1, <1>2 DEF OfTenant
<1>5. \A i \in 1 .. Len(handled) : handled[i] \in Handlings
  BY <1>1 DEF EventsTyped
<1>6. \A i \in 1 .. Len(handled) : tenantEvents[i].tenantId \in AnalyticsTenants
                                   /\ tenantEvents[i].eventType \in subscribedEvents
  <2> DEFINE E == [tenantId : AnalyticsTenants, eventType : subscribedEvents]
  <2>1. tenantEvents \in Seq(E)
    BY DEF EventsTyped
  <2>2. \A e \in E : e.tenantId \in AnalyticsTenants /\ e.eventType \in subscribedEvents
    OBVIOUS
  <2> HIDE DEF E
  <2>3. \A i \in 1 .. Len(tenantEvents) : tenantEvents[i] \in E
    BY <2>1
  <2> QED  BY <1>2, <2>2, <2>3
<1> QED  BY <1>1, <1>2, <1>3, <1>4, <1>5, <1>6

LEMMA AttemptsFinite ==
    ASSUME EventsTyped
    PROVE  /\ IsFiniteSet(FailedAttempts) /\ Cardinality(FailedAttempts) \in Nat
           /\ \A t : Repeated(t) \in Nat
           /\ \A i \in DOMAIN handled : handled[i].failed <= Cardinality(FailedAttempts)
<1> DEFINE Box == (1 .. Len(handled)) \X (1 .. MaxHandleFailures)
<1>1. FailedAttempts \subseteq Box
  <2>1. \A i \in DOMAIN handled : i \in 1 .. Len(handled) /\ handled[i].failed \in 0 .. MaxHandleFailures
    BY Places DEF Handlings
  <2> QED  BY <2>1, AnalyticsAssumption DEF FailedAttempts
<1>2. IsFiniteSet(Box)
  <2>1. IsFiniteSet(1 .. Len(handled)) /\ IsFiniteSet(1 .. MaxHandleFailures)
    BY Places, AnalyticsAssumption, FS_Interval
  <2> QED  BY <2>1, FS_Product
<1>3. IsFiniteSet(FailedAttempts)
  BY <1>1, <1>2, FS_Subset
<1>4. ASSUME NEW t PROVE Repeated(t) \in Nat
  <2>1. IsFiniteSet({a \in FailedAttempts : a[1] \in Of(t, {"MemberAdded"})})
    BY <1>3, FS_Subset
  <2> QED  BY <2>1, FS_CardinalityType DEF Repeated
<1>5. ASSUME NEW i \in DOMAIN handled PROVE handled[i].failed <= Cardinality(FailedAttempts)
  <2> DEFINE n == handled[i].failed
             own == {i} \X (1 .. n)
             f == [k \in 1 .. n |-> <<i, k>>]
  <2>1. n \in Nat
    BY Places DEF Handlings
  <2>2. own \subseteq FailedAttempts
    BY DEF FailedAttempts
  <2>3. IsFiniteSet(own) /\ Cardinality(own) <= Cardinality(FailedAttempts)
    BY <1>3, <2>2, FS_Subset
  <2>4. Cardinality(1 .. n) = n
    BY <2>1, FS_Interval
  <2>5. f \in Injection(1 .. n, own)
    BY DEF Injection, IsInjective
  <2>6. Cardinality(1 .. n) <= Cardinality(own)
    BY <2>3, <2>5, FS_Injection
  <2>7. Cardinality(own) \in Nat /\ Cardinality(FailedAttempts) \in Nat
    BY <1>3, <2>3, FS_CardinalityType
  <2> QED  BY <2>1, <2>3, <2>4, <2>6, <2>7
<1> QED  BY <1>3, <1>4, <1>5, FS_CardinalityType

\* Nothing fails: as many attempts as before.
LEMMA SameAttempts ==
    ASSUME EventsTyped,
           \/ DOMAIN handled' = DOMAIN handled
           \/ /\ DOMAIN handled' = DOMAIN handled \cup {Len(handled) + 1}
              /\ handled'[Len(handled) + 1].failed = 0,
           \A i \in DOMAIN handled : handled'[i].failed = handled[i].failed
    PROVE  FailedAttempts' = FailedAttempts
<1>1. 1 .. 0 = {}
  OBVIOUS
<1> QED  BY <1>1, Places DEF FailedAttempts

\* An attempt at one event fails.
LEMMA OneMoreAttempt ==
    ASSUME EventsTyped, tenantEvents' = tenantEvents, NEW i \in DOMAIN handled,
           DOMAIN handled' = DOMAIN handled,
           \A j \in DOMAIN handled :
                handled'[j].failed = handled[j].failed + (IF j = i THEN 1 ELSE 0)
    PROVE  \A t : Repeated(t)' = Repeated(t) + (IF i \in Of(t, {"MemberAdded"}) THEN 1 ELSE 0)
<1> DEFINE n == handled[i].failed
           new == <<i, n + 1>>
<1>1. n \in Nat /\ \A j \in DOMAIN handled : handled[j].failed \in Nat
  BY Places DEF Handlings
<1>2. \A m \in Nat : 1 .. m + 1 = (1 .. m) \cup {m + 1}
  OBVIOUS
<1>3. FailedAttempts' = UNION {{j} \X (1 .. handled'[j].failed) : j \in DOMAIN handled}
  BY DEF FailedAttempts
<1>4. FailedAttempts' = FailedAttempts \cup {new}
  <2>1. ASSUME NEW a PROVE a \in FailedAttempts' <=> a \in FailedAttempts \cup {new}
    <3>1. a \in FailedAttempts' <=>
            \E j \in DOMAIN handled : a \in {j} \X (1 .. handled'[j].failed)
      BY <1>3
    <3>2. a \in FailedAttempts <=>
            \E j \in DOMAIN handled : a \in {j} \X (1 .. handled[j].failed)
      BY DEF FailedAttempts
    <3>3. \A j \in DOMAIN handled \ {i} : handled'[j].failed = handled[j].failed
      BY <1>1
    <3>4. 1 .. handled'[i].failed = (1 .. n) \cup {n + 1}
      <4>1. handled'[i].failed = n + 1
        BY <1>1
      <4> QED  BY <1>1, <1>2, <4>1
    <3>5. {i} \X (1 .. handled'[i].failed) = ({i} \X (1 .. n)) \cup {new}
      BY <3>4
    <3> QED  BY <3>1, <3>2, <3>3, <3>5
  <2> QED  BY <2>1
<1>5. new \notin FailedAttempts
  BY <1>1 DEF FailedAttempts
<1> SUFFICES ASSUME NEW t
             PROVE  Repeated(t)' = Repeated(t) + (IF i \in Of(t, {"MemberAdded"}) THEN 1 ELSE 0)
  OBVIOUS
<1> DEFINE own == {a \in FailedAttempts : a[1] \in Of(t, {"MemberAdded"})}
<1>6. Of(t, {"MemberAdded"})' = Of(t, {"MemberAdded"})
  BY DEF Of, OfTenant
<1>7. Repeated(t) = Cardinality(own)
  BY DEF Repeated
<1>8. Repeated(t)' = Cardinality({a \in FailedAttempts \cup {new} : a[1] \in Of(t, {"MemberAdded"})})
  BY <1>4, <1>6 DEF Repeated
<1>9. IsFiniteSet(own) /\ new \notin own
  BY <1>5, AttemptsFinite, FS_Subset
<1>10. CASE i \in Of(t, {"MemberAdded"})
  <2>1. {a \in FailedAttempts \cup {new} : a[1] \in Of(t, {"MemberAdded"})} = own \cup {new}
    BY <1>10
  <2> HIDE DEF own, new
  <2>2. Cardinality(own \cup {new}) = Cardinality(own) + 1
    BY <1>9, FS_AddElement
  <2> QED  BY <1>7, <1>8, <1>10, <2>1, <2>2
<1>11. CASE i \notin Of(t, {"MemberAdded"})
  <2>1. {a \in FailedAttempts \cup {new} : a[1] \in Of(t, {"MemberAdded"})} = own
    BY <1>11
  <2>2. Repeated(t) \in Nat
    BY AttemptsFinite
  <2>3. Repeated(t)' = Repeated(t)
    BY <1>7, <1>8, <2>1, Zenon
  <2> QED  BY <1>11, <2>2, <2>3
<1> QED  BY <1>10, <1>11

-----------------------------------------------------------------------------
(* What a step does to a row. *)

LEMMA BegunFinite ==
    ASSUME EventsTyped, NEW t, NEW types
    PROVE  /\ IsFiniteSet(Begun(t, types)) /\ Cardinality(Begun(t, types)) \in Nat
           /\ Begun(t, types) \subseteq 1 .. Len(handled)
           /\ Finished(t, types) \subseteq Begun(t, types)
<1>1. Begun(t, types) \subseteq 1 .. Len(handled)
  BY Places DEF Begun
<1>2. IsFiniteSet(Begun(t, types))
  <2>1. IsFiniteSet(1 .. Len(handled))
    BY Places, FS_Interval
  <2> QED  BY <1>1, <2>1, FS_Subset
<1>3. Finished(t, types) \subseteq Begun(t, types)
  <2> SUFFICES ASSUME NEW i \in Of(t, types), handled[i].ended = "done" PROVE handled[i].executed > 0
    BY DEF Finished, Begun
  <2>1. i \in DOMAIN handled
    BY Places
  <2> QED  BY <2>1 DEF EventsTyped, Statements
<1> QED  BY <1>1, <1>2, <1>3, FS_CardinalityType

\* A tenant whose events and row are as they were.
LEMMA RowStays ==
    ASSUME EventsTyped, NEW t, RowTrue(t), tenantEvents' = tenantEvents,
           \A i \in OfTenant(t) :
                /\ handled'[i].executed = handled[i].executed
                /\ handled'[i].ended = "done" <=> handled[i].ended = "done",
           Repeated(t)' \in Nat, Repeated(t)' >= Repeated(t), t \in DOMAIN analytics' <=> t \in DOMAIN analytics,
           t \in DOMAIN analytics => analytics'[t] = analytics[t], t \in missed' <=> t \in missed, replaying' = replaying
    PROVE  RowTrue(t)'
<1>1. /\ OfTenant(t)' = OfTenant(t) /\ \A types : Of(t, types)' = Of(t, types)
  BY DEF Of, OfTenant
<1>2. \A types : Begun(t, types)' = Begun(t, types) /\ Finished(t, types)' = Finished(t, types)
  BY <1>1 DEF Begun, Finished, Of
<1>3. Counted(t)' = Counted(t) /\ Counted(t) \in Int
  BY <1>2, BegunFinite DEF Counted
<1>4. \A j : StatusAfter(j)' = StatusAfter(j)
  BY DEF StatusAfter
<1>5. Repeated(t) \in Nat /\ Repeated(t)' \in Nat
  BY AttemptsFinite
<1>6. CASE t \notin missed /\ t \in DOMAIN analytics
  <2>1. RowTold(t)
    BY <1>6 DEF RowTrue
  <2>2. RowTold(t)'
    <3>1. Begun(t, {"TenantCreated"})' # {}
      BY <1>2, <2>1 DEF RowTold
    <3>2. analytics'[t].memberCount \in Counted(t)' .. Counted(t)' + Repeated(t)'
      BY <1>3, <1>5, <1>6, <2>1 DEF RowTold
    <3>3. /\ Latest(Begun(t, StatusEvents))' = Latest(Begun(t, StatusEvents))
          /\ Latest(Finished(t, ActiveEvents))' = Latest(Finished(t, ActiveEvents))
      BY <1>2
    <3>4. StatusAfter(Latest(Begun(t, StatusEvents)))' = StatusAfter(Latest(Begun(t, StatusEvents)))
      BY <3>3 DEF StatusAfter
    <3>5. replaying' =>
            /\ analytics'[t].memberCount = Counted(t)'
            /\ analytics'[t].status = StatusAfter(Latest(Begun(t, StatusEvents)))'
            /\ analytics'[t].lastActiveAt = Latest(Finished(t, ActiveEvents))'
      BY <1>3, <1>6, <2>1, <3>3, <3>4 DEF RowTold
    <3> QED  BY <3>1, <3>2, <3>5 DEF RowTold
  <2> QED  BY <1>6, <2>2 DEF RowTrue
<1>7. CASE t \notin missed /\ t \notin DOMAIN analytics
  BY <1>1, <1>7 DEF RowTrue
<1> QED  BY <1>6, <1>7 DEF RowTrue

LEMMA LatestIs ==
    ASSUME NEW S \in SUBSET Int, NEW i \in S, \A j \in S : j <= i
    PROVE  Latest(S) = i
<1>1. \A k \in S : (\A j \in S : j <= k) => k = i
  OBVIOUS
<1> QED  BY <1>1 DEF Latest

\* A statement of an event that has not ended.
LEMMA Executed ==
    ASSUME EventsTyped, NEW i \in DOMAIN handled, Execute(i)
    PROVE  /\ tenantEvents' = tenantEvents /\ replaying' = replaying
           /\ handled[i].executed + 1 <= Statements(i) /\ handled[i].executed \in Nat
           /\ DOMAIN handled' = DOMAIN handled
           /\ handled'[i].executed = handled[i].executed + 1
           /\ handled'[i].ended = "done" <=> handled[i].executed + 1 = Statements(i)
           /\ \A j \in DOMAIN handled : handled'[j].failed = handled[j].failed
           /\ \A j \in DOMAIN handled \ {i} : handled'[j] = handled[j]
           /\ EventsTyped'
<1> DEFINE n == handled[i].executed + 1
           end == IF n = Statements(i) THEN "done" ELSE "no"
           after == [handled[i] EXCEPT !.executed = n, !.ended = end]
<1>1. /\ handled' = [handled EXCEPT ![i] = after] /\ tenantEvents' = tenantEvents /\ replaying' = replaying
      /\ ~Ended(i)
  BY DEF Execute, Handled
<1>2. handled[i] \in Handlings /\ Statements(i) \in 1 .. 2 /\ handled[i].executed <= Statements(i)
      /\ handled[i].ended # "done" /\ handled[i].executed # Statements(i)
  BY <1>1, Places DEF EventsTyped, Statements, Ended
<1>3. n \in 0 .. 2 /\ n <= Statements(i) /\ handled[i].executed \in Nat
  BY <1>2 DEF Handlings
<1>4. /\ after \in Handlings /\ after.executed = n /\ after.failed = handled[i].failed
      /\ after.ended = end
  BY <1>2, <1>3 DEF Handlings
<1> HIDE DEF after
<1>5. /\ DOMAIN handled' = DOMAIN handled /\ handled'[i] = after
      /\ \A j \in DOMAIN handled \ {i} : handled'[j] = handled[j]
  BY <1>1
<1>6. handled' \in Seq(Handlings) /\ Len(handled') = Len(handled)
  BY <1>1, <1>4 DEF EventsTyped
<1>7. \A j \in DOMAIN handled' :
        /\ handled'[j].executed <= Statements(j)'
        /\ handled'[j].ended = "done" <=> handled'[j].executed = Statements(j)'
  <2>1. \A j : Statements(j)' = Statements(j)
    BY <1>1 DEF Statements
  <2> SUFFICES ASSUME NEW j \in DOMAIN handled
               PROVE  /\ handled'[j].executed <= Statements(j)
                      /\ handled'[j].ended = "done" <=> handled'[j].executed = Statements(j)
    BY <1>5, <2>1
  <2>2. CASE j = i
    BY <1>3, <1>4, <1>5, <2>2
  <2>3. CASE j # i
    BY <1>5, <2>3 DEF EventsTyped
  <2> QED  BY <2>2, <2>3
<1>8. EventsTyped'
  BY <1>1, <1>6, <1>7 DEF EventsTyped
<1>9. \A j \in DOMAIN handled : handled'[j].failed = handled[j].failed
  BY <1>4, <1>5
<1> QED  BY <1>1, <1>3, <1>4, <1>5, <1>8, <1>9

LEMMA BegunAfter ==
    ASSUME EventsTyped, NEW i \in DOMAIN handled, Execute(i), NEW t, NEW types
    PROVE  /\ Begun(t, types)' = Begun(t, types) \cup (IF i \in Of(t, types) THEN {i} ELSE {})
           /\ Finished(t, types)' =
                Finished(t, types) \cup
                    (IF i \in Of(t, types) /\ handled[i].executed + 1 = Statements(i) THEN {i} ELSE {})
           /\ handled[i].executed = 0 => i \notin Begun(t, types)
           /\ handled[i].executed > 0 /\ i \in Of(t, types) => i \in Begun(t, types)
           /\ i \notin Finished(t, types)
<1>1. /\ tenantEvents' = tenantEvents /\ handled[i].executed \in Nat
      /\ handled'[i].executed = handled[i].executed + 1
      /\ handled'[i].ended = "done" <=> handled[i].executed + 1 = Statements(i)
      /\ \A j \in DOMAIN handled \ {i} : handled'[j] = handled[j]
  BY Executed
<1>2. handled[i].ended # "done"
  BY DEF Execute, Handled, Ended
<1>3. Of(t, types)' = Of(t, types) /\ \A j \in Of(t, types) : j \in DOMAIN handled
  BY <1>1, Places DEF Of, OfTenant
<1>4. handled'[i].executed > 0
  BY <1>1
<1>5. Begun(t, types)' = {j \in Of(t, types) : handled'[j].executed > 0}
  BY <1>3 DEF Begun
<1>6. Finished(t, types)' = {j \in Of(t, types) : handled'[j].ended = "done"}
  BY <1>3 DEF Finished
<1>7. Begun(t, types)' = Begun(t, types) \cup (IF i \in Of(t, types) THEN {i} ELSE {})
  BY <1>1, <1>3, <1>4, <1>5 DEF Begun
<1>8. Finished(t, types)' =
         Finished(t, types) \cup
             (IF i \in Of(t, types) /\ handled[i].executed + 1 = Statements(i) THEN {i} ELSE {})
  BY <1>1, <1>2, <1>3, <1>6 DEF Finished
<1> QED  BY <1>1, <1>2, <1>7, <1>8 DEF Begun, Finished

\* What a statement adds to the number of members.
Adding(i, t) ==
    IF handled[i].executed # 0 THEN 0
    ELSE IF i \in Of(t, {"MemberAdded"}) THEN 1
    ELSE IF i \in Of(t, {"MemberRemoved"}) THEN -1 ELSE 0

LEMMA CountedAfter ==
    ASSUME EventsTyped, NEW i \in DOMAIN handled, Execute(i), NEW t
    PROVE  Counted(t) \in Int /\ Counted(t)' = Counted(t) + Adding(i, t)
<1> DEFINE A == Begun(t, {"MemberAdded"})
           R == Begun(t, {"MemberRemoved"})
<1>1. IsFiniteSet(A) /\ Cardinality(A) \in Nat /\ IsFiniteSet(R) /\ Cardinality(R) \in Nat
  BY BegunFinite
<1>2. /\ A' = A \cup (IF i \in Of(t, {"MemberAdded"}) THEN {i} ELSE {})
      /\ handled[i].executed = 0 => i \notin A /\ i \notin R
      /\ handled[i].executed > 0 /\ i \in Of(t, {"MemberAdded"}) => i \in A
  BY BegunAfter
<1>3. /\ R' = R \cup (IF i \in Of(t, {"MemberRemoved"}) THEN {i} ELSE {})
      /\ handled[i].executed > 0 /\ i \in Of(t, {"MemberRemoved"}) => i \in R
  BY BegunAfter
<1>4. ~(i \in Of(t, {"MemberAdded"}) /\ i \in Of(t, {"MemberRemoved"}))
  BY DEF Of
<1>5. handled[i].executed \in Nat
  BY Executed
<1>6. Counted(t) = Cardinality(A) - Cardinality(R) /\ Counted(t)' = Cardinality(A') - Cardinality(R')
  BY DEF Counted
<1> HIDE DEF A, R
<1>7. CASE handled[i].executed = 0 /\ i \in Of(t, {"MemberAdded"})
  <2>1. A' = A \cup {i} /\ R' = R /\ i \notin A
    BY <1>2, <1>3, <1>4, <1>7
  <2>2. Cardinality(A \cup {i}) = Cardinality(A) + 1
    BY <1>1, <2>1, FS_AddElement
  <2>3. Cardinality(A') = Cardinality(A) + 1 /\ Cardinality(R') = Cardinality(R)
    BY <2>1, <2>2
  <2> QED  BY <1>1, <1>6, <1>7, <2>3 DEF Adding
<1>8. CASE handled[i].executed = 0 /\ i \in Of(t, {"MemberRemoved"})
  <2>1. A' = A /\ R' = R \cup {i} /\ i \notin R
    BY <1>2, <1>3, <1>4, <1>8
  <2>2. Cardinality(R \cup {i}) = Cardinality(R) + 1
    BY <1>1, <2>1, FS_AddElement
  <2>3. Cardinality(A') = Cardinality(A) /\ Cardinality(R') = Cardinality(R) + 1
    BY <2>1, <2>2
  <2> QED  BY <1>1, <1>4, <1>6, <1>8, <2>3 DEF Adding
<1>9. CASE handled[i].executed > 0 \/ (i \notin Of(t, {"MemberAdded"}) /\ i \notin Of(t, {"MemberRemoved"}))
  <2>1. A' = A /\ R' = R
    BY <1>2, <1>3, <1>9
  <2>2. Adding(i, t) = 0
    BY <1>5, <1>9 DEF Adding
  <2> QED  BY <1>1, <1>6, <2>1, <2>2
<1> QED  BY <1>5, <1>7, <1>8, <1>9

\* The row after a statement, had it been `row' before.
Written(i, t, row, new) ==
    /\ new \in TenantAnalyticsReadModel
    /\ new.memberCount = row.memberCount + Adding(i, t)
    /\ new.status = IF handled[i].executed = 0 /\ tenantEvents[i].eventType \in StatusEvents
                    THEN StatusAfter(i) ELSE row.status
    /\ new.lastActiveAt = IF handled[i].executed + 1 = Statements(i)
                             /\ tenantEvents[i].eventType \in ActiveEvents
                          THEN i ELSE row.lastActiveAt

LEMMA RowUpdated ==
    ASSUME NEW t, NEW rows, UpdateRow(t, rows)
    PROVE  /\ DOMAIN analytics' = DOMAIN analytics
           /\ \A u \in DOMAIN analytics : analytics'[u] = IF u = t THEN rows[u] ELSE analytics[u]
           /\ missed' = IF t \in DOMAIN analytics THEN missed ELSE missed \cup {t}
BY DEF UpdateRow

LEMMA StatementWrites ==
    ASSUME EventsTyped, RowsTyped, NEW i \in DOMAIN handled, i \in Moments, Execute(i)
    PROVE  LET t == tenantEvents[i].tenantId
               type == tenantEvents[i].eventType
           IN
           \/ /\ type = "TenantCreated" /\ handled[i].executed = 0
              /\ DOMAIN analytics' = DOMAIN analytics \cup {t} /\ missed' = missed
              /\ \A u \in DOMAIN analytics \ {t} : analytics'[u] = analytics[u]
              /\ Written(i, t, [memberCount |-> 0, status |-> "active", lastActiveAt |-> i], analytics'[t])
           \/ /\ type # "TenantCreated"
              /\ DOMAIN analytics' = DOMAIN analytics
              /\ missed' = IF t \in DOMAIN analytics THEN missed ELSE missed \cup {t}
              /\ \A u \in DOMAIN analytics \ {t} : analytics'[u] = analytics[u]
              /\ t \in DOMAIN analytics => Written(i, t, analytics[t], analytics'[t])
<1> DEFINE t == tenantEvents[i].tenantId
           type == tenantEvents[i].eventType
           n == handled[i].executed + 1
<1>1. handleEvent(i, n) /\ n <= Statements(i) /\ handled[i].executed \in Nat
  BY Executed DEF Execute
<1>2. \A types : i \in Of(t, types) <=> type \in types
  BY Places DEF Of, OfTenant
<1>3. \A u \in DOMAIN analytics : analytics[u] \in TenantAnalyticsReadModel
  BY DEF RowsTyped
<1>4. CASE type = "TenantCreated"
  <2>1. n = 1 /\ upsert(t, i)
    BY <1>1, <1>4 DEF handleEvent, handleTenantCreated
  <2> DEFINE new == [status |-> "active", memberCount |-> 0, lastActiveAt |-> i]
  <2>2. /\ DOMAIN analytics' = DOMAIN analytics \cup {t} /\ missed' = missed /\ analytics'[t] = new
        /\ \A u \in DOMAIN analytics \ {t} : analytics'[u] = analytics[u]
    BY <2>1 DEF upsert
  <2>3. new \in TenantAnalyticsReadModel
    BY DEF TenantAnalyticsReadModel
  <2>4. handled[i].executed = 0 /\ Statements(i) = 1 /\ Adding(i, t) = 0 /\ StatusAfter(i) = "active"
    BY <1>1, <1>2, <1>4, <2>1 DEF Statements, Adding, StatusAfter
  <2>5. type \in StatusEvents /\ type \in ActiveEvents
    BY <1>4 DEF StatusEvents, ActiveEvents, subscribedEvents
  <2>6. Written(i, t, [memberCount |-> 0, status |-> "active", lastActiveAt |-> i], new)
    BY <2>3, <2>4, <2>5 DEF Written
  <2> QED  BY <1>4, <2>2, <2>4, <2>6
<1>5. ASSUME type # "TenantCreated",
             NEW rows, UpdateRow(t, rows), t \in DOMAIN analytics => Written(i, t, analytics[t], rows[t])
      PROVE  /\ DOMAIN analytics' = DOMAIN analytics
             /\ missed' = IF t \in DOMAIN analytics THEN missed ELSE missed \cup {t}
             /\ \A u \in DOMAIN analytics \ {t} : analytics'[u] = analytics[u]
             /\ t \in DOMAIN analytics => Written(i, t, analytics[t], analytics'[t])
  BY <1>5, RowUpdated
<1>6. ASSUME NEW d \in Int, d = Adding(i, t), incrementMemberCount(t, d), type # "TenantCreated",
             n = Statements(i) => type \notin ActiveEvents, type \notin StatusEvents
      PROVE  \E rows : UpdateRow(t, rows) /\ (t \in DOMAIN analytics => Written(i, t, analytics[t], rows[t]))
  <2> DEFINE rows == [u \in DOMAIN analytics |-> [analytics[u] EXCEPT !.memberCount = @ + d]]
  <2>1. UpdateRow(t, rows)
    BY <1>6 DEF incrementMemberCount
  <2>2. ASSUME t \in DOMAIN analytics PROVE Written(i, t, analytics[t], rows[t])
    <3>1. analytics[t] \in TenantAnalyticsReadModel /\ rows[t] = [analytics[t] EXCEPT !.memberCount = @ + d]
      BY <1>3, <2>2
    <3>2. /\ rows[t] \in TenantAnalyticsReadModel /\ rows[t].memberCount = analytics[t].memberCount + d
          /\ rows[t].status = analytics[t].status /\ rows[t].lastActiveAt = analytics[t].lastActiveAt
      BY <3>1 DEF TenantAnalyticsReadModel
    <3> QED  BY <1>6, <3>2 DEF Written
  <2> QED  BY <2>1, <2>2
<1>7. ASSUME NEW s \in {"active", "suspended"}, s = StatusAfter(i), updateStatus(t, s), n = 1,
             type \in StatusEvents, n = Statements(i) => type \notin ActiveEvents
      PROVE  \E rows : UpdateRow(t, rows) /\ (t \in DOMAIN analytics => Written(i, t, analytics[t], rows[t]))
  <2> DEFINE rows == [u \in DOMAIN analytics |-> [analytics[u] EXCEPT !.status = s]]
  <2>1. UpdateRow(t, rows)
    BY <1>7 DEF updateStatus
  <2>2. ASSUME t \in DOMAIN analytics PROVE Written(i, t, analytics[t], rows[t])
    <3>1. analytics[t] \in TenantAnalyticsReadModel /\ rows[t] = [analytics[t] EXCEPT !.status = s]
      BY <1>3, <2>2
    <3>2. /\ rows[t] \in TenantAnalyticsReadModel /\ rows[t].memberCount = analytics[t].memberCount + 0
          /\ rows[t].status = s /\ rows[t].lastActiveAt = analytics[t].lastActiveAt
      BY <3>1 DEF TenantAnalyticsReadModel
    <3>3. Adding(i, t) = 0
      BY <1>2, <1>7 DEF Adding, StatusEvents
    <3>4. handled[i].executed = 0
      BY <1>1, <1>7
    <3> QED  BY <1>7, <3>2, <3>3, <3>4 DEF Written
  <2> QED  BY <2>1, <2>2
<1>8. ASSUME updateLastActiveAt(t, i), n = 2, n = Statements(i), type \in ActiveEvents
      PROVE  \E rows : UpdateRow(t, rows) /\ (t \in DOMAIN analytics => Written(i, t, analytics[t], rows[t]))
  <2> DEFINE rows == [u \in DOMAIN analytics |-> [analytics[u] EXCEPT !.lastActiveAt = i]]
  <2>1. UpdateRow(t, rows)
    BY <1>8 DEF updateLastActiveAt
  <2>2. ASSUME t \in DOMAIN analytics PROVE Written(i, t, analytics[t], rows[t])
    <3>1. analytics[t] \in TenantAnalyticsReadModel /\ rows[t] = [analytics[t] EXCEPT !.lastActiveAt = i]
      BY <1>3, <2>2
    <3>2. /\ rows[t] \in TenantAnalyticsReadModel /\ rows[t].memberCount = analytics[t].memberCount + 0
          /\ rows[t].lastActiveAt = i /\ rows[t].status = analytics[t].status
      BY <3>1 DEF TenantAnalyticsReadModel
    <3>3. Adding(i, t) = 0 /\ handled[i].executed # 0
      BY <1>1, <1>8 DEF Adding
    <3> QED  BY <1>8, <3>2, <3>3 DEF Written
  <2> QED  BY <2>1, <2>2
<1>9. CASE type # "TenantCreated"
  <2>1. \E rows : UpdateRow(t, rows) /\ (t \in DOMAIN analytics => Written(i, t, analytics[t], rows[t]))
    <3>1. CASE type = "TenantActivated"
      <4>1. (n = 1 /\ updateStatus(t, "active")) \/ (n = 2 /\ updateLastActiveAt(t, i))
        BY <1>1, <3>1 DEF handleEvent, handleTenantActivated
      <4>2. Statements(i) = 2 /\ StatusAfter(i) = "active" /\ type \in StatusEvents /\ type \in ActiveEvents
        BY <3>1 DEF Statements, StatusAfter, StatusEvents, ActiveEvents, subscribedEvents
      <4> QED  BY <1>7, <1>8, <4>1, <4>2
    <3>2. CASE type = "TenantSuspended"
      <4>1. n = 1 /\ updateStatus(t, "suspended")
        BY <1>1, <3>2 DEF handleEvent, handleTenantSuspended
      <4>2. StatusAfter(i) = "suspended" /\ type \in StatusEvents /\ type \notin ActiveEvents
        BY <3>2 DEF StatusAfter, StatusEvents, ActiveEvents
      <4> QED  BY <1>7, <4>1, <4>2
    <3>3. CASE type = "MemberAdded"
      <4>1. (n = 1 /\ incrementMemberCount(t, 1)) \/ (n = 2 /\ updateLastActiveAt(t, i))
        BY <1>1, <3>3 DEF handleEvent, handleMemberAdded
      <4>2. Statements(i) = 2 /\ type \notin StatusEvents /\ type \in ActiveEvents
        BY <3>3 DEF Statements, StatusEvents, ActiveEvents, subscribedEvents
      <4>3. n = 1 => Adding(i, t) = 1
        BY <1>1, <1>2, <3>3 DEF Adding
      <4> QED  BY <1>6, <1>8, <1>9, <4>1, <4>2, <4>3
    <3>4. CASE type = "MemberRemoved"
      <4>1. n = 1 /\ incrementMemberCount(t, -1)
        BY <1>1, <3>4 DEF handleEvent, handleMemberRemoved
      <4>2. type \notin StatusEvents /\ type \notin ActiveEvents
        BY <3>4 DEF StatusEvents, ActiveEvents
      <4>3. Adding(i, t) = -1
        BY <1>1, <1>2, <3>4, <4>1 DEF Adding
      <4> QED  BY <1>6, <1>9, <4>1, <4>2, <4>3
    <3>5. type \in subscribedEvents
      BY Places
    <3> QED  BY <1>9, <3>1, <3>2, <3>3, <3>4, <3>5 DEF subscribedEvents
  <2> QED  BY <1>5, <1>9, <2>1
<1> QED  BY <1>4, <1>9

\* A rebuild executes the statements of the latest event it has begun.
LEMMA LatestAfter ==
    ASSUME EventsTyped, TakenInOrder, NEW i \in DOMAIN handled, Execute(i), replaying,
           NEW types, NEW t, t = tenantEvents[i].tenantId
    PROVE  LET type == tenantEvents[i].eventType IN
           /\ IF handled[i].executed = 0 /\ type \in types
              THEN Latest(Begun(t, types)') = i ELSE Begun(t, types)' = Begun(t, types)
           /\ IF handled[i].executed + 1 = Statements(i) /\ type \in types
              THEN Latest(Finished(t, types)') = i ELSE Finished(t, types)' = Finished(t, types)
<1> DEFINE type == tenantEvents[i].eventType
           B == Begun(t, types)
           F == Finished(t, types)
<1>1. i \in Of(t, types) <=> type \in types
  BY Places DEF Of, OfTenant
<1>2. B \subseteq 1 .. Len(handled) /\ F \subseteq B /\ i \in Int
  BY BegunFinite, Places
<1>3. \A j \in B : j <= i
  <2> SUFFICES ASSUME NEW j \in B, i < j PROVE FALSE
    BY <1>2, Places
  <2>1. Ended(i)
    BY <1>2, Places DEF TakenInOrder, Begun
  <2> QED  BY <2>1 DEF Execute, Handled
<1>4. /\ B' = B \cup (IF i \in Of(t, types) THEN {i} ELSE {})
      /\ F' = F \cup (IF i \in Of(t, types) /\ handled[i].executed + 1 = Statements(i)
                      THEN {i} ELSE {})
      /\ handled[i].executed > 0 /\ i \in Of(t, types) => i \in B
  BY BegunAfter
<1>5. handled[i].executed \in Nat
  BY Executed
<1> HIDE DEF B, F
<1>6. type \in types => Latest(B') = i
  BY <1>1, <1>2, <1>3, <1>4, LatestIs
<1>7. handled[i].executed + 1 = Statements(i) /\ type \in types => Latest(F') = i
  BY <1>1, <1>2, <1>3, <1>4, LatestIs
<1>8. ~(handled[i].executed = 0 /\ type \in types) => B' = B
  BY <1>1, <1>4, <1>5
<1>9. ~(handled[i].executed + 1 = Statements(i) /\ type \in types) => F' = F
  BY <1>1, <1>4
<1> QED  BY <1>6, <1>7, <1>8, <1>9 DEF B, F

LEMMA RowWritten ==
    ASSUME AnalyticsInv, NEW i \in DOMAIN handled, i \in Moments, Execute(i),
           NEW t, t = tenantEvents[i].tenantId, t \in DOMAIN analytics',
           NEW row, Written(i, t, row, analytics'[t]),
           i \in Of(t, {"TenantCreated"}) \/ Begun(t, {"TenantCreated"}) # {},
           row.memberCount \in Counted(t) .. Counted(t) + Repeated(t),
           replaying => /\ row.memberCount = Counted(t)
                        /\ \/ handled[i].executed = 0 /\ tenantEvents[i].eventType \in StatusEvents
                           \/ row.status = StatusAfter(Latest(Begun(t, StatusEvents)))
                        /\ \/ handled[i].executed + 1 = Statements(i)
                              /\ tenantEvents[i].eventType \in ActiveEvents
                           \/ row.lastActiveAt = Latest(Finished(t, ActiveEvents))
    PROVE  RowTrue(t)'
<1> USE DEF AnalyticsInv
<1>1. /\ tenantEvents' = tenantEvents /\ replaying' = replaying /\ DOMAIN handled' = DOMAIN handled
      /\ \A j \in DOMAIN handled : handled'[j].failed = handled[j].failed
  BY Executed
<1>2. Repeated(t)' = Repeated(t) /\ Repeated(t) \in Nat
  <2>1. FailedAttempts' = FailedAttempts
    BY <1>1, SameAttempts
  <2>2. Of(t, {"MemberAdded"})' = Of(t, {"MemberAdded"})
    BY <1>1 DEF Of, OfTenant
  <2> QED  BY <2>1, <2>2, AttemptsFinite DEF Repeated
<1>3. Counted(t) \in Int /\ Counted(t)' = Counted(t) + Adding(i, t) /\ Adding(i, t) \in Int
  BY CountedAfter DEF Adding
<1>4. Begun(t, {"TenantCreated"})' # {}
  BY BegunAfter
<1>5. analytics'[t].memberCount = row.memberCount + Adding(i, t)
  BY DEF Written
<1>6. analytics'[t].memberCount \in Counted(t)' .. Counted(t)' + Repeated(t)'
  BY <1>2, <1>3, <1>5
<1>7. ASSUME replaying
      PROVE  /\ analytics'[t].memberCount = Counted(t)'
             /\ analytics'[t].status = StatusAfter(Latest(Begun(t, StatusEvents)))'
             /\ analytics'[t].lastActiveAt = Latest(Finished(t, ActiveEvents))'
  <2>1. analytics'[t].memberCount = Counted(t)'
    BY <1>3, <1>5, <1>7
  <2>2. IF handled[i].executed = 0 /\ tenantEvents[i].eventType \in StatusEvents
        THEN Latest(Begun(t, StatusEvents)') = i ELSE Begun(t, StatusEvents)' = Begun(t, StatusEvents)
    BY <1>7, LatestAfter
  <2>3. IF handled[i].executed + 1 = Statements(i) /\ tenantEvents[i].eventType \in ActiveEvents
        THEN Latest(Finished(t, ActiveEvents)') = i
        ELSE Finished(t, ActiveEvents)' = Finished(t, ActiveEvents)
    BY <1>7, LatestAfter
  <2>4. analytics'[t].status = StatusAfter(Latest(Begun(t, StatusEvents)'))
    BY <1>7, <2>2 DEF Written
  <2>5. analytics'[t].lastActiveAt = Latest(Finished(t, ActiveEvents)')
    BY <1>7, <2>3 DEF Written
  <2>6. StatusAfter(Latest(Begun(t, StatusEvents)))' = StatusAfter(Latest(Begun(t, StatusEvents)'))
    BY <1>1 DEF StatusAfter
  <2> QED  BY <2>1, <2>4, <2>5, <2>6
<1>8. RowTold(t)'
  BY <1>1, <1>4, <1>6, <1>7 DEF RowTold
<1> QED  BY <1>8 DEF RowTrue

LEMMA ExecuteTells ==
    ASSUME AnalyticsInv, NEW i \in DOMAIN handled, i \in Moments, Execute(i), NEW u \in AnalyticsTenants
    PROVE  RowTrue(u)'
<1> USE DEF AnalyticsInv
<1> DEFINE t == tenantEvents[i].tenantId
<1>1. /\ tenantEvents' = tenantEvents /\ replaying' = replaying /\ DOMAIN handled' = DOMAIN handled
      /\ \A j \in DOMAIN handled : handled'[j].failed = handled[j].failed
      /\ \A j \in DOMAIN handled \ {i} : handled'[j] = handled[j]
      /\ EventsTyped' /\ handled[i].executed \in Nat
  BY Executed
<1>2. \/ /\ tenantEvents[i].eventType = "TenantCreated" /\ handled[i].executed = 0
         /\ DOMAIN analytics' = DOMAIN analytics \cup {t} /\ missed' = missed
         /\ \A v \in DOMAIN analytics \ {t} : analytics'[v] = analytics[v]
         /\ Written(i, t, [memberCount |-> 0, status |-> "active", lastActiveAt |-> i], analytics'[t])
      \/ /\ DOMAIN analytics' = DOMAIN analytics
         /\ missed' = IF t \in DOMAIN analytics THEN missed ELSE missed \cup {t}
         /\ \A v \in DOMAIN analytics \ {t} : analytics'[v] = analytics[v]
         /\ t \in DOMAIN analytics => Written(i, t, analytics[t], analytics'[t])
  BY StatementWrites
<1>3. CASE u = t
  <2>1. CASE t \in missed'
    BY <1>3, <2>1 DEF RowTrue
  <2>2. ASSUME t \notin missed', t \in DOMAIN analytics, Written(i, t, analytics[t], analytics'[t]),
               t \in DOMAIN analytics', t \notin missed
        PROVE  RowTrue(u)'
    <3>1. RowTold(t)
      BY <2>2, Places DEF RowTrue
    <3> QED  BY <1>3, <2>2, <3>1, RowWritten DEF RowTold
  <2>3. ASSUME t \notin missed, tenantEvents[i].eventType = "TenantCreated", handled[i].executed = 0,
               DOMAIN analytics' = DOMAIN analytics \cup {t},
               Written(i, t, [memberCount |-> 0, status |-> "active", lastActiveAt |-> i], analytics'[t])
        PROVE  RowTrue(u)'
    <3>1. i \in Of(t, {"TenantCreated"})
      BY <2>3, Places DEF Of, OfTenant
    <3>2. t \notin DOMAIN analytics
      <4> SUFFICES ASSUME t \in DOMAIN analytics PROVE FALSE
        OBVIOUS
      <4>1. RowTold(t)
        BY <2>3, Places DEF RowTrue
      <4>2. PICK j \in Of(t, {"TenantCreated"}) : handled[j].executed > 0
        BY <4>1 DEF RowTold, Begun
      <4>3. j = i
        BY <3>1 DEF CreatedOnce
      <4> QED  BY <2>3, <4>2, <4>3
    <3>3. \A j \in OfTenant(t) : handled[j].executed = 0
      BY <2>3, <3>2, Places DEF RowTrue
    <3>4. \A types : Begun(t, types) = {}
      BY <3>3 DEF Begun, Of
    <3>5. Counted(t) = 0
      BY <3>4, FS_EmptySet DEF Counted
    <3>6. Repeated(t) \in Nat
      BY AttemptsFinite
    <3>7. Statements(i) = 1 /\ "TenantCreated" \in StatusEvents /\ "TenantCreated" \in ActiveEvents
      BY <2>3 DEF Statements, StatusEvents, ActiveEvents, subscribedEvents
    <3> DEFINE row == [memberCount |-> 0, status |-> "active", lastActiveAt |-> i]
    <3>8. row.memberCount \in Counted(t) .. Counted(t) + Repeated(t) /\ row.memberCount = Counted(t)
      BY <3>5, <3>6
    <3>9. Written(i, t, row, analytics'[t]) /\ t \in DOMAIN analytics'
      BY <2>3
    <3> HIDE DEF row
    <3> QED  BY <1>3, <2>3, <3>1, <3>7, <3>8, <3>9, RowWritten
  <2> QED  BY <1>2, <2>1, <2>2, <2>3
<1>4. CASE u # t
  <2>1. \A j \in OfTenant(u) : j # i /\ j \in DOMAIN handled
    BY <1>4, Places DEF OfTenant
  <2>2. Repeated(u)' = Repeated(u) /\ Repeated(u) \in Nat
    <3>1. FailedAttempts' = FailedAttempts
      BY <1>1, SameAttempts
    <3>2. Of(u, {"MemberAdded"})' = Of(u, {"MemberAdded"})
      BY <1>1 DEF Of, OfTenant
    <3> QED  BY <3>1, <3>2, AttemptsFinite DEF Repeated
  <2>3. /\ u \in DOMAIN analytics' <=> u \in DOMAIN analytics
        /\ u \in missed' <=> u \in missed
        /\ u \in DOMAIN analytics => analytics'[u] = analytics[u]
    BY <1>2, <1>4
  <2> QED  BY <1>1, <2>1, <2>2, <2>3, RowStays
<1> QED  BY <1>3, <1>4

-----------------------------------------------------------------------------
(* Failures, new events, and the beginning of a rebuild. *)

LEMMA FailureTyped ==
    ASSUME EventsTyped, NEW i \in DOMAIN handled, HandlingFails(i)
    PROVE  /\ EventsTyped' /\ tenantEvents' = tenantEvents /\ DOMAIN handled' = DOMAIN handled
           /\ ~Ended(i)
           /\ \A j \in DOMAIN handled :
                /\ handled'[j].failed = handled[j].failed + (IF j = i THEN 1 ELSE 0)
                /\ handled'[j].ended = "done" <=> handled[j].ended = "done"
                /\ handled'[j].executed # handled[j].executed =>
                     ~replaying /\ j = i /\ handled'[j].executed = 0
                /\ replaying => handled'[j].ended # "no"
<1>1. /\ ~Ended(i) /\ tenantEvents' = tenantEvents /\ replaying' = replaying
      /\ Cardinality(FailedAttempts) < MaxHandleFailures
  BY DEF HandlingFails, Handled
<1>2. \A j \in DOMAIN handled : handled[j] \in Handlings /\ Statements(j) \in 1 .. 2
  BY Places DEF Statements
<1>3. handled[i].failed + 1 \in 0 .. MaxHandleFailures
  <2>1. /\ handled[i].failed <= Cardinality(FailedAttempts) /\ Cardinality(FailedAttempts) \in Nat
    BY AttemptsFinite
  <2> QED  BY <1>1, <1>2, <2>1, AnalyticsAssumption DEF Handlings
<1>4. \A j : Statements(j)' = Statements(j)
  BY <1>1 DEF Statements
<1>5. CASE replaying
  <2> DEFINE H(j) == IF Ended(j) THEN handled[j]
                     ELSE [handled[j] EXCEPT !.failed = @ + (IF j = i THEN 1 ELSE 0), !.ended = "abandoned"]
  <2>1. handled' = [j \in DOMAIN handled |-> H(j)]
    BY <1>5 DEF HandlingFails
  <2>2. ASSUME NEW j \in DOMAIN handled
        PROVE  /\ H(j) \in Handlings /\ H(j).failed = handled[j].failed + (IF j = i THEN 1 ELSE 0)
               /\ H(j).ended = "done" <=> handled[j].ended = "done"
               /\ H(j).executed = handled[j].executed /\ H(j).ended # "no"
    <3>1. CASE Ended(j)
      BY <1>1, <1>2, <3>1 DEF Handlings, Ended
    <3>2. CASE ~Ended(j)
      <4>1. handled[j].failed + (IF j = i THEN 1 ELSE 0) \in 0 .. MaxHandleFailures
        BY <1>2, <1>3 DEF Handlings
      <4> QED  BY <1>2, <3>2, <4>1 DEF Handlings, Ended
    <3> QED  BY <3>1, <3>2
  <2> HIDE DEF H
  <2>3. DOMAIN handled' = DOMAIN handled /\ \A j \in DOMAIN handled : handled'[j] = H(j)
    BY <2>1
  <2>4. handled' \in Seq(Handlings) /\ Len(handled') = Len(handled)
    BY <2>1, <2>2, Places
  <2>5. EventsTyped'
    BY <1>1, <1>4, <2>2, <2>3, <2>4 DEF EventsTyped
  <2> QED  BY <1>1, <2>2, <2>3, <2>5
<1>6. CASE ~replaying
  <2>1. PICK end \in {"no", "abandoned"} :
          handled' = [handled EXCEPT ![i] = [executed |-> 0, failed |-> @.failed + 1, ended |-> end]]
    BY <1>6 DEF HandlingFails
  <2> DEFINE after == [executed |-> 0, failed |-> handled[i].failed + 1, ended |-> end]
  <2>2. after \in Handlings /\ after.executed = 0 /\ after.failed = handled[i].failed + 1
        /\ after.ended # "done"
    BY <1>3 DEF Handlings
  <2>3. /\ DOMAIN handled' = DOMAIN handled /\ handled'[i] = after
        /\ \A j \in DOMAIN handled \ {i} : handled'[j] = handled[j]
        /\ handled' = [handled EXCEPT ![i] = after]
    BY <2>1
  <2> HIDE DEF after
  <2>4. handled' \in Seq(Handlings) /\ Len(handled') = Len(handled)
    BY <2>2, <2>3 DEF EventsTyped
  <2>5. ASSUME NEW j \in DOMAIN handled
        PROVE  /\ handled'[j].executed <= Statements(j)
               /\ handled'[j].ended = "done" <=> handled'[j].executed = Statements(j)
    <3>1. CASE j = i
      BY <1>2, <2>2, <2>3, <3>1
    <3>2. CASE j # i
      BY <2>3, <3>2 DEF EventsTyped
    <3> QED  BY <3>1, <3>2
  <2>6. EventsTyped'
    BY <1>1, <1>4, <2>3, <2>4, <2>5 DEF EventsTyped
  <2>7. handled[i].ended # "done"
    BY <1>1 DEF Ended
  <2>8. \A j \in DOMAIN handled : handled[j].failed \in Nat
    BY <1>2 DEF Handlings
  <2> QED  BY <1>1, <1>6, <2>2, <2>3, <2>6, <2>7, <2>8
<1> QED  BY <1>5, <1>6

\* An attempt that fails may leave a member counted, which will be counted again.
LEMMA FailureTells ==
    ASSUME AnalyticsInv, NEW i \in DOMAIN handled, HandlingFails(i), NEW u \in AnalyticsTenants
    PROVE  RowTrue(u)'
<1> USE DEF AnalyticsInv
<1>1. /\ tenantEvents' = tenantEvents /\ DOMAIN handled' = DOMAIN handled /\ ~Ended(i)
      /\ \A j \in DOMAIN handled :
           /\ handled'[j].failed = handled[j].failed + (IF j = i THEN 1 ELSE 0)
           /\ handled'[j].ended = "done" <=> handled[j].ended = "done"
           /\ handled'[j].executed # handled[j].executed =>
                ~replaying /\ j = i /\ handled'[j].executed = 0
  BY FailureTyped
<1>2. analytics' = analytics /\ missed' = missed /\ replaying' = replaying
  BY DEF HandlingFails
<1>3. Repeated(u)' = Repeated(u) + (IF i \in Of(u, {"MemberAdded"}) THEN 1 ELSE 0)
      /\ Repeated(u) \in Nat
  BY <1>1, OneMoreAttempt, AttemptsFinite
<1>4. CASE \A j \in OfTenant(u) : handled'[j].executed = handled[j].executed
  BY <1>1, <1>2, <1>3, <1>4, Places, RowStays
<1>5. CASE ~replaying /\ i \in OfTenant(u) /\ handled'[i].executed = 0
  <2>1. \A types : Of(u, types)' = Of(u, types) /\ Of(u, types) \subseteq DOMAIN handled
    BY <1>1, Places DEF Of, OfTenant
  <2>2. \A j \in DOMAIN handled \ {i} : handled'[j].executed = handled[j].executed
    BY <1>1
  <2>3. \A types : Begun(u, types)' = Begun(u, types) \ {i}
    BY <1>5, <2>1, <2>2 DEF Begun
  <2>4. handled[i].executed \in Nat /\ handled[i].executed <= Statements(i)
        /\ handled[i].executed # Statements(i)
    BY <1>1, Places DEF EventsTyped, Ended, Handlings
  <2>5. i \notin Begun(u, {"TenantCreated"}) /\ i \notin Begun(u, {"MemberRemoved"})
    BY <2>4 DEF Begun, Of, Statements
  <2>6. CASE u \notin missed /\ u \notin DOMAIN analytics
    <3>1. \A j \in OfTenant(u) : handled'[j].executed = 0
      BY <1>5, <2>2, <2>6, Places DEF RowTrue
    <3> QED  BY <1>1, <1>2, <2>6, <3>1 DEF RowTrue, OfTenant
  <2>7. CASE u \notin missed /\ u \in DOMAIN analytics
    <3> DEFINE A == Begun(u, {"MemberAdded"})
    <3>1. RowTold(u)
      BY <2>7 DEF RowTrue
    <3>2. Begun(u, {"TenantCreated"})' # {}
      BY <2>3, <2>5, <3>1 DEF RowTold
    <3>3. Cardinality(Begun(u, {"MemberRemoved"}))' = Cardinality(Begun(u, {"MemberRemoved"}))
      <4>1. Begun(u, {"MemberRemoved"})' = Begun(u, {"MemberRemoved"})
        BY <2>3, <2>5
      <4> QED  BY <4>1
    <3>4. IsFiniteSet(A) /\ Cardinality(A) \in Nat
      BY BegunFinite
    <3>5. Cardinality(A \ {i}) = IF i \in A THEN Cardinality(A) - 1 ELSE Cardinality(A)
      BY <3>4, FS_RemoveElement
    <3>6. Cardinality(A)' = IF i \in A THEN Cardinality(A) - 1 ELSE Cardinality(A)
      BY <2>3, <3>5
    <3>7. Cardinality(Begun(u, {"MemberRemoved"})) \in Nat
      BY BegunFinite
    <3>8. Counted(u)' = (IF i \in A THEN Counted(u) - 1 ELSE Counted(u)) /\ Counted(u) \in Int
      <4> HIDE DEF A
      <4> QED  BY <3>3, <3>4, <3>6, <3>7 DEF Counted, A
    <3>9. i \in A => i \in Of(u, {"MemberAdded"})
      BY DEF Begun
    <3>10. analytics'[u].memberCount \in Counted(u)' .. Counted(u)' + Repeated(u)'
      <4> HIDE DEF A
      <4>1. analytics[u].memberCount \in Counted(u) .. Counted(u) + Repeated(u)
        BY <3>1 DEF RowTold
      <4> QED  BY <1>2, <1>3, <3>8, <3>9, <4>1
    <3>11. RowTold(u)'
      BY <1>2, <1>5, <3>2, <3>10 DEF RowTold
    <3> QED  BY <1>2, <2>7, <3>11 DEF RowTrue
  <2> QED  BY <1>2, <2>6, <2>7 DEF RowTrue
<1>6. \A j \in OfTenant(u) : j \in DOMAIN handled
  BY Places
<1> QED  BY <1>1, <1>4, <1>5, <1>6

LEMMA StoreKeeps ==
    ASSUME AnalyticsInv, NEW t \in AnalyticsTenants, NEW type \in subscribedEvents,
           StoreTenantEvent(t, type)
    PROVE  EventsTyped' /\ CreatedOnce' /\ \A u \in AnalyticsTenants : RowTrue(u)'
<1> USE DEF AnalyticsInv
<1> DEFINE E == [tenantId : AnalyticsTenants, eventType : subscribedEvents]
           e == [tenantId |-> t, eventType |-> type]
<1>1. /\ tenantEvents' = Append(tenantEvents, e) /\ handled' = Append(handled, Open)
      /\ replaying' = FALSE /\ analytics' = analytics /\ missed' = missed
      /\ Len(tenantEvents) < MaxTenantEvents
      /\ type = "TenantCreated" <=> OfTenant(t) = {}
  BY DEF StoreTenantEvent
<1>2. PICK n \in Nat : n = Len(handled)
  BY Places
<1>3. /\ tenantEvents \in Seq(E) /\ handled \in Seq(Handlings) /\ e \in E /\ Open \in Handlings
      /\ Len(tenantEvents) = n /\ DOMAIN tenantEvents = 1 .. n /\ DOMAIN handled = 1 .. n
  BY <1>2, Places, AnalyticsAssumption DEF EventsTyped, Open, Handlings
<1> HIDE DEF E
<1>4. /\ tenantEvents' \in Seq(E) /\ Len(tenantEvents') = n + 1 /\ DOMAIN tenantEvents' = 1 .. n + 1
      /\ tenantEvents'[n + 1] = e /\ \A i \in 1 .. n : tenantEvents'[i] = tenantEvents[i]
  <2> HIDE DEF e
  <2> QED  BY <1>1, <1>3
<1>5. /\ handled' \in Seq(Handlings) /\ Len(handled') = n + 1 /\ DOMAIN handled' = 1 .. n + 1
      /\ handled'[n + 1] = Open /\ \A i \in 1 .. n : handled'[i] = handled[i]
  BY <1>1, <1>2, <1>3
<1>6. 1 .. n + 1 = (1 .. n) \cup {n + 1} /\ n + 1 \notin 1 .. n
  OBVIOUS
<1>7. EventsTyped'
  <2>1. \A i \in 1 .. n + 1 : /\ handled'[i].executed <= Statements(i)'
                              /\ handled'[i].ended = "done" <=> handled'[i].executed = Statements(i)'
    <3>1. \A i \in 1 .. n : Statements(i)' = Statements(i)
      BY <1>4 DEF Statements
    <3>2. /\ handled'[n + 1].executed <= Statements(n + 1)'
          /\ handled'[n + 1].ended = "done" <=> handled'[n + 1].executed = Statements(n + 1)'
      BY <1>5 DEF Statements, Open
    <3>3. \A i \in 1 .. n : /\ handled'[i].executed <= Statements(i)'
                            /\ handled'[i].ended = "done" <=> handled'[i].executed = Statements(i)'
      BY <1>3, <1>5, <3>1 DEF EventsTyped
    <3> QED  BY <1>6, <3>2, <3>3
  <2>2. Len(tenantEvents') <= MaxTenantEvents
    BY <1>1, <1>3, <1>4, AnalyticsAssumption
  <2>3. tenantEvents' \in Seq([tenantId : AnalyticsTenants, eventType : subscribedEvents])
    BY <1>4 DEF E
  <2> QED  BY <1>1, <1>4, <1>5, <2>1, <2>2, <2>3 DEF EventsTyped
<1>8. \A u, types : Of(u, types)' =
          Of(u, types) \cup (IF u = t /\ type \in types THEN {n + 1} ELSE {})
  <2>1. \A u : OfTenant(u)' = OfTenant(u) \cup (IF u = t THEN {n + 1} ELSE {})
    BY <1>3, <1>4, <1>6 DEF OfTenant
  <2>2. \A u : OfTenant(u) \subseteq 1 .. n
    BY <1>3 DEF OfTenant
  <2> QED  BY <1>4, <1>6, <2>1, <2>2 DEF Of
<1>9. CreatedOnce'
  <2>1. Of(t, {"TenantCreated"})' # {}
    <3>1. CASE type = "TenantCreated"
      BY <1>8, <3>1
    <3>2. CASE type # "TenantCreated"
      <4>1. PICK i \in OfTenant(t) : TRUE
        BY <1>1, <3>2
      <4>2. Of(t, {"TenantCreated"}) # {}
        BY <4>1 DEF CreatedOnce, OfTenant
      <4> QED  BY <1>8, <4>2
    <3> QED  BY <3>1, <3>2
  <2>2. ASSUME NEW i \in DOMAIN tenantEvents', NEW v, v = tenantEvents'[i].tenantId
        PROVE  Of(v, {"TenantCreated"})' # {}
    <3>1. CASE i \in 1 .. n
      <4>1. Of(v, {"TenantCreated"}) # {}
        BY <1>3, <1>4, <2>2, <3>1 DEF CreatedOnce
      <4> QED  BY <1>8, <4>1
    <3>2. CASE i = n + 1
      BY <1>4, <2>1, <2>2, <3>2
    <3> QED  BY <1>4, <1>6, <3>1, <3>2
  <2>3. \A u : \A i, j \in Of(u, {"TenantCreated"})' : i = j
    <3>1. \A u : Of(u, {"TenantCreated"}) \subseteq OfTenant(u)
      BY DEF Of
    <3> QED  BY <1>1, <1>8, <3>1 DEF CreatedOnce
  <2> QED  BY <2>2, <2>3 DEF CreatedOnce
<1>10. ASSUME NEW u \in AnalyticsTenants PROVE RowTrue(u)'
  <2>1. \A types : Begun(u, types)' = Begun(u, types)
    <3>1. \A types : Of(u, types) \subseteq 1 .. n
      BY <1>3 DEF Of, OfTenant
    <3>2. ~(handled'[n + 1].executed > 0)
      BY <1>5 DEF Open
    <3> QED  BY <1>5, <1>8, <3>1, <3>2 DEF Begun
  <2>2. Counted(u)' = Counted(u)
    BY <2>1 DEF Counted
  <2>3. FailedAttempts' = FailedAttempts
    BY <1>2, <1>3, <1>5, <1>6, SameAttempts DEF Open
  <2>4. Repeated(u)' = Repeated(u)
    <3>1. \A a \in FailedAttempts : a[1] \in 1 .. n
      BY <1>3 DEF FailedAttempts
    <3>2. {a \in FailedAttempts : a[1] \in Of(u, {"MemberAdded"})'}
            = {a \in FailedAttempts : a[1] \in Of(u, {"MemberAdded"})}
      BY <1>6, <1>8, <3>1
    <3> QED  BY <2>3, <3>2 DEF Repeated
  <2>5. CASE u \notin missed /\ u \in DOMAIN analytics
    <3>1. RowTold(u)
      BY <2>5 DEF RowTrue
    <3>2. RowTold(u)'
      BY <1>1, <2>1, <2>2, <2>4, <3>1 DEF RowTold
    <3> QED  BY <1>1, <2>5, <3>2 DEF RowTrue
  <2>6. CASE u \notin missed /\ u \notin DOMAIN analytics
    <3>1. OfTenant(u)' \subseteq OfTenant(u) \cup {n + 1} /\ OfTenant(u) \subseteq 1 .. n
      BY <1>3, <1>4, <1>6 DEF OfTenant
    <3>2. \A i \in OfTenant(u)' : handled'[i].executed = 0
      BY <1>5, <2>6, <3>1 DEF RowTrue, Open
    <3> QED  BY <1>1, <2>6, <3>2 DEF RowTrue
  <2> QED  BY <1>1, <2>5, <2>6 DEF RowTrue
<1> QED  BY <1>7, <1>9, <1>10

LEMMA ClearKeeps ==
    ASSUME AnalyticsInv, clearReadModels
    PROVE  AnalyticsInv'
<1> USE DEF AnalyticsInv
<1> DEFINE H(i) == [Open EXCEPT !.failed = handled[i].failed]
<1>1. /\ analytics' = <<>> /\ missed' = {} /\ tenantEvents' = tenantEvents /\ replaying' = TRUE
      /\ handled' = [i \in DOMAIN handled |-> H(i)]
  BY DEF clearReadModels, clear
<1>2. \A i \in DOMAIN handled : H(i) \in Handlings /\ H(i).executed = 0 /\ H(i).ended = "no"
  BY Places DEF Open, Handlings
<1> HIDE DEF H
<1>3. /\ handled' \in Seq(Handlings) /\ Len(handled') = Len(handled) /\ DOMAIN handled' = DOMAIN handled
      /\ \A i \in DOMAIN handled : handled'[i].executed = 0 /\ handled'[i].ended = "no"
  BY <1>1, <1>2, Places
<1>4. EventsTyped'
  BY <1>1, <1>3 DEF EventsTyped, Statements
<1>5. CreatedOnce'
  BY <1>1 DEF CreatedOnce, Of, OfTenant
<1>6. TakenInOrder'
  BY <1>3 DEF TakenInOrder
<1>7. DOMAIN analytics' = {}
  BY <1>1
<1>8. RowsTyped'
  BY <1>7 DEF RowsTyped
<1>9. \A t \in AnalyticsTenants : RowTrue(t)'
  BY <1>1, <1>3, <1>7, Places DEF RowTrue, OfTenant
<1> QED  BY <1>4, <1>5, <1>6, <1>8, <1>9

LEMMA ExecuteKeeps ==
    ASSUME AnalyticsInv, NEW i \in DOMAIN handled, i \in Moments, Execute(i)
    PROVE  AnalyticsInv'
<1> USE DEF AnalyticsInv
<1>1. /\ tenantEvents' = tenantEvents /\ replaying' = replaying /\ DOMAIN handled' = DOMAIN handled
      /\ \A j \in DOMAIN handled \ {i} : handled'[j] = handled[j]
      /\ EventsTyped'
  BY Executed
<1>2. CreatedOnce'
  BY <1>1 DEF CreatedOnce, Of, OfTenant
<1>3. TakenInOrder'
  <2>1. ~Ended(i) /\ (replaying => \A j \in 1 .. i - 1 : Ended(j))
    BY DEF Execute, Handled
  <2> SUFFICES ASSUME replaying, NEW k \in DOMAIN handled, NEW j \in DOMAIN handled,
                      j < k, handled'[k].executed > 0
               PROVE  Ended(j)'
    BY <1>1 DEF TakenInOrder
  <2>2. Ended(j) /\ j # i
    <3>1. CASE k = i
      <4>1. j \in 1 .. i - 1
        BY <3>1, Places
      <4> QED  BY <2>1, <4>1
    <3>2. CASE k # i
      <4>1. Ended(j)
        BY <1>1, <3>2 DEF TakenInOrder
      <4> QED  BY <2>1, <4>1
    <3> QED  BY <3>1, <3>2
  <2> QED  BY <1>1, <2>2 DEF Ended
<1>4. RowsTyped'
  <2> DEFINE t == tenantEvents[i].tenantId
  <2>1. t \in AnalyticsTenants
    BY Places
  <2>2. /\ DOMAIN analytics' \subseteq DOMAIN analytics \cup {t}
        /\ \A v \in DOMAIN analytics \ {t} : analytics'[v] = analytics[v]
        /\ t \in DOMAIN analytics' => analytics'[t] \in TenantAnalyticsReadModel
    BY StatementWrites DEF Written
  <2> QED  BY <2>1, <2>2 DEF RowsTyped
<1>5. \A t \in AnalyticsTenants : RowTrue(t)'
  BY ExecuteTells
<1> QED  BY <1>1, <1>2, <1>3, <1>4, <1>5

LEMMA FailureKeeps ==
    ASSUME AnalyticsInv, NEW i \in DOMAIN handled, HandlingFails(i)
    PROVE  AnalyticsInv'
<1> USE DEF AnalyticsInv
<1>1. /\ EventsTyped' /\ tenantEvents' = tenantEvents /\ DOMAIN handled' = DOMAIN handled
      /\ replaying => \A j \in DOMAIN handled : handled'[j].ended # "no"
  BY FailureTyped
<1>2. analytics' = analytics /\ missed' = missed /\ replaying' = replaying
  BY DEF HandlingFails
<1>3. CreatedOnce'
  BY <1>1 DEF CreatedOnce, Of, OfTenant
<1>4. TakenInOrder'
  BY <1>1, <1>2 DEF TakenInOrder, Ended
<1>5. RowsTyped'
  BY <1>2 DEF RowsTyped
<1>6. \A t \in AnalyticsTenants : RowTrue(t)'
  BY FailureTells
<1> QED  BY <1>1, <1>3, <1>4, <1>5, <1>6

LEMMA AnalyticsStart == AnalyticsInit => AnalyticsInv
<1> SUFFICES ASSUME AnalyticsInit PROVE AnalyticsInv
  OBVIOUS
<1>1. /\ tenantEvents = <<>> /\ handled = <<>> /\ analytics = <<>> /\ missed = {} /\ replaying = FALSE
      /\ DOMAIN tenantEvents = {} /\ DOMAIN handled = {} /\ DOMAIN analytics = {}
  BY DEF AnalyticsInit
<1>2. EventsTyped /\ RowsTyped
  <2>1. \A S : <<>> \in Seq(S) /\ Len(<<>>) = 0
    OBVIOUS
  <2>2. tenantEvents \in Seq([tenantId : AnalyticsTenants, eventType : subscribedEvents])
        /\ handled \in Seq(Handlings) /\ Len(tenantEvents) = 0 /\ Len(handled) = 0
    BY <1>1, <2>1
  <2>3. replaying \in BOOLEAN
    BY <1>1
  <2>4. RowsTyped
    BY <1>1 DEF RowsTyped
  <2>5. 0 <= MaxTenantEvents
    BY AnalyticsAssumption
  <2>6. \A i \in DOMAIN handled : FALSE
    BY <1>1
  <2> QED  BY <2>2, <2>3, <2>4, <2>5, <2>6 DEF EventsTyped
<1>3. CreatedOnce /\ TakenInOrder
  BY <1>1 DEF CreatedOnce, TakenInOrder, Of, OfTenant
<1>4. \A t : RowTrue(t)
  BY <1>1 DEF RowTrue, OfTenant
<1> QED  BY <1>2, <1>3, <1>4 DEF AnalyticsInv

LEMMA AnalyticsStep == AnalyticsInv /\ [AnalyticsNext]_analyticsVars => AnalyticsInv'
<1> SUFFICES ASSUME AnalyticsInv, [AnalyticsNext]_analyticsVars PROVE AnalyticsInv'
  OBVIOUS
<1>1. ASSUME NEW t \in AnalyticsTenants, NEW type \in subscribedEvents, StoreTenantEvent(t, type)
      PROVE  AnalyticsInv'
  <2>1. EventsTyped' /\ CreatedOnce' /\ \A u \in AnalyticsTenants : RowTrue(u)'
    BY <1>1, StoreKeeps
  <2>2. TakenInOrder' /\ RowsTyped'
    BY <1>1 DEF StoreTenantEvent, TakenInOrder, RowsTyped, AnalyticsInv
  <2> QED  BY <2>1, <2>2 DEF AnalyticsInv
<1>2. ASSUME NEW i \in Moments \cap DOMAIN handled, Execute(i) \/ HandlingFails(i)
      PROVE  AnalyticsInv'
  BY <1>2, ExecuteKeeps, FailureKeeps
<1>3. CASE clearReadModels
  BY <1>3, ClearKeeps
<1>4. CASE UNCHANGED analyticsVars
  <2>1. /\ tenantEvents' = tenantEvents /\ handled' = handled /\ analytics' = analytics
        /\ missed' = missed /\ replaying' = replaying
    BY <1>4 DEF analyticsVars
  <2>2. EventsTyped' /\ RowsTyped' /\ CreatedOnce' /\ TakenInOrder'
    BY <2>1 DEF AnalyticsInv, EventsTyped, RowsTyped, CreatedOnce, TakenInOrder, Of, OfTenant,
                Ended, Statements
  <2>3. ASSUME NEW t \in AnalyticsTenants PROVE RowTrue(t)'
    <3>1. Repeated(t)' = Repeated(t) /\ Repeated(t) \in Nat
      <4>1. FailedAttempts' = FailedAttempts /\ Of(t, {"MemberAdded"})' = Of(t, {"MemberAdded"})
        BY <2>1 DEF FailedAttempts, Of, OfTenant
      <4> QED  BY <4>1, AttemptsFinite DEF Repeated, AnalyticsInv
    <3> QED  BY <2>1, <3>1, RowStays DEF AnalyticsInv
  <2> QED  BY <2>2, <2>3 DEF AnalyticsInv
<1> QED  BY <1>1, <1>2, <1>3, <1>4 DEF AnalyticsNext

\* The rows, and what is noted of the handling of each event, keep their types
\* (tenant-analytics.read-model.ts).
THEOREM AnalyticsTypeCorrect == AnalyticsSpec => []AnalyticsTypeOK
<1>1. AnalyticsInv => AnalyticsTypeOK
  BY DEF AnalyticsInv, AnalyticsTypeOK, EventsTyped, RowsTyped, Handlings
<1> QED  BY <1>1, AnalyticsStart, AnalyticsStep, PTL DEF AnalyticsSpec

\* Whatever the order in which the statements of a tenant's events are
\* committed, however often they are tried again and rebuilt: once all are
\* handled, and no update missed the row, it has the number of members, give or
\* take the attempts that failed; and after a rebuild exactly what the events
\* tell (tenant-analytics.projection.ts:37, projection.base.ts:183).
THEOREM AnalyticsAlwaysTrue == AnalyticsSpec => []AnalyticsTrue
<1>1. AnalyticsInv => AnalyticsTrue
  <2> SUFFICES ASSUME AnalyticsInv, NEW t \in AnalyticsTenants, OfTenant(t) # {}, t \notin missed,
                      \A i \in OfTenant(t) : handled[i].ended = "done"
               PROVE  LET row == analytics[t]
                          status == Latest(Of(t, StatusEvents))
                      IN
                      /\ row.memberCount \in Net(t) .. Net(t) + Repeated(t)
                      /\ replaying =>
                           row = [memberCount |-> Net(t),
                                  status |-> IF tenantEvents[status].eventType = "TenantSuspended"
                                             THEN "suspended" ELSE "active",
                                  lastActiveAt |-> Latest(Of(t, ActiveEvents))]
    BY DEF AnalyticsTrue, StatusEvents, ActiveEvents
  <2> USE DEF AnalyticsInv
  <2>1. \A i \in OfTenant(t) : handled[i].executed > 0
    BY Places DEF EventsTyped, Statements
  <2>2. t \in DOMAIN analytics
    BY <2>1 DEF RowTrue
  <2>3. RowTold(t)
    BY <2>2 DEF RowTrue
  <2>4. \A types : Begun(t, types) = Of(t, types) /\ Finished(t, types) = Of(t, types)
    BY <2>1 DEF Begun, Finished, Of
  <2>5. Counted(t) = Net(t)
    BY <2>4 DEF Counted, Net
  <2>6. analytics[t].memberCount \in Net(t) .. Net(t) + Repeated(t)
    BY <2>3, <2>5 DEF RowTold
  <2>7. ASSUME replaying
        PROVE  /\ analytics[t].memberCount = Net(t)
               /\ analytics[t].status = StatusAfter(Latest(Of(t, StatusEvents)))
               /\ analytics[t].lastActiveAt = Latest(Of(t, ActiveEvents))
    BY <2>3, <2>4, <2>5, <2>7 DEF RowTold
  <2>8. analytics[t] = [memberCount |-> analytics[t].memberCount, status |-> analytics[t].status,
                        lastActiveAt |-> analytics[t].lastActiveAt]
    <3>1. analytics[t] \in TenantAnalyticsReadModel
      BY <2>2 DEF RowsTyped
    <3> QED  BY <3>1 DEF TenantAnalyticsReadModel
  <2> QED  BY <2>6, <2>7, <2>8 DEF StatusAfter
<1> QED  BY <1>1, AnalyticsStart, AnalyticsStep, PTL DEF AnalyticsSpec

-----------------------------------------------------------------------------
(* The scores. *)

LEMMA SumOverTotal ==
    ASSUME NEW S, IsFiniteSet(S), \A p \in S : p[2] \in Nat
    PROVE  SumOver(S) = Total([p \in S |-> p[2]], S)
<1> DEFINE w == [p \in S |-> p[2]]
           Chosen(f) == f = [s \in SUBSET S |->
                               IF s = {} THEN 0
                               ELSE (CHOOSE x \in s : TRUE)[2] + f[s \ {CHOOSE x \in s : TRUE}]]
<1>1. SumOver(S) = (CHOOSE f : Chosen(f))[S]
  BY DEF SumOver, MapThenSumSet, MapThenFoldSet
<1>2. Weighs(w, S)
  BY DEF Weighs
<1>3. \A s \in SUBSET S : s # {} => w[CHOOSE x \in s : TRUE] = (CHOOSE x \in s : TRUE)[2]
  OBVIOUS
<1>4. \A f : Chosen(f) <=> Sums(w, S, f)
  BY <1>3 DEF Sums
<1> HIDE DEF Chosen, w
<1>5. \E f : Chosen(f)
  BY <1>2, <1>4, SumExists
<1>6. Chosen(CHOOSE f : Chosen(f))
  BY <1>5
<1>7. (CHOOSE f : Chosen(f))[S] = Total(w, S)
  BY <1>2, <1>4, <1>6, SumIsTotal
<1> QED  BY <1>1, <1>7 DEF w

\* Three items, and the points of each.
Items3(p, q, r) ==
    /\ p # q /\ p # r /\ q # r
    /\ p[2] \in Nat /\ q[2] \in Nat /\ r[2] \in Nat

LEMMA SumOfThree ==
    ASSUME NEW p, NEW q, NEW r, Items3(p, q, r), NEW S, S \subseteq {p, q, r}
    PROVE  SumOver(S) = (IF p \in S THEN p[2] ELSE 0) + (IF q \in S THEN q[2] ELSE 0)
                        + (IF r \in S THEN r[2] ELSE 0)
<1> USE DEF Items3
<1> DEFINE w == [x \in S |-> x[2]]
           A == S \cap {p}
           B == S \cap {p, q}
<1>1. IsFiniteSet(S)
  <2>1. IsFiniteSet({p} \cup {q} \cup {r})
    BY FS_Singleton, FS_Union
  <2>2. S \subseteq {p} \cup {q} \cup {r}
    OBVIOUS
  <2> QED  BY <2>1, <2>2, FS_Subset
<1>2. SumOver(S) = Total(w, S)
  BY <1>1, SumOverTotal
<1>3. Weighs(w, S) /\ \A x \in S : w[x] = x[2]
  BY DEF Weighs
<1> HIDE DEF w
<1>4. Total(w, A) = IF p \in S THEN p[2] ELSE 0
  <2>1. CASE p \in S
    <3>1. A = {} \cup {p}
      BY <2>1
    <3>2. Total(w, {}) = 0 /\ Total(w, {} \cup {p}) = Total(w, {}) + w[p]
      BY <1>1, <1>3, <2>1, TotalAdds
    <3> QED  BY <1>3, <2>1, <3>1, <3>2
  <2>2. CASE p \notin S
    <3>1. A = {}
      BY <2>2
    <3> QED  BY <1>1, <1>3, <2>2, <3>1, TotalAdds
  <2> QED  BY <2>1, <2>2
<1>5. Total(w, B) = Total(w, A) + IF q \in S THEN q[2] ELSE 0
  <2>1. CASE q \in S
    <3>1. B = A \cup {q} /\ q \notin A /\ A \in SUBSET S
      BY <2>1
    <3> HIDE DEF A, B
    <3>2. Total(w, A \cup {q}) = Total(w, A) + w[q]
      BY <1>1, <1>3, <2>1, <3>1, TotalAdds
    <3> QED  BY <1>3, <2>1, <3>1, <3>2
  <2>2. CASE q \notin S
    <3>1. B = A
      BY <2>2
    <3> QED  BY <1>4, <2>2, <3>1
  <2> QED  BY <2>1, <2>2
<1>6. Total(w, S) = Total(w, B) + IF r \in S THEN r[2] ELSE 0
  <2>1. CASE r \in S
    <3>1. S = B \cup {r} /\ r \notin B /\ B \in SUBSET S
      BY <2>1
    <3> HIDE DEF B
    <3>2. Total(w, B \cup {r}) = Total(w, B) + w[r]
      BY <1>1, <1>3, <2>1, <3>1, TotalAdds
    <3> QED  BY <1>3, <2>1, <3>1, <3>2
  <2>2. CASE r \notin S
    <3>1. S = B /\ S \in SUBSET S
      BY <2>2
    <3>2. Total(w, S) \in Nat
      BY <1>1, <1>3, <3>1, TotalAdds
    <3> HIDE DEF B
    <3> QED  BY <2>2, <3>1, <3>2
  <2> QED  BY <2>1, <2>2
<1> QED  BY <1>2, <1>4, <1>5, <1>6

\* Points are taken off a hundred, or given; there are three to look at, at most.
LEMMA LessOfThree ==
    ASSUME NEW p, NEW q, NEW r, Items3(p, q, r), p[2] + q[2] + r[2] <= 100,
           NEW S, S \subseteq {p, q, r}
    PROVE  /\ Less(S) \in 0 .. 100
           /\ Less(S) = 100 - ((IF p \in S THEN p[2] ELSE 0) + (IF q \in S THEN q[2] ELSE 0)
                               + (IF r \in S THEN r[2] ELSE 0))
<1> DEFINE sum == (IF p \in S THEN p[2] ELSE 0) + (IF q \in S THEN q[2] ELSE 0)
                  + (IF r \in S THEN r[2] ELSE 0)
<1>1. SumOver(S) = sum /\ sum \in 0 .. 100
  <2>1. SumOver(S) = sum
    BY SumOfThree
  <2>2. PICK a \in Nat, b \in Nat, c \in Nat : a = p[2] /\ b = q[2] /\ c = r[2]
    BY DEF Items3
  <2>3. a + b + c <= 100
    BY <2>2
  <2>4. sum = (IF p \in S THEN a ELSE 0) + (IF q \in S THEN b ELSE 0) + (IF r \in S THEN c ELSE 0)
    BY <2>2
  <2>5. sum \in 0 .. 100
    <3> HIDE DEF sum
    <3> QED  BY <2>3, <2>4
  <2> QED  BY <2>1, <2>5
<1> HIDE DEF sum
<1> DEFINE n == 100 - sum
<1>2. n \in 0 .. 100
  BY <1>1
<1> HIDE DEF n
<1>3. Max({0, n}) = n
  <2>1. \A x \in {0, n} : (\A y \in {0, n} : x >= y) => x = n
    BY <1>2
  <2>2. n \in {0, n} /\ \A y \in {0, n} : n >= y
    BY <1>2
  <2> QED  BY <2>1, <2>2 DEF Max
<1>4. Less(S) = Max({0, 100 - SumOver(S)})
  BY DEF Less, AtLeastZero
<1>5. Less(S) = n
  BY <1>1, <1>3, <1>4 DEF n
<1> QED  BY <1>2, <1>5 DEF n, sum

\* The parts of a score, by the fields that are there.
Points(condition, points) == IF condition THEN points ELSE 0

LEMMA Parts ==
    ASSUME NEW m \in MetadataToScore
    PROVE  /\ Completeness(m) = 20 + Points(Has(m, "aggregateId"), 40) + Points(Has(m, "tenantId"), 40)
           /\ Classification(m) =
                Points(Has(m, "analyzable"),
                       Points(Has(m, "tags"), 50) + Points(Has(m, "category"), 50))
           /\ AuditCompleteness(m) =
                15 + Points(m.deletion # "anonymous", 15) + Points(Has(m, "createdBy"), 40)
                + Points(Has(m, "updatedBy"), 30)
           /\ ExtensionUse(m) =
                Points(Has(m, "aiEnabled"), 33) + Points(Has(m, "analyzable"), 33)
                + Points(Has(m, "syncable"), 34)
<1> DEFINE none == <<"none", 0>>
<1>1. Completeness(m) = 20 + Points(Has(m, "aggregateId"), 40) + Points(Has(m, "tenantId"), 40)
  <2> DEFINE p == <<"aggregateId", 40>>
             q == <<"tenantId", 40>>
             S == {x \in {p, q} : ~Has(m, x[1])}
  <2>1. /\ Items3(p, q, none) /\ p[2] = 40 /\ q[2] = 40 /\ none[2] = 0
        /\ S \subseteq {p, q, none} /\ none \notin S
        /\ p \in S <=> ~Has(m, "aggregateId")
        /\ q \in S <=> ~Has(m, "tenantId")
    BY DEF Items3
  <2>2. Completeness(m) = Less(S)
    BY DEF Completeness
  <2> HIDE DEF p, q, none, S
  <2>3. Less(S) = 100 - ((IF p \in S THEN p[2] ELSE 0) + (IF q \in S THEN q[2] ELSE 0)
                          + (IF none \in S THEN none[2] ELSE 0))
    BY <2>1, LessOfThree
  <2> QED  BY <2>1, <2>2, <2>3 DEF Points
<1>2. Classification(m) = Points(Has(m, "analyzable"),
                                 Points(Has(m, "tags"), 50) + Points(Has(m, "category"), 50))
  <2> DEFINE p == <<"tags", 50>>
             q == <<"category", 50>>
             S == {x \in {p, q} : ~Has(m, x[1])}
  <2>1. /\ Items3(p, q, none) /\ p[2] = 50 /\ q[2] = 50 /\ none[2] = 0
        /\ S \subseteq {p, q, none} /\ none \notin S
        /\ p \in S <=> ~Has(m, "tags")
        /\ q \in S <=> ~Has(m, "category")
    BY DEF Items3
  <2>2. Classification(m) = IF ~Has(m, "analyzable") THEN 0 ELSE Less(S)
    BY DEF Classification
  <2> HIDE DEF p, q, none, S
  <2>3. Less(S) = 100 - ((IF p \in S THEN p[2] ELSE 0) + (IF q \in S THEN q[2] ELSE 0)
                          + (IF none \in S THEN none[2] ELSE 0))
    BY <2>1, LessOfThree
  <2> QED  BY <2>1, <2>2, <2>3 DEF Points
<1>3. AuditCompleteness(m) =
         15 + Points(m.deletion # "anonymous", 15) + Points(Has(m, "createdBy"), 40)
         + Points(Has(m, "updatedBy"), 30)
  <2> DEFINE p == <<"createdBy", 40>>
             q == <<"updatedBy", 30>>
             r == <<"deletedBy", 15>>
             S == {x \in {p, q} : ~Has(m, x[1])} \cup {x \in {r} : m.deletion = "anonymous"}
  <2>1. /\ Items3(p, q, r) /\ p[2] = 40 /\ q[2] = 30 /\ r[2] = 15
        /\ S \subseteq {p, q, r}
        /\ p \in S <=> ~Has(m, "createdBy")
        /\ q \in S <=> ~Has(m, "updatedBy")
        /\ r \in S <=> m.deletion = "anonymous"
    BY DEF Items3
  <2>2. AuditCompleteness(m) = Less(S)
    BY DEF AuditCompleteness
  <2> HIDE DEF p, q, r, S
  <2>3. Less(S) = 100 - ((IF p \in S THEN p[2] ELSE 0) + (IF q \in S THEN q[2] ELSE 0)
                          + (IF r \in S THEN r[2] ELSE 0))
    BY <2>1, LessOfThree
  <2> QED  BY <2>1, <2>2, <2>3 DEF Points
<1>4. ExtensionUse(m) =
         Points(Has(m, "aiEnabled"), 33) + Points(Has(m, "analyzable"), 33)
         + Points(Has(m, "syncable"), 34)
  <2> DEFINE p == <<"aiEnabled", 33>>
             q == <<"analyzable", 33>>
             r == <<"syncable", 34>>
             S == {x \in {p, q, r} : Has(m, x[1])}
  <2>1. /\ Items3(p, q, r) /\ p[2] = 33 /\ q[2] = 33 /\ r[2] = 34
        /\ S \subseteq {p, q, r}
        /\ p \in S <=> Has(m, "aiEnabled")
        /\ q \in S <=> Has(m, "analyzable")
        /\ r \in S <=> Has(m, "syncable")
    BY DEF Items3
  <2>2. ExtensionUse(m) = SumOver(S)
    BY DEF ExtensionUse
  <2> HIDE DEF p, q, r, S
  <2>3. SumOver(S) = (IF p \in S THEN p[2] ELSE 0) + (IF q \in S THEN q[2] ELSE 0)
                     + (IF r \in S THEN r[2] ELSE 0)
    BY <2>1, SumOfThree
  <2> QED  BY <2>1, <2>2, <2>3 DEF Points
<1> QED  BY <1>1, <1>2, <1>3, <1>4

LEMMA SmallestOf ==
    ASSUME NEW a \in Nat, NEW b \in Nat
    PROVE  Min({a, b}) \in {a, b} /\ Min({a, b}) <= a /\ Min({a, b}) <= b
<1>1. \E x \in {a, b} : \A y \in {a, b} : x <= y
  OBVIOUS
<1>2. Min({a, b}) \in {a, b} /\ \A y \in {a, b} : Min({a, b}) <= y
  BY <1>1 DEF Min
<1> QED  BY <1>2

LEMMA LargestOf ==
    ASSUME NEW a \in Int
    PROVE  AtLeastZero(a) = IF a > 0 THEN a ELSE 0
<1>1. \E x \in {0, a} : \A y \in {0, a} : x >= y
  OBVIOUS
<1>2. Max({0, a}) \in {0, a} /\ \A y \in {0, a} : Max({0, a}) >= y
  BY <1>1 DEF Max
<1> QED  BY <1>2 DEF AtLeastZero

LEMMA DimensionsCount ==
    ASSUME NEW m \in MetadataToScore
    PROVE  /\ DimensionCompleteness(m) \in 0 .. 100
           /\ ~Has(m, "analyzable") => DimensionCompleteness(m) = 0
<1>1. CASE ~Has(m, "analyzable")
  BY <1>1 DEF DimensionCompleteness
<1>2. CASE Has(m, "analyzable")
  <2>1. IsFiniteSet(m.dimensions)
    <3>1. IsFiniteSet({"status"} \cup {"type"} \cup {"amount"} \cup {"currency"} \cup {"retryCount"})
      BY FS_Singleton, FS_Union
    <3>2. m.dimensions \subseteq
            {"status"} \cup {"type"} \cup {"amount"} \cup {"currency"} \cup {"retryCount"}
      BY DEF MetadataToScore, BillDimensions
    <3> QED  BY <3>1, <3>2, FS_Subset
  <2>2. PICK n \in Nat : n = Cardinality(m.dimensions)
    BY <2>1, FS_CardinalityType
  <2>3. DimensionCompleteness(m) = Min({100, 20 * n})
    BY <1>2, <2>2 DEF DimensionCompleteness
  <2>4. 20 * n \in Nat
    OBVIOUS
  <2> DEFINE k == 20 * n
  <2> HIDE DEF k
  <2>5. k \in Nat /\ DimensionCompleteness(m) = Min({100, k})
    BY <2>3, <2>4 DEF k
  <2>6. Min({100, k}) \in {100, k} /\ Min({100, k}) <= 100
    BY <2>5, SmallestOf
  <2>7. DimensionCompleteness(m) \in 0 .. 100
    BY <2>5, <2>6
  <2> QED  BY <1>2, <2>7
<1> QED  BY <1>1, <1>2


\* The score but for strict mode.
Weighted(m) ==
    30 * Completeness(m) + 20 * Classification(m) + 25 * DimensionCompleteness(m)
    + 15 * AuditCompleteness(m) + 10 * ExtensionUse(m)

LEMMA WeightedSum ==
    ASSUME NEW m \in MetadataToScore
    PROVE  \E c, l, d, a, e \in 0 .. 100 : Weighted(m) = 30 * c + 20 * l + 25 * d + 15 * a + 10 * e
<1>1. /\ Completeness(m) \in 0 .. 100 /\ Classification(m) \in 0 .. 100
      /\ AuditCompleteness(m) \in 0 .. 100 /\ ExtensionUse(m) \in 0 .. 100
  BY Parts DEF Points
<1>2. DimensionCompleteness(m) \in 0 .. 100
  BY DimensionsCount
<1> QED  BY <1>1, <1>2 DEF Weighted

LEMMA WeightedWithin ==
    ASSUME NEW m \in MetadataToScore
    PROVE  Weighted(m) \in 0 .. 10000
<1>1. PICK c, l, d, a, e \in 0 .. 100 :
        Weighted(m) = 30 * c + 20 * l + 25 * d + 15 * a + 10 * e
  BY WeightedSum, Zenon
<1> DEFINE sum == 30 * c + 20 * l + 25 * d + 15 * a + 10 * e
<1>2. sum \in 0 .. 10000
  OBVIOUS
<1>3. Weighted(m) = sum
  BY <1>1
<1> HIDE DEF sum
<1> QED  BY <1>2, <1>3

LEMMA WeightedNat ==
    ASSUME NEW m \in MetadataToScore
    PROVE  Weighted(m) \in Nat
<1>1. PICK c, l, d, a, e \in 0 .. 100 :
        Weighted(m) = 30 * c + 20 * l + 25 * d + 15 * a + 10 * e
  BY WeightedSum, Zenon
<1>2. 30 * c + 20 * l + 25 * d + 15 * a + 10 * e \in Nat
  OBVIOUS
<1> QED  BY <1>1, <1>2

LEMMA ScoreIsWeighted ==
    ASSUME NEW m
    PROVE  calculateScore(m) = IF strictMode /\ hasMissingRequiredFields(m) THEN 0 ELSE Weighted(m)
BY Zenon DEF calculateScore, Weighted

\* The metadata with one more field.
FilledIn(m, field, n) ==
    /\ n \in MetadataToScore
    /\ n.dimensions = m.dimensions /\ n.deletion = m.deletion
    /\ ~Has(m, field)
    /\ \A g \in Fields : Has(n, g) <=> Has(m, g) \/ g = field

LEMMA FillingInGains ==
    ASSUME NEW m \in MetadataToScore, NEW field \in Fields, NEW n, FilledIn(m, field, n),
           field \in {"tags", "category"} => Has(m, "analyzable")
    PROVE  Weighted(n) > Weighted(m)
<1>1. n \in MetadataToScore
  BY DEF FilledIn
<1>2. /\ DimensionCompleteness(m) \in 0 .. 100 /\ DimensionCompleteness(n) \in 0 .. 100
      /\ ~Has(m, "analyzable") => DimensionCompleteness(m) = 0
      /\ field # "analyzable" => DimensionCompleteness(n) = DimensionCompleteness(m)
  <2>1. field # "analyzable" => DimensionCompleteness(n) = DimensionCompleteness(m)
    BY DEF DimensionCompleteness, FilledIn, Fields
  <2> QED  BY <1>1, <2>1, DimensionsCount
<1>3. /\ Completeness(n) >= Completeness(m) /\ Classification(n) >= Classification(m)
      /\ AuditCompleteness(n) >= AuditCompleteness(m) /\ ExtensionUse(n) >= ExtensionUse(m)
      /\ \/ Completeness(n) > Completeness(m) \/ Classification(n) > Classification(m)
         \/ AuditCompleteness(n) > AuditCompleteness(m) \/ ExtensionUse(n) > ExtensionUse(m)
  BY <1>1, Parts DEF Points, FilledIn, Fields
<1>4. \A x \in {m, n} :
          /\ Completeness(x) \in Int /\ Classification(x) \in Int
          /\ AuditCompleteness(x) \in Int /\ ExtensionUse(x) \in Int
  BY <1>1, Parts DEF Points
<1>5. DimensionCompleteness(n) >= DimensionCompleteness(m)
  <2>1. CASE field = "analyzable"
    BY <1>2, <2>1 DEF FilledIn
  <2>2. CASE field # "analyzable"
    BY <1>2, <2>2
  <2> QED  BY <2>1, <2>2
<1>6. PICK c \in Int, l \in Int, d \in Int, a \in Int, e \in Int :
        /\ c = Completeness(m) /\ l = Classification(m) /\ d = DimensionCompleteness(m)
        /\ a = AuditCompleteness(m) /\ e = ExtensionUse(m)
  BY <1>2, <1>4
<1>7. PICK c1 \in Int, l1 \in Int, d1 \in Int, a1 \in Int, e1 \in Int :
        /\ c1 = Completeness(n) /\ l1 = Classification(n) /\ d1 = DimensionCompleteness(n)
        /\ a1 = AuditCompleteness(n) /\ e1 = ExtensionUse(n)
  BY <1>2, <1>4
<1>8. /\ c1 >= c /\ l1 >= l /\ d1 >= d /\ a1 >= a /\ e1 >= e
      /\ c1 > c \/ l1 > l \/ a1 > a \/ e1 > e
  BY <1>3, <1>5, <1>6, <1>7
<1>9. 30 * c1 + 20 * l1 + 25 * d1 + 15 * a1 + 10 * e1 > 30 * c + 20 * l + 25 * d + 15 * a + 10 * e
  BY <1>8
<1>10. /\ Weighted(m) = 30 * c + 20 * l + 25 * d + 15 * a + 10 * e
       /\ Weighted(n) = 30 * c1 + 20 * l1 + 25 * d1 + 15 * a1 + 10 * e1
  BY <1>6, <1>7 DEF Weighted
<1> QED  BY <1>9, <1>10

\* What depends on the fields alone in the score of QualityScorer.
Filling(m) ==
    IF ~Has(m, "analyzable") THEN 100
    ELSE Less({p \in {<<"tags", 10>>, <<"category", 10>>} : ~Has(m, p[1])})
Validity(m) == Less({p \in {<<"aggregateId", 30>>, <<"tenantId", 30>>} : ~Has(m, p[1])})

LEMMA PartsWithin ==
    ASSUME NEW m \in MetadataToScore
    PROVE  Filling(m) \in 0 .. 100 /\ Validity(m) \in 0 .. 100 /\ AmountScore(m) \in 0 .. 100
<1> DEFINE none == <<"none", 0>>
<1>1. ASSUME NEW a \in {"tags", "aggregateId", "amount"}, NEW i \in {10, 30, 50},
             NEW b \in {"category", "tenantId", "currency"}, NEW j \in {10, 30},
             NEW S, S \subseteq {<<a, i>>, <<b, j>>}
      PROVE  Less(S) \in 0 .. 100
  <2> DEFINE p == <<a, i>>
             q == <<b, j>>
  <2>1. p # q /\ p # none /\ q # none
    OBVIOUS
  <2>2. i \in Nat /\ j \in Nat /\ i + j + 0 <= 100 /\ p[2] = i /\ q[2] = j /\ none[2] = 0
    OBVIOUS
  <2>3. Items3(p, q, none) /\ p[2] + q[2] + none[2] <= 100 /\ S \subseteq {p, q, none}
    <3>1. p[2] + q[2] + none[2] <= 100
      BY <2>2
    <3> HIDE DEF p, q, none
    <3>2. Items3(p, q, none)
      BY <2>1, <2>2 DEF Items3
    <3> QED  BY <1>1, <3>1, <3>2 DEF p, q
  <2> HIDE DEF p, q, none
  <2> QED  BY <2>3, LessOfThree
<1>2. \A S : S \subseteq {<<"tags", 10>>, <<"category", 10>>} => Less(S) \in 0 .. 100
  BY <1>1
<1>3. \A S : S \subseteq {<<"aggregateId", 30>>, <<"tenantId", 30>>} => Less(S) \in 0 .. 100
  BY <1>1
<1>4. \A S : S \subseteq {<<"amount", 50>>, <<"currency", 30>>} => Less(S) \in 0 .. 100
  BY <1>1
<1>5. Filling(m) \in 0 .. 100
  BY <1>2 DEF Filling
<1>6. Validity(m) \in 0 .. 100
  BY <1>3 DEF Validity
<1>7. AmountScore(m) \in 0 .. 100
  BY <1>4 DEF AmountScore
<1> QED  BY <1>5, <1>6, <1>7

LEMMA Timely ==
    ASSUME NEW m \in MetadataToScore
    PROVE  /\ m.age \in 0 .. 5 /\ m.retries \in 0 .. 6
           /\ Timeliness(m) = IF m.age = 0 THEN 100 ELSE 120 - 20 * m.age
           /\ <<100, 90, 70, 50, 50, 50>>[m.age + 1] =
                IF m.age = 0 THEN 100 ELSE IF m.age = 1 THEN 90 ELSE IF m.age = 2 THEN 70 ELSE 50
           /\ RetryScore(m) =
                IF ~Has(m, "analyzable") THEN 80
                ELSE IF "retryCount" \notin m.dimensions THEN 100
                ELSE IF m.retries = 6 THEN 20
                ELSE IF m.retries > 2 THEN 40 ELSE 100 - 20 * m.retries
<1>1. PICK age \in 0 .. 5, retries \in 0 .. 6 : age = m.age /\ retries = m.retries
  BY DEF MetadataToScore
<1>2. <<100, 100, 80, 60, 40, 20>>[age + 1] = IF age = 0 THEN 100 ELSE 120 - 20 * age
  BY age = 0 \/ age = 1 \/ age = 2 \/ age = 3 \/ age = 4 \/ age = 5
<1>3. <<100, 90, 70, 50, 50, 50>>[age + 1] =
         IF age = 0 THEN 100 ELSE IF age = 1 THEN 90 ELSE IF age = 2 THEN 70 ELSE 50
  BY age = 0 \/ age = 1 \/ age = 2 \/ age = 3 \/ age = 4 \/ age = 5
<1>4. <<100, 80, 60, 40, 40, 40, 20>>[retries + 1] =
         IF retries = 6 THEN 20 ELSE IF retries > 2 THEN 40 ELSE 100 - 20 * retries
  BY retries = 0 \/ retries = 1 \/ retries = 2 \/ retries = 3 \/ retries = 4 \/ retries = 5 \/ retries = 6
<1> QED  BY <1>1, <1>2, <1>3, <1>4 DEF Timeliness, RetryScore

LEMMA OtherScoresWithin ==
    ASSUME NEW m \in MetadataToScore
    PROVE  score(m) \in 0 .. 10000 /\ BillingScore(m) \in 0 .. 10000
<1>1. PICK f \in 0 .. 100, t \in 0 .. 100, v \in 0 .. 100, a \in 0 .. 100 :
        f = Filling(m) /\ t = Timeliness(m) /\ v = Validity(m) /\ a = Accessibility(m)
  <2>1. Timeliness(m) \in 0 .. 100
    BY Timely
  <2>2. Accessibility(m) \in 0 .. 100
    BY DEF Accessibility
  <2> QED  BY <2>1, <2>2, PartsWithin
<1>2. score(m) = 25 * f + 20 * t + 20 * 100 + 20 * v + 15 * a
  BY <1>1 DEF score, Filling, Validity
<1>3. 25 * f + 20 * t + 20 * 100 + 20 * v + 15 * a \in 0 .. 10000
  OBVIOUS
<1>4. PICK b \in 0 .. 100, o \in 0 .. 100, r \in 0 .. 100 :
        b = AmountScore(m) /\ o = <<100, 90, 70, 50, 50, 50>>[m.age + 1] /\ r = RetryScore(m)
  <2>1. <<100, 90, 70, 50, 50, 50>>[m.age + 1] \in 0 .. 100
    BY Timely
  <2>2. RetryScore(m) \in 0 .. 100
    BY Timely
  <2> QED  BY <2>1, <2>2, PartsWithin
<1>5. BillingScore(m) = 30 * 70 + 30 * b + 25 * o + 15 * r
  BY <1>4 DEF BillingScore, StatusScore
<1>6. 30 * 70 + 30 * b + 25 * o + 15 * r \in 0 .. 10000
  OBVIOUS
<1> DEFINE x == 25 * f + 20 * t + 20 * 100 + 20 * v + 15 * a
           y == 30 * 70 + 30 * b + 25 * o + 15 * r
<1>7. score(m) = x /\ x \in 0 .. 10000
  BY <1>2, <1>3
<1>8. BillingScore(m) = y /\ y \in 0 .. 10000
  BY <1>5, <1>6
<1> HIDE DEF x, y
<1> QED  BY <1>7, <1>8

\* Metadata that has grown older, or of a bill whose payment was tried again.
GrownOlder(m, n) ==
    /\ n \in MetadataToScore
    /\ n.fields = m.fields /\ n.dimensions = m.dimensions /\ n.deletion = m.deletion
    /\ n.included = m.included
    /\ n.age >= m.age /\ n.retries >= m.retries

LEMMA GrowingOlderGainsNothing ==
    ASSUME NEW m \in MetadataToScore, NEW n, GrownOlder(m, n)
    PROVE  score(n) <= score(m) /\ BillingScore(n) <= BillingScore(m)
<1>1. n \in MetadataToScore /\ \A g : Has(n, g) <=> Has(m, g)
  BY DEF GrownOlder, Has
<1>2. /\ Filling(n) = Filling(m) /\ Validity(n) = Validity(m)
      /\ Accessibility(n) = Accessibility(m) /\ AmountScore(n) = AmountScore(m)
  BY DEF GrownOlder, Has, Filling, Validity, Accessibility, AmountScore
<1>3. Timeliness(n) <= Timeliness(m) /\ Timeliness(n) \in Int /\ Timeliness(m) \in Int
  BY <1>1, Timely DEF GrownOlder
<1>4. <<100, 90, 70, 50, 50, 50>>[n.age + 1] <= <<100, 90, 70, 50, 50, 50>>[m.age + 1]
  BY <1>1, Timely DEF GrownOlder
<1>5. RetryScore(n) <= RetryScore(m)
  BY <1>1, Timely DEF GrownOlder
<1>6. score(n) <= score(m)
  <2>1. PICK f \in Int, t \in Int, u \in Int, v \in Int, a \in Int :
          f = Filling(m) /\ t = Timeliness(m) /\ u = Timeliness(n) /\ v = Validity(m) /\ a = Accessibility(m)
    <3>1. Filling(m) \in Int /\ Validity(m) \in Int
      BY PartsWithin
    <3>2. Accessibility(m) \in Int
      BY DEF Accessibility
    <3> QED  BY <1>3, <3>1, <3>2
  <2>2. score(m) = 25 * f + 20 * t + 20 * 100 + 20 * v + 15 * a
    BY <2>1 DEF score, Filling, Validity
  <2>3. score(n) = 25 * f + 20 * u + 20 * 100 + 20 * v + 15 * a
    BY <1>2, <2>1 DEF score, Filling, Validity
  <2> QED  BY <1>3, <2>1, <2>2, <2>3
<1>7. BillingScore(n) <= BillingScore(m)
  <2>1. PICK b \in Int, o \in Int, p \in Int, r \in Int, s \in Int :
          /\ b = AmountScore(m) /\ o = <<100, 90, 70, 50, 50, 50>>[m.age + 1]
          /\ p = <<100, 90, 70, 50, 50, 50>>[n.age + 1] /\ r = RetryScore(m) /\ s = RetryScore(n)
    <3>1. <<100, 90, 70, 50, 50, 50>>[m.age + 1] \in Int /\ RetryScore(m) \in Int
      BY Timely
    <3>2. <<100, 90, 70, 50, 50, 50>>[n.age + 1] \in Int /\ RetryScore(n) \in Int
      BY <1>1, Timely
    <3>3. AmountScore(m) \in Int
      BY PartsWithin
    <3> QED  BY <3>1, <3>2, <3>3
  <2>2. BillingScore(m) = 30 * 70 + 30 * b + 25 * o + 15 * r
    BY <2>1 DEF BillingScore, StatusScore
  <2>3. BillingScore(n) = 30 * 70 + 30 * b + 25 * p + 15 * s
    BY <1>2, <2>1 DEF BillingScore, StatusScore
  <2>4. p <= o /\ s <= r
    BY <1>4, <1>5, <2>1
  <2> QED  BY <2>2, <2>3, <2>4
<1> QED  BY <1>6, <1>7
-----------------------------------------------------------------------------
(* The metadata, as it changes. *)

QualityInv ==
    /\ strictMode \in BOOLEAN
    /\ scored \in MetadataToScore
    /\ changes \in 0 .. MaxChanges

LEMMA QualityInvInit == QualityInit => QualityInv
<1> SUFFICES ASSUME QualityInit PROVE QualityInv
  OBVIOUS
<1>1. strictMode \in BOOLEAN /\ changes \in 0 .. MaxChanges
  BY QualityAssumption DEF QualityInit
<1>2. scored \in [fields : Beginnings, dimensions : {{}}, retries : {0}, deletion : {"no"},
                 included : {TRUE}, age : {0}]
  BY DEF QualityInit
<1>3. Beginnings \subseteq SUBSET Fields
  BY QualityAssumption
<1>4. scored \in MetadataToScore
  <2>1. PICK b \in Beginnings : scored = [fields |-> b, dimensions |-> {}, retries |-> 0,
                                         deletion |-> "no", included |-> TRUE, age |-> 0]
    BY <1>2
  <2> QED  BY <1>3, <2>1 DEF MetadataToScore
<1> QED  BY <1>1, <1>4 DEF QualityInv

LEMMA FillInFills ==
    ASSUME QualityInv, NEW field \in Fields, FillIn(field)
    PROVE  FilledIn(scored, field, scored')
<1> DEFINE n == [scored EXCEPT !.fields = @ \cup {field}]
<1>1. scored \in MetadataToScore
  BY DEF QualityInv
<1>2. scored' = n /\ ~Has(scored, field)
  BY DEF FillIn, Becomes
<1>3. /\ n \in MetadataToScore /\ n.fields = scored.fields \cup {field}
      /\ n.dimensions = scored.dimensions /\ n.deletion = scored.deletion
  BY <1>1 DEF MetadataToScore
<1> HIDE DEF n
<1> QED  BY <1>2, <1>3 DEF FilledIn, Has

LEMMA OlderGrows ==
    ASSUME QualityInv, Age \/ Retry
    PROVE  GrownOlder(scored, scored')
<1>1. scored \in MetadataToScore
  BY DEF QualityInv
<1>2. CASE Age
  <2> DEFINE n == [scored EXCEPT !.age = @ + 1]
  <2>1. scored' = n /\ scored.age < 5
    BY <1>2 DEF Age, Becomes
  <2>2. /\ n \in MetadataToScore /\ n.fields = scored.fields
        /\ n.dimensions = scored.dimensions /\ n.deletion = scored.deletion
        /\ n.included = scored.included /\ n.age >= scored.age /\ n.retries >= scored.retries
    BY <1>1, <2>1 DEF MetadataToScore
  <2> HIDE DEF n
  <2> QED  BY <2>1, <2>2 DEF GrownOlder
<1>3. CASE Retry
  <2> DEFINE n == [scored EXCEPT !.retries = @ + 1]
  <2>1. scored' = n /\ scored.retries < 6
    BY <1>3 DEF Retry, Becomes
  <2>2. /\ n \in MetadataToScore /\ n.fields = scored.fields
        /\ n.dimensions = scored.dimensions /\ n.deletion = scored.deletion
        /\ n.included = scored.included /\ n.age >= scored.age /\ n.retries >= scored.retries
    BY <1>1, <2>1 DEF MetadataToScore
  <2> HIDE DEF n
  <2> QED  BY <2>1, <2>2 DEF GrownOlder
<1> QED  BY <1>2, <1>3

LEMMA QualityInvStep == QualityInv /\ [QualityNext]_qualityVars => QualityInv'
<1> SUFFICES ASSUME QualityInv, [QualityNext]_qualityVars PROVE QualityInv'
  OBVIOUS
<1> USE DEF QualityInv
<1>1. ASSUME NEW n \in MetadataToScore, Becomes(n) PROVE QualityInv'
  BY <1>1, QualityAssumption DEF Becomes
<1>2. ASSUME NEW field \in Fields, FillIn(field) PROVE QualityInv'
  <2>1. [scored EXCEPT !.fields = @ \cup {field}] \in MetadataToScore
    BY DEF MetadataToScore
  <2> QED  BY <1>1, <1>2, <2>1 DEF FillIn
<1>3. ASSUME NEW d \in BillDimensions, AddDimension(d) PROVE QualityInv'
  <2>1. [scored EXCEPT !.dimensions = @ \cup {d}] \in MetadataToScore
    BY DEF MetadataToScore
  <2> QED  BY <1>1, <1>3, <2>1 DEF AddDimension
<1>4. CASE Exclude
  <2>1. [scored EXCEPT !.included = FALSE] \in MetadataToScore
    BY DEF MetadataToScore
  <2> QED  BY <1>1, <1>4, <2>1 DEF Exclude
<1>5. CASE Retry
  <2>1. [scored EXCEPT !.retries = @ + 1] \in MetadataToScore
    BY <1>5 DEF MetadataToScore, Retry
  <2> QED  BY <1>1, <1>5, <2>1 DEF Retry
<1>6. ASSUME NEW how \in {"anonymous", "by"}, Delete(how) PROVE QualityInv'
  <2> DEFINE m == [scored EXCEPT !.deletion = how]
  <2>1. m \in MetadataToScore
    BY DEF MetadataToScore
  <2>2. [scored EXCEPT !.deletion = how, !.age = 0] = [m EXCEPT !.age = 0]
    BY DEF MetadataToScore
  <2> HIDE DEF m
  <2>3. [m EXCEPT !.age = 0] \in MetadataToScore
    BY <2>1 DEF MetadataToScore
  <2> QED  BY <1>1, <1>6, <2>2, <2>3 DEF Delete
<1>7. CASE Age
  <2>1. [scored EXCEPT !.age = @ + 1] \in MetadataToScore
    BY <1>7 DEF MetadataToScore, Age
  <2> QED  BY <1>1, <1>7, <2>1 DEF Age
<1>8. CASE UNCHANGED qualityVars
  BY <1>8 DEF qualityVars
<1> QED  BY <1>2, <1>3, <1>4, <1>5, <1>6, <1>7, <1>8 DEF QualityNext

\* A retried payment costs ten points a retry, thirty at most.
LEMMA BillingPointsWithin ==
    ASSUME NEW retries \in Nat
    PROVE  calculateQualityScore(retries, TRUE) \in 0 .. 100
<1> DEFINE k == retries * 10
           p == 100 - Min({k, 30}) - 20
<1>1. k \in Nat
  OBVIOUS
<1>2. calculateQualityScore(retries, TRUE) = AtLeastZero(p)
  BY DEF calculateQualityScore
<1> HIDE DEF k
<1>3. Min({k, 30}) \in {k, 30} /\ Min({k, 30}) <= 30
  BY <1>1, SmallestOf
<1>4. p \in 50 .. 80
  BY <1>1, <1>3
<1> HIDE DEF p
<1>5. AtLeastZero(p) = p /\ p \in 0 .. 100
  BY <1>4, LargestOf
<1> QED  BY <1>2, <1>5

LEMMA SmallestOfRanges ==
    ASSUME NEW S, S \subseteq 1 .. 5, S # {}
    PROVE  Min(S) \in S
<1>1. \E x \in S : \A y \in S : x <= y
  <2>1. CASE 1 \in S
    BY <2>1
  <2>2. CASE 1 \notin S /\ 2 \in S
    BY <2>2
  <2>3. CASE 1 \notin S /\ 2 \notin S /\ 3 \in S
    BY <2>3
  <2>4. CASE 1 \notin S /\ 2 \notin S /\ 3 \notin S /\ 4 \in S
    BY <2>4
  <2>5. CASE 1 \notin S /\ 2 \notin S /\ 3 \notin S /\ 4 \notin S
    <3>1. \A x \in S : x = 5
      BY <2>5
    <3>2. 5 \in S
      BY <3>1
    <3> QED  BY <3>1, <3>2
  <2> QED  BY <2>1, <2>2, <2>3, <2>4, <2>5
<1> QED  BY <1>1 DEF Min

LEMMA EveryAmountHasARange ==
    ASSUME NEW amount \in Nat
    PROVE  getAmountRange(amount) # Unknown
<1> DEFINE fits == {n \in DOMAIN AmountRanges :
                       /\ amount >= AmountRanges[n].min
                       /\ AmountRanges[n].max # Unknown => amount < AmountRanges[n].max}
<1>1. DOMAIN AmountRanges = 1 .. 5
  BY DEF AmountRanges
<1>2. AmountRanges[1] = [min |-> 0, max |-> 100] /\ AmountRanges[5] = [min |-> 5000, max |-> Unknown]
      /\ AmountRanges[2] = [min |-> 100, max |-> 500] /\ AmountRanges[3] = [min |-> 500, max |-> 1000]
      /\ AmountRanges[4] = [min |-> 1000, max |-> 5000]
  BY DEF AmountRanges
<1>3. fits # {}
  <2>1. \/ amount < 100
        \/ amount >= 100 /\ amount < 500
        \/ amount >= 500 /\ amount < 1000
        \/ amount >= 1000 /\ amount < 5000
        \/ amount >= 5000
    OBVIOUS
  <2>2. amount < 100 => 1 \in fits
    BY <1>1, <1>2
  <2>3. amount >= 100 /\ amount < 500 => 2 \in fits
    BY <1>1, <1>2
  <2>4. amount >= 500 /\ amount < 1000 => 3 \in fits
    BY <1>1, <1>2
  <2>5. amount >= 1000 /\ amount < 5000 => 4 \in fits
    BY <1>1, <1>2
  <2>6. amount >= 5000 => 5 \in fits
    BY <1>1, <1>2
  <2> HIDE DEF fits
  <2> QED  BY <2>1, <2>2, <2>3, <2>4, <2>5, <2>6
<1>4. fits \subseteq 1 .. 5
  BY <1>1
<1>5. getAmountRange(amount) = IF fits = {} THEN Unknown ELSE Min(fits)
  BY DEF getAmountRange
<1> HIDE DEF fits
<1>6. Min(fits) \in 1 .. 5
  BY <1>3, <1>4, SmallestOfRanges
<1> QED  BY <1>3, <1>5, <1>6 DEF Unknown

LEMMA QualityInvTyped == QualityInv => QualityTypeOK
<1> SUFFICES ASSUME QualityInv PROVE QualityTypeOK
  OBVIOUS
<1>1. strictMode \in BOOLEAN /\ scored \in MetadataToScore /\ changes \in 0 .. MaxChanges
  BY DEF QualityInv
<1>2. calculateScore(scored) \in 0 .. 10000
  <2>1. Weighted(scored) \in 0 .. 10000
    BY <1>1, WeightedWithin
  <2>2. 0 \in 0 .. 10000
    OBVIOUS
  <2> QED  BY <2>1, <2>2, ScoreIsWeighted
<1>3. score(scored) \in 0 .. 10000 /\ BillingScore(scored) \in 0 .. 10000
  BY <1>1, OtherScoresWithin
<1>4. calculateQualityScore(scored.retries, TRUE) \in 0 .. 100
  <2>1. scored.retries \in Nat
    BY <1>1 DEF MetadataToScore
  <2> QED  BY <2>1, BillingPointsWithin
<1>5. \A amount \in Amounts : getAmountRange(amount) # Unknown
  BY EveryAmountHasARange, QualityAssumption
<1> QED  BY <1>1, <1>2, <1>3, <1>4, <1>5 DEF QualityTypeOK, calculateQualityScore

\* Whatever becomes of the metadata, the scores lie within their bounds and
\* every amount has a range (default-quality-scorer.ts, quality-scorer.ts).
THEOREM QualityTypeCorrect == QualitySpec => []QualityTypeOK
<1>1. QualityInit => QualityInv
  BY QualityInvInit
<1>2. QualityInv /\ [QualityNext]_qualityVars => QualityInv'
  BY QualityInvStep
<1>3. QualityInv => QualityTypeOK
  BY QualityInvTyped
<1> QED  BY <1>1, <1>2, <1>3, PTL DEF QualitySpec

\* What ScoreMonotone says of a step.
MonotoneStep ==
    /\ \A field \in Fields :
          FillIn(field) =>
              /\ calculateScore(scored') >= calculateScore(scored)
              /\ field \in getSuggestions(scored) =>
                     \/ calculateScore(scored') > calculateScore(scored)
                     \/ strictMode /\ hasMissingRequiredFields(scored')
    /\ Age \/ Retry =>
          score(scored') <= score(scored) /\ BillingScore(scored') <= BillingScore(scored)

LEMMA StepsMonotone ==
    ASSUME QualityInv
    PROVE  MonotoneStep
<1>1. scored \in MetadataToScore /\ strictMode \in BOOLEAN
  BY DEF QualityInv
<1>2. ASSUME NEW field \in Fields, FillIn(field)
      PROVE  /\ calculateScore(scored') >= calculateScore(scored)
             /\ \/ calculateScore(scored') > calculateScore(scored)
                \/ strictMode /\ hasMissingRequiredFields(scored')
  <2>1. FilledIn(scored, field, scored') /\ scored' \in MetadataToScore
    BY <1>2, FillInFills DEF FilledIn
  <2>2. strictMode' = strictMode
    BY <1>2 DEF FillIn, Becomes
  <2>3. Weighted(scored') > Weighted(scored)
    BY <1>1, <1>2, <2>1, FillingInGains DEF FillIn
  <2>4. calculateScore(scored) =
           IF strictMode /\ hasMissingRequiredFields(scored) THEN 0 ELSE Weighted(scored)
    BY ScoreIsWeighted
  <2>5. calculateScore(scored') =
           IF strictMode /\ hasMissingRequiredFields(scored') THEN 0 ELSE Weighted(scored')
    BY ScoreIsWeighted
  <2>6. hasMissingRequiredFields(scored') => hasMissingRequiredFields(scored)
    BY <2>1 DEF FilledIn, hasMissingRequiredFields, Has, Fields
  <2>7. PICK w \in Nat : w = Weighted(scored)
    BY <1>1, WeightedNat
  <2>8. PICK v \in Nat : v = Weighted(scored')
    BY <2>1, WeightedNat
  <2>9. CASE strictMode /\ hasMissingRequiredFields(scored')
    <3>1. calculateScore(scored') = 0 /\ calculateScore(scored) = 0
      BY <2>4, <2>5, <2>6, <2>9
    <3> QED  BY <2>9, <3>1
  <2>10. CASE ~(strictMode /\ hasMissingRequiredFields(scored'))
    <3>1. calculateScore(scored') = v
      BY <2>5, <2>8, <2>10
    <3>2. calculateScore(scored) = 0 \/ calculateScore(scored) = w
      BY <2>4, <2>7
    <3>3. v > w /\ v > 0 /\ v >= w /\ v >= 0
      BY <2>3, <2>7, <2>8
    <3>4. calculateScore(scored') > calculateScore(scored)
      BY <3>1, <3>2, <3>3, Zenon
    <3>5. calculateScore(scored') >= calculateScore(scored)
      BY <3>1, <3>2, <3>3, Zenon
    <3> QED  BY <3>4, <3>5, Zenon
  <2> QED  BY <2>9, <2>10
<1>3. ASSUME Age \/ Retry
      PROVE  score(scored') <= score(scored) /\ BillingScore(scored') <= BillingScore(scored)
  BY <1>1, <1>3, OlderGrows, GrowingOlderGainsNothing
<1> QED  BY <1>2, <1>3 DEF MonotoneStep

\* Filling in metadata never costs points of the scorer that is used, and what it
\* suggests gains some; age and retries gain none with the others, for any
\* beginnings and amounts and strict or not (default-quality-scorer.ts:55).
THEOREM ScoresMonotone == QualitySpec => ScoreMonotone
<1>1. QualityInit => QualityInv
  BY QualityInvInit
<1>2. QualityInv /\ [QualityNext]_qualityVars => QualityInv'
  BY QualityInvStep
<1>3. QualityInv => [MonotoneStep]_qualityVars
  BY StepsMonotone
<1>4. QualitySpec => [][MonotoneStep]_qualityVars
  BY <1>1, <1>2, <1>3, PTL DEF QualitySpec
<1> QED  BY <1>4 DEF ScoreMonotone, MonotoneStep

-----------------------------------------------------------------------------
(* Reports: what the folds of the service add up. *)

LEMMA SumOfTotal ==
    ASSUME NEW S, IsFiniteSet(S), NEW w, Weighs(w, S)
    PROVE  SumOf(w, S) = Total(w, S)
<1> DEFINE Chosen(f) == f = [s \in SUBSET S |->
                               IF s = {} THEN 0
                               ELSE w[CHOOSE x \in s : TRUE] + f[s \ {CHOOSE x \in s : TRUE}]]
<1>1. SumOf(w, S) = (CHOOSE f : Chosen(f))[S]
  BY DEF SumOf, FoldSet, MapThenFoldSet
<1>2. \A f : Chosen(f) <=> Sums(w, S, f)
  BY DEF Sums
<1> HIDE DEF Chosen
<1>3. \E f : Chosen(f)
  BY <1>2, SumExists
<1>4. Chosen(CHOOSE f : Chosen(f))
  BY <1>3
<1>5. (CHOOSE f : Chosen(f))[S] = Total(w, S)
  BY <1>2, <1>4, SumIsTotal
<1> QED  BY <1>1, <1>5

LEMMA RecordsTotal ==
    ASSUME NEW S, IsFiniteSet(S), \A r \in S : r.count \in Nat
    PROVE  totalRecords(S) = Total([r \in S |-> r.count], S)
<1> DEFINE w == [r \in S |-> r.count]
           Chosen(f) == f = [s \in SUBSET S |->
                               IF s = {} THEN 0
                               ELSE (CHOOSE x \in s : TRUE).count + f[s \ {CHOOSE x \in s : TRUE}]]
<1>1. totalRecords(S) = (CHOOSE f : Chosen(f))[S]
  BY DEF totalRecords, FoldSet, MapThenFoldSet
<1>2. Weighs(w, S)
  BY DEF Weighs
<1>3. \A s \in SUBSET S : s # {} => w[CHOOSE x \in s : TRUE] = (CHOOSE x \in s : TRUE).count
  OBVIOUS
<1>4. \A f : Chosen(f) <=> Sums(w, S, f)
  BY <1>3 DEF Sums
<1> HIDE DEF Chosen, w
<1>5. \E f : Chosen(f)
  BY <1>2, <1>4, SumExists
<1>6. Chosen(CHOOSE f : Chosen(f))
  BY <1>5
<1>7. (CHOOSE f : Chosen(f))[S] = Total(w, S)
  BY <1>2, <1>4, <1>6, SumIsTotal
<1> QED  BY <1>1, <1>7 DEF w

\* What qualityStats adds up.
TotalScore(rows) == FoldSet(LAMBDA r, sum : r.average * r.count + sum, 0, rows)

LEMMA ScoresTotal ==
    ASSUME NEW S, IsFiniteSet(S), \A r \in S : r.average * r.count \in Nat
    PROVE  TotalScore(S) = Total([r \in S |-> r.average * r.count], S)
<1> DEFINE w == [r \in S |-> r.average * r.count]
           Chosen(f) == f = [s \in SUBSET S |->
                               IF s = {} THEN 0
                               ELSE (CHOOSE x \in s : TRUE).average * (CHOOSE x \in s : TRUE).count
                                    + f[s \ {CHOOSE x \in s : TRUE}]]
<1>1. TotalScore(S) = (CHOOSE f : Chosen(f))[S]
  BY DEF TotalScore, FoldSet, MapThenFoldSet
<1>2. Weighs(w, S)
  BY DEF Weighs
<1>3. \A s \in SUBSET S : s # {} =>
        w[CHOOSE x \in s : TRUE] = (CHOOSE x \in s : TRUE).average * (CHOOSE x \in s : TRUE).count
  OBVIOUS
<1>4. \A f : Chosen(f) <=> Sums(w, S, f)
  BY <1>3 DEF Sums
<1> HIDE DEF Chosen, w
<1>5. \E f : Chosen(f)
  BY <1>2, <1>4, SumExists
<1>6. Chosen(CHOOSE f : Chosen(f))
  BY <1>5
<1>7. (CHOOSE f : Chosen(f))[S] = Total(w, S)
  BY <1>2, <1>4, <1>6, SumIsTotal
<1> QED  BY <1>1, <1>7 DEF w

\* The scores of rows that are there.
Scores(S) == [k \in S |-> metadataTable[k].qualityScore]

LEMMA ScoresWeigh ==
    ASSUME TableTyped, NEW S \in SUBSET Present
    PROVE  /\ IsFiniteSet(S) /\ Weighs(Scores(S), S)
           /\ \A k \in S : metadataTable[k].qualityScore \in 0 .. NoScore
<1>1. IsFiniteSet(S)
  BY FS_Subset, MetadataAssumption DEF TableTyped
<1>2. \A k \in S : metadataTable[k].qualityScore \in 0 .. NoScore
  BY DEF TableTyped, Columns, NoScore
<1> QED  BY <1>1, <1>2 DEF Weighs, Scores, NoScore

\* An average is exact: times the number of its rows it is their sum.
LEMMA AverageIsExact ==
    ASSUME TableTyped, NEW S \in SUBSET Present
    PROVE  /\ Average(S) \in Nat
           /\ (S # {} /\ \A k \in S : metadataTable[k].qualityScore # NoScore) =>
                 Average(S) * Cardinality(S) = AverageParts * Total(Scores(S), S)
<1> DEFINE withScore == {k \in S : metadataTable[k].qualityScore # NoScore}
           n == Cardinality(withScore)
           part == AverageParts \div n
           sum == SumOf(Scores(withScore), withScore)
<1>1. Average(S) = IF withScore = {} THEN 0 ELSE part * sum
  BY Zenon DEF Average, Scores
<1>2. withScore \in SUBSET Present
  OBVIOUS
<1>3. ASSUME withScore # {}
      PROVE  part \in Nat /\ sum = Total(Scores(withScore), withScore) /\ sum \in Nat
             /\ n \in Nat /\ n * part = AverageParts
  <2>1. IsFiniteSet(withScore) /\ Weighs(Scores(withScore), withScore)
    BY <1>2, ScoresWeigh
  <2>2. n \in 1 .. Cardinality(MetadataKeys)
    <3>1. withScore \subseteq MetadataKeys
      BY DEF TableTyped
    <3>2. n <= Cardinality(MetadataKeys) /\ n \in Nat /\ Cardinality(MetadataKeys) \in Nat
      BY <2>1, <3>1, FS_Subset, FS_CardinalityType, MetadataAssumption
    <3>3. n # 0
      BY <1>3, <2>1, FS_EmptySet
    <3> QED  BY <3>2, <3>3
  <2>3. n * part = AverageParts
    BY <2>2, ReportAssumption
  <2>4. part \in Nat
    <3> HIDE DEF n
    <3> QED  BY <2>2, ReportAssumption
  <2>5. sum = Total(Scores(withScore), withScore) /\ sum \in Nat
    BY <2>1, SumOfTotal, TotalAdds
  <2> QED  BY <2>2, <2>3, <2>4, <2>5
<1>4. Average(S) \in Nat
  <2> HIDE DEF withScore, part, sum
  <2> QED  BY <1>1, <1>3
<1>5. ASSUME S # {}, \A k \in S : metadataTable[k].qualityScore # NoScore
      PROVE  Average(S) * Cardinality(S) = AverageParts * Total(Scores(S), S)
  <2>1. withScore = S
    BY <1>5
  <2>2. Average(S) = part * sum /\ sum = Total(Scores(S), S) /\ n = Cardinality(S)
    BY <1>1, <1>3, <1>5, <2>1
  <2>3. PICK p \in Nat, m \in Nat, u \in Nat : p = part /\ m = n /\ u = sum
    BY <1>3, <1>5, <2>1
  <2>4. (p * u) * m = (m * p) * u
    OBVIOUS
  <2>5. m * p = AverageParts
    BY <1>3, <1>5, <2>1, <2>3
  <2> HIDE DEF withScore, n, part, sum
  <2> QED  BY <2>2, <2>3, <2>4, <2>5
<1> QED  BY <1>4, <1>5

Group(config, d) == {k \in buildWhereConditions(config) : Dimension(config, k) = d}

LEMMA RowsAreGroups ==
    ASSUME TableTyped, NEW config \in AnalyticsReportConfig,
           NEW S, S = buildWhereConditions(config), NEW R, R = ReportRows(config),
           NEW part, part = [r \in R |-> Group(config, r.dimension)]
    PROVE  /\ S \in SUBSET Present /\ S \in SUBSET MetadataKeys
           /\ IsFiniteSet(S) /\ IsFiniteSet(R)
           /\ Groups(part, R, S) /\ UNION {part[r] : r \in R} = S
           /\ \A r \in R :
                /\ part[r] # {}
                /\ r \in [dimension : {Null, "c"} \cup {k.aggregateType : k \in MetadataKeys},
                          count : Nat, average : Nat]
                /\ config.count # Null => r.count = Cardinality(part[r])
                /\ config.average # Null => r.average = Average(part[r])
<1> DEFINE Dims == {Dimension(config, k) : k \in S}
           Row(d) == [dimension |-> d,
                      count |-> IF config.count = Null THEN 0 ELSE Cardinality(Group(config, d)),
                      average |-> IF config.average = Null THEN 0 ELSE Average(Group(config, d))]
<1>1. S \in SUBSET Present /\ S \in SUBSET MetadataKeys
  BY DEF buildWhereConditions, TableTyped
<1>2. IsFiniteSet(S)
  BY <1>1, ScoresWeigh
<1>3. R = {Row(d) : d \in Dims}
  BY DEF ReportRows, Group
<1>4. \A k \in S : Dimension(config, k) \in Dims /\ Row(Dimension(config, k)) \in R
  BY <1>3
<1>5. IsFiniteSet(R)
  <2> DEFINE f == [k \in S |-> Row(Dimension(config, k))]
  <2>1. \A r \in R : \E k \in S : f[k] = r
    BY <1>3
  <2>2. f \in [S -> R]
    BY <1>4
  <2> HIDE DEF f, Row, Dims
  <2>3. f \in Surjection(S, R)
    BY <2>1, <2>2 DEF Surjection
  <2> QED  BY <1>2, <2>3, FS_Surjection
<1>6. \A d : Group(config, d) \in SUBSET S
  BY DEF Group
<1>7. \A d \in Dims : Group(config, d) # {}
  BY DEF Group
<1>8. ASSUME NEW d \in Dims
      PROVE  Row(d) \in [dimension : {Null, "c"} \cup {k.aggregateType : k \in MetadataKeys},
                         count : Nat, average : Nat]
  <2>1. Group(config, d) \in SUBSET Present
    BY <1>1, <1>6
  <2>2. IsFiniteSet(Group(config, d))
    BY <2>1, ScoresWeigh
  <2>3. Cardinality(Group(config, d)) \in Nat /\ Average(Group(config, d)) \in Nat
    BY <2>1, <2>2, AverageIsExact, FS_CardinalityType
  <2>4. d \in {Null, "c"} \cup {k.aggregateType : k \in MetadataKeys}
    <3>1. PICK k \in S : d = Dimension(config, k)
      OBVIOUS
    <3>2. metadataTable[k].category \in {Null, "c"} /\ k \in MetadataKeys
      BY <1>1 DEF TableTyped, Columns
    <3> QED  BY <3>1, <3>2 DEF Dimension
  <2> QED  BY <2>3, <2>4
<1>9. \A d \in Dims : part[Row(d)] = Group(config, d) /\ Row(d).dimension = d
  BY <1>3
<1>10. UNION {part[r] : r \in R} = S
  <2>1. \A k \in S : k \in part[Row(Dimension(config, k))] /\ Row(Dimension(config, k)) \in R
    <3>1. \A k \in S : k \in Group(config, Dimension(config, k))
      BY DEF Group
    <3> HIDE DEF Row, Dims
    <3> QED  BY <1>4, <1>9, <3>1
  <2>2. \A r \in R : part[r] \subseteq S
    BY <1>6
  <2> HIDE DEF Row, Dims
  <2> QED  BY <2>1, <2>2
<1>11. Groups(part, R, S)
  <2>1. \A r \in R : part[r] \in SUBSET S
    BY <1>6
  <2>2. \A d, e : d # e => Group(config, d) \cap Group(config, e) = {}
    BY DEF Group
  <2>3. ASSUME NEW r \in R, NEW q \in R, r # q PROVE part[r] \cap part[q] = {}
    <3>1. PICK d \in Dims, e \in Dims : r = Row(d) /\ q = Row(e)
      BY <1>3
    <3>2. d # e
      BY <2>3, <3>1
    <3> HIDE DEF Row, Dims
    <3> QED  BY <1>9, <2>2, <3>1, <3>2
  <2> QED  BY <2>1, <2>3 DEF Groups
<1>12. ASSUME NEW r \in R
       PROVE  /\ part[r] # {}
              /\ r \in [dimension : {Null, "c"} \cup {k.aggregateType : k \in MetadataKeys},
                        count : Nat, average : Nat]
              /\ config.count # Null => r.count = Cardinality(part[r])
              /\ config.average # Null => r.average = Average(part[r])
  <2>1. PICK d \in Dims : r = Row(d)
    BY <1>3
  <2>2. part[r] = Group(config, d)
    BY <1>9, <2>1
  <2>3. /\ config.count # Null => r.count = Cardinality(Group(config, d))
        /\ config.average # Null => r.average = Average(Group(config, d))
    BY <2>1
  <2> HIDE DEF Row, Dims
  <2> QED  BY <1>7, <1>8, <2>1, <2>2, <2>3
<1> HIDE DEF Row, Dims
<1> QED  BY <1>1, <1>2, <1>5, <1>10, <1>11, <1>12

\* Every row is counted once.
LEMMA RowsCountedOnce ==
    ASSUME TableTyped, NEW config \in AnalyticsReportConfig, config.count # Null
    PROVE  totalRecords(ReportRows(config)) = Cardinality(buildWhereConditions(config))
<1> DEFINE S == buildWhereConditions(config)
           R == ReportRows(config)
           part == [r \in R |-> Group(config, r.dimension)]
           w == [k \in S |-> 1]
           v == [r \in R |-> r.count]
<1>1. /\ IsFiniteSet(S) /\ IsFiniteSet(R) /\ Groups(part, R, S) /\ UNION {part[r] : r \in R} = S
      /\ \A r \in R : r.count \in Nat /\ r.count = Cardinality(part[r])
  BY RowsAreGroups
<1> HIDE DEF S, R, part
<1>2. Weighs(w, S)
  BY DEF Weighs
<1>3. ASSUME NEW r \in R PROVE v[r] = Total(w, part[r])
  <2>1. part[r] \in SUBSET S
    BY <1>1 DEF Groups
  <2>2. IsFiniteSet(part[r]) /\ \A k \in part[r] : w[k] = 1
    BY <1>1, <2>1, FS_Subset
  <2> HIDE DEF w
  <2>3. Total(w, part[r]) = Cardinality(part[r])
    BY <2>2, TotalOfOnes
  <2> QED  BY <1>1, <2>3
<1>4. Total(w, S) = Cardinality(S)
  <2>1. \A k \in S : w[k] = 1
    OBVIOUS
  <2> HIDE DEF w
  <2> QED  BY <1>1, <2>1, TotalOfOnes
<1>5. totalRecords(R) = Total(v, R)
  BY <1>1, RecordsTotal
<1> HIDE DEF v, w
<1>6. Total(v, R) = Total(w, S)
  BY <1>1, <1>2, <1>3, TotalByGroups
<1> QED  BY <1>4, <1>5, <1>6 DEF S, R

\* The total of the scores is theirs, whatever groups they were averaged over.
LEMMA ScoresAddUp ==
    ASSUME TableTyped, NEW config \in AnalyticsReportConfig,
           config.count = "count", config.average # Null,
           \A k \in buildWhereConditions(config) : metadataTable[k].qualityScore # NoScore
    PROVE  TotalScore(ReportRows(config)) =
             AverageParts * Total(Scores(buildWhereConditions(config)), buildWhereConditions(config))
<1> DEFINE S == buildWhereConditions(config)
           R == ReportRows(config)
           part == [r \in R |-> Group(config, r.dimension)]
           w == Scores(S)
           u == [k \in S |-> AverageParts * w[k]]
           v == [r \in R |-> r.average * r.count]
<1>0. config.count # Null
  BY DEF Null
<1>1. /\ S \in SUBSET Present /\ IsFiniteSet(S) /\ IsFiniteSet(R)
      /\ Groups(part, R, S) /\ UNION {part[r] : r \in R} = S
      /\ \A r \in R : part[r] # {} /\ r.count \in Nat /\ r.average \in Nat
      /\ \A r \in R : r.count = Cardinality(part[r]) /\ r.average = Average(part[r])
  BY <1>0, RowsAreGroups
<1>2. \A k \in S : metadataTable[k].qualityScore # NoScore
  OBVIOUS
<1> HIDE DEF S, R, part
<1>3. Weighs(w, S) /\ AverageParts \in Nat
  BY <1>1, ScoresWeigh, ReportAssumption
<1>4. Weighs(u, S)
  BY <1>3 DEF Weighs
<1>5. ASSUME NEW r \in R PROVE v[r] = Total(u, part[r])
  <2> DEFINE s == part[r]
             x == [k \in s |-> AverageParts * Scores(s)[k]]
  <2>1. s \in SUBSET S /\ s \in SUBSET Present /\ s # {}
    BY <1>1 DEF Groups
  <2> HIDE DEF s
  <2>2. Average(s) * Cardinality(s) = AverageParts * Total(Scores(s), s)
    BY <1>2, <2>1, AverageIsExact
  <2>3. IsFiniteSet(s) /\ Weighs(Scores(s), s)
    BY <2>1, ScoresWeigh
  <2>4. Total(x, s) = AverageParts * Total(Scores(s), s)
    BY <1>3, <2>3, TotalTimes
  <2>5. \A k \in s : x[k] = u[k]
    BY <2>1 DEF Scores
  <2> HIDE DEF x, u
  <2>6. Total(x, s) = Total(u, s)
    BY <2>5, TotalSame
  <2>7. v[r] = Average(s) * Cardinality(s)
    BY <1>1 DEF s
  <2> QED  BY <2>2, <2>4, <2>6, <2>7 DEF s
<1>6. TotalScore(R) = Total(v, R)
  <2>1. \A r \in R : r.average * r.count \in Nat
    BY <1>1
  <2> QED  BY <1>1, <2>1, ScoresTotal
<1>7. Total(u, S) = AverageParts * Total(w, S)
  <2> HIDE DEF w
  <2> QED  BY <1>1, <1>3, TotalTimes
<1> HIDE DEF u, v
<1>8. Total(v, R) = Total(u, S)
  BY <1>1, <1>4, <1>5, TotalByGroups
<1> QED  BY <1>6, <1>7, <1>8 DEF S, R, w

\* No row is of high and of low quality.
LEMMA HighAndLow ==
    ASSUME NEW R, IsFiniteSet(R), \A r \in R : r.count \in Nat /\ r.average \in Nat
    PROVE  LET high == totalRecords({r \in R : r.average >= AverageParts * 80})
               low == totalRecords({r \in R : r.average < AverageParts * 60})
           IN  /\ high \in Nat /\ low \in Nat /\ totalRecords(R) \in Nat
               /\ high + low <= totalRecords(R)
<1> DEFINE H == {r \in R : r.average >= AverageParts * 80}
           L == {r \in R : r.average < AverageParts * 60}
           v == [r \in R |-> r.count]
           Own(s) == [r \in s |-> r.count]
<1>1. H \cap L = {}
  <2>1. AverageParts \in Nat
    BY ReportAssumption
  <2>2. \A n \in Nat : ~(n >= AverageParts * 80 /\ n < AverageParts * 60)
    BY <2>1
  <2> QED  BY <2>2
<1>2. H \in SUBSET R /\ L \in SUBSET R /\ H \cup L \in SUBSET R
  OBVIOUS
<1> HIDE DEF H, L
<1>3. Weighs(v, R)
  BY DEF Weighs
<1>4. ASSUME NEW s \in SUBSET R PROVE totalRecords(s) = Total(v, s) /\ Total(v, s) \in Nat
  <2>1. IsFiniteSet(s) /\ \A r \in s : r.count \in Nat
    BY FS_Subset
  <2>2. totalRecords(s) = Total(Own(s), s)
    BY <2>1, RecordsTotal
  <2>3. \A r \in s : Own(s)[r] = v[r]
    OBVIOUS
  <2>4. Total(v, s) \in Nat
    BY <1>3, TotalAdds
  <2> HIDE DEF v, Own
  <2>5. Total(Own(s), s) = Total(v, s)
    BY <2>3, TotalSame
  <2> QED  BY <2>2, <2>4, <2>5
<1> HIDE DEF v
<1>5. Total(v, H \cup L) = Total(v, H) + Total(v, L)
  BY <1>1, <1>2, <1>3, TotalOfBoth
<1>6. Total(v, H \cup L) <= Total(v, R)
  BY <1>2, <1>3, TotalOfFewer
<1>7. /\ totalRecords(H) \in Nat /\ totalRecords(L) \in Nat /\ totalRecords(R) \in Nat
      /\ totalRecords(H) + totalRecords(L) <= totalRecords(R)
  BY <1>2, <1>4, <1>5, <1>6
<1> QED  BY <1>7 DEF H, L

\* What ReportsTrue says of one report.
GoodReport(r) ==
    /\ r.config.tenantId # Null => \A k \in r.source : k.tenantId = r.config.tenantId
    /\ r.config.count # Null => r.totalRecords = Cardinality(r.source)
    /\ (/\ r.config.average # Null /\ r.config.count = "count"
        /\ \A k \in r.source : r.made[k] # NoScore)
       => \A s \in r.stats :
            /\ s.number
            /\ s.totalScore = AverageParts * SumOf(r.made, r.source)
            /\ s.highQualityCount + s.lowQualityCount <= r.totalRecords

LEMMA ResultIsGood ==
    ASSUME TableTyped, NEW config \in AnalyticsReportConfig, NEW r, r = Result(config)
    PROVE  r \in Results /\ r.config = config /\ GoodReport(r)
<1> DEFINE S == buildWhereConditions(config)
           R == ReportRows(config)
           made == [k \in MetadataKeys |->
                       IF k \in S THEN metadataTable[k].qualityScore ELSE NoScore]
           high == totalRecords({q \in R : q.average >= AverageParts * 80})
           low == totalRecords({q \in R : q.average < AverageParts * 60})
           stats == [number |-> config.count = "count" \/ R = {}, totalScore |-> TotalScore(R),
                     highQualityCount |-> high, lowQualityCount |-> low]
           shown == IF config.type = "QUALITY" THEN {stats} ELSE {}
<1>1. r = [config |-> config, rows |-> R, totalRecords |-> totalRecords(R), stats |-> shown,
           source |-> S, made |-> made]
  BY DEF Result, qualityStats, TotalScore
<1>2. /\ S \in SUBSET Present /\ S \in SUBSET MetadataKeys /\ IsFiniteSet(S) /\ IsFiniteSet(R)
      /\ R \subseteq [dimension : {Null, "c"} \cup {k.aggregateType : k \in MetadataKeys},
                      count : Nat, average : Nat]
  <2> DEFINE part == [q \in R |-> Group(config, q.dimension)]
             RowSet == [dimension : {Null, "c"} \cup {k.aggregateType : k \in MetadataKeys},
                        count : Nat, average : Nat]
  <2> HIDE DEF part, S, R, RowSet
  <2>1. S = buildWhereConditions(config) /\ R = ReportRows(config)
    BY DEF S, R
  <2>2. part = [q \in R |-> Group(config, q.dimension)]
    BY DEF part
  <2>3. /\ S \in SUBSET Present /\ S \in SUBSET MetadataKeys /\ IsFiniteSet(S) /\ IsFiniteSet(R)
        /\ \A q \in R : q \in RowSet
    BY <2>1, <2>2, RowsAreGroups DEF RowSet
  <2> QED  BY <2>3 DEF RowSet
<1>3. \A q \in R : q.count \in Nat /\ q.average \in Nat
  BY <1>2
<1>4. \A k \in S : metadataTable[k].qualityScore \in 0 .. NoScore
  BY <1>2, ScoresWeigh
<1>5. made \in [MetadataKeys -> 0 .. NoScore] /\ \A k \in S : made[k] = Scores(S)[k]
  BY <1>2, <1>4 DEF NoScore, Scores
<1> HIDE DEF made
<1>6. high \in Nat /\ low \in Nat /\ totalRecords(R) \in Nat /\ high + low <= totalRecords(R)
  <2> HIDE DEF R
  <2> QED  BY <1>2, <1>3, HighAndLow
<1>7. TotalScore(R) \in Nat
  <2> DEFINE v == [q \in R |-> q.average * q.count]
  <2>1. \A q \in R : q.average * q.count \in Nat
    BY <1>3
  <2>2. TotalScore(R) = Total(v, R)
    BY <1>2, <2>1, ScoresTotal
  <2>3. Weighs(v, R)
    BY <2>1 DEF Weighs
  <2> HIDE DEF v, R
  <2> QED  BY <1>2, <2>2, <2>3, TotalAdds
<1>8. \A k \in S : config.tenantId \in {Null, k.tenantId}
  BY DEF buildWhereConditions
<1>9. config.count # Null => totalRecords(R) = Cardinality(S)
  BY RowsCountedOnce
<1>10. ASSUME config.average # Null, config.count = "count", \A k \in S : made[k] # NoScore
       PROVE  TotalScore(R) = AverageParts * SumOf(made, S)
  <2>1. \A k \in S : metadataTable[k].qualityScore # NoScore
    BY <1>5, <1>10 DEF Scores
  <2>2. TotalScore(R) = AverageParts * Total(Scores(S), S)
    BY <1>10, <2>1, ScoresAddUp
  <2>3. Total(made, S) = Total(Scores(S), S)
    BY <1>5, TotalSame
  <2>4. Weighs(made, S)
    BY <1>2, <1>5 DEF Weighs, NoScore
  <2>5. SumOf(made, S) = Total(made, S)
    BY <1>2, <2>4, SumOfTotal
  <2> QED  BY <2>2, <2>3, <2>5
<1>11. stats \in [number : BOOLEAN, totalScore : Nat, highQualityCount : Nat, lowQualityCount : Nat]
  <2> HIDE DEF high, low, R
  <2> QED  BY <1>6, <1>7
<1>12. /\ stats.totalScore = TotalScore(R) /\ stats.highQualityCount = high
       /\ stats.lowQualityCount = low /\ (config.count = "count" => stats.number)
  <2> HIDE DEF high, low, R
  <2> QED  OBVIOUS
<1> HIDE DEF S, R, high, low, stats
<1>13. shown \subseteq {stats}
  OBVIOUS
<1> HIDE DEF shown
<1>14. r \in Results
  BY <1>1, <1>2, <1>5, <1>6, <1>11, <1>13 DEF Results
<1>15. /\ r.config = config /\ r.source = S /\ r.made = made /\ r.stats \subseteq {stats}
       /\ r.totalRecords = totalRecords(R)
  BY <1>1, <1>13
<1>16. GoodReport(r)
  <2>1. r.config.tenantId # Null => \A k \in r.source : k.tenantId = r.config.tenantId
    BY <1>8, <1>15
  <2>2. r.config.count # Null => r.totalRecords = Cardinality(r.source)
    BY <1>9, <1>15
  <2>3. ASSUME r.config.average # Null, r.config.count = "count",
               \A k \in r.source : r.made[k] # NoScore, NEW s \in r.stats
        PROVE  /\ s.number
               /\ s.totalScore = AverageParts * SumOf(r.made, r.source)
               /\ s.highQualityCount + s.lowQualityCount <= r.totalRecords
    <3>0. s = stats
      BY <1>15
    <3>1. s.totalScore = AverageParts * SumOf(r.made, r.source)
      BY <1>10, <1>12, <1>15, <2>3, <3>0
    <3>2. s.number
      BY <1>12, <1>15, <2>3, <3>0
    <3>3. s.highQualityCount + s.lowQualityCount <= r.totalRecords
      BY <1>6, <1>12, <1>15, <3>0
    <3> QED  BY <3>1, <3>2, <3>3
  <2> QED  BY <2>1, <2>2, <2>3 DEF GoodReport
<1> QED  BY <1>14, <1>15, <1>16

-----------------------------------------------------------------------------
(* Callers. *)

Calls == [todo : Seq(AnalyticsReportConfig), saving : SUBSET Results,
          results : Seq(Results), failed : BOOLEAN]

AllGood ==
    /\ \A c \in Callers : calls[c].saving # {} => calls[c].todo # <<>>
    /\ \A c \in Callers : \A r \in calls[c].saving : GoodReport(r)
    /\ \A c \in Callers : \A r \in ToSet(calls[c].results) : GoodReport(r)
    /\ \A id \in DOMAIN analyticsReports :
          Filed(analyticsReports[id]) = id /\ GoodReport(analyticsReports[id])

ReportsInv == TableTyped /\ ReportsTypeOK /\ AllGood

LEMMA ReportsInvInit == MetadataInit /\ ReportsInit => ReportsInv
<1> SUFFICES ASSUME MetadataInit, ReportsInit PROVE ReportsInv
  OBVIOUS
<1>1. TableTyped
  BY DEF TableTyped, MetadataInit, Present
<1>2. DOMAIN analyticsReports = {}
  BY DEF ReportsInit
<1>3. /\ DOMAIN calls = Callers
      /\ \A c \in Callers : calls[c] = [todo |-> <<>>, saving |-> {}, results |-> <<>>, failed |-> FALSE]
  BY DEF ReportsInit
<1>4. ReportsTypeOK
  <2>1. <<>> \in Seq(AnalyticsReportConfig) /\ <<>> \in Seq(Results) /\ {} \in SUBSET Results
    OBVIOUS
  <2>2. \A c \in Callers :
          calls[c] \in [todo : Seq(AnalyticsReportConfig), saving : SUBSET Results,
                       results : Seq(Results), failed : BOOLEAN]
    <3> DEFINE idle == [todo |-> <<>>, saving |-> {}, results |-> <<>>, failed |-> FALSE]
    <3>1. idle \in [todo : Seq(AnalyticsReportConfig), saving : SUBSET Results,
                    results : Seq(Results), failed : BOOLEAN]
      <4> DEFINE configs == Seq(AnalyticsReportConfig)
                 results == Seq(Results)
                 saving == SUBSET Results
      <4>1. <<>> \in configs /\ <<>> \in results /\ {} \in saving
        BY <2>1
      <4> HIDE DEF configs, results, saving
      <4> QED  BY <4>1 DEF configs, results, saving
    <3>2. \A c \in Callers : calls[c] = idle
      BY <1>3
    <3> HIDE DEF idle
    <3> QED  BY <3>1, <3>2
  <2>3. DOMAIN analyticsReports \subseteq (MetadataTenants \cup {"system"}) \X (ReportIds \cup AnalyticsReportType)
    BY <1>2
  <2>4. \A id \in DOMAIN analyticsReports : analyticsReports[id] \in Results
    BY <1>2
  <2> QED  BY <1>3, <2>2, <2>3, <2>4 DEF ReportsTypeOK
<1>5. \A c \in Callers : ToSet(calls[c].results) = {}
  BY <1>3 DEF ToSet
<1>6. AllGood
  BY <1>2, <1>3, <1>5 DEF AllGood
<1> QED  BY <1>1, <1>4, <1>6 DEF ReportsInv

\* A caller's new state.
LEMMA CallerChanges ==
    ASSUME ReportsTypeOK, NEW c \in Callers, NEW call \in Calls, Does(c, call),
           call.saving # {} => call.todo # <<>>, \A r \in call.saving : GoodReport(r),
           \A r \in ToSet(call.results) : GoodReport(r), AllGood
    PROVE  /\ DOMAIN calls' = Callers /\ \A b \in Callers : calls'[b] \in Calls
           /\ \A b \in Callers : calls'[b].saving # {} => calls'[b].todo # <<>>
           /\ \A b \in Callers : \A r \in calls'[b].saving : GoodReport(r)
           /\ \A b \in Callers : \A r \in ToSet(calls'[b].results) : GoodReport(r)
<1>1. DOMAIN calls = Callers /\ \A b \in Callers : calls[b] \in Calls
  BY DEF ReportsTypeOK, Calls
<1>2. DOMAIN calls' = Callers /\ calls'[c] = call /\ \A b \in Callers \ {c} : calls'[b] = calls[b]
  BY <1>1 DEF Does
<1>3. \A b \in Callers : calls'[b] \in Calls
  BY <1>1, <1>2
<1>4. \A b \in Callers : \A r \in calls'[b].saving : GoodReport(r)
  BY <1>2 DEF AllGood
<1>5. \A b \in Callers : calls'[b].saving # {} => calls'[b].todo # <<>>
  BY <1>2 DEF AllGood
<1>6. \A b \in Callers : \A r \in ToSet(calls'[b].results) : GoodReport(r)
  BY <1>2 DEF AllGood
<1> QED  BY <1>2, <1>3, <1>4, <1>5, <1>6

LEMMA ReportsInvStep == ReportsInv /\ [ReportsNext]_<<metadataVars, reportVars>> => ReportsInv'
<1> SUFFICES ASSUME ReportsInv, [ReportsNext]_<<metadataVars, reportVars>> PROVE ReportsInv'
  OBVIOUS
<1>0. TableTyped /\ ReportsTypeOK /\ AllGood
  BY DEF ReportsInv
<1>1. \A c \in Callers : calls[c] \in Calls
  BY <1>0 DEF ReportsTypeOK, Calls
<1>2. TableTyped'
  <2>1. CASE UNCHANGED metadataVars
    BY <1>0, <2>1, TableStep
  <2>2. CASE \E k \in MetadataKeys :
               (\E row \in MetadataRows : ImportRow(k, row)) \/ SoftDelete(k)
    <3>1. MetadataNext
      BY <2>2 DEF MetadataNext
    <3> QED  BY <1>0, <3>1, TableStep
  <2> QED  BY <2>1, <2>2 DEF ReportsNext, GenerateReports, GenerateReport, SaveReportResult
<1>3. ASSUME UNCHANGED reportVars PROVE ReportsTypeOK' /\ AllGood'
  <2>1. calls' = calls /\ analyticsReports' = analyticsReports
    BY <1>3 DEF reportVars
  <2> QED  BY <1>0, <2>1 DEF ReportsTypeOK, AllGood, Filed
<1>4. ASSUME NEW c \in Callers, NEW call \in Calls, Does(c, call), UNCHANGED analyticsReports,
             call.saving # {} => call.todo # <<>>, \A r \in call.saving : GoodReport(r),
             call.results \in {<<>>, calls[c].results}
      PROVE  ReportsTypeOK' /\ AllGood'
  <2>1. /\ DOMAIN calls' = Callers /\ \A b \in Callers : calls'[b] \in Calls
        /\ \A b \in Callers : calls'[b].saving # {} => calls'[b].todo # <<>>
        /\ \A b \in Callers : \A r \in calls'[b].saving : GoodReport(r)
        /\ \A b \in Callers : \A r \in ToSet(calls'[b].results) : GoodReport(r)
    <3>1. \A r \in ToSet(call.results) : GoodReport(r)
      <4>1. ToSet(<<>>) = {}
        BY DEF ToSet
      <4> QED  BY <1>0, <1>4, <4>1 DEF AllGood
    <3> QED  BY <1>0, <1>4, <3>1, CallerChanges
  <2>2. ReportsTypeOK'
    BY <1>0, <1>4, <2>1 DEF ReportsTypeOK, Calls
  <2>3. AllGood'
    BY <1>0, <1>4, <2>1 DEF AllGood, Filed
  <2> QED  BY <2>2, <2>3
<1>5. ASSUME NEW c \in Callers, NEW configs \in ReportBatches, GenerateReports(c, configs)
      PROVE  ReportsTypeOK' /\ AllGood'
  <2> DEFINE call == [calls[c] EXCEPT !.todo = configs]
  <2>1. call \in Calls /\ call.saving = calls[c].saving /\ call.results = calls[c].results
    BY <1>1, ReportAssumption DEF Calls
  <2>2. Does(c, call) /\ UNCHANGED analyticsReports
    BY <1>5 DEF GenerateReports
  <2>3. calls[c].saving = {}
    BY <1>0, <1>5 DEF AllGood, GenerateReports
  <2> HIDE DEF call
  <2> QED  BY <1>0, <1>4, <2>1, <2>2, <2>3
<1>6. ASSUME NEW c \in Callers, GenerateReport(c) PROVE ReportsTypeOK' /\ AllGood'
  <2> DEFINE config == Head(calls[c].todo)
  <2>1. config \in AnalyticsReportConfig
    BY <1>1, <1>6 DEF GenerateReport, Calls
  <2> HIDE DEF config
  <2> DEFINE r == Result(config)
             call == [calls[c] EXCEPT !.saving = {r}]
             stop == [calls[c] EXCEPT !.todo = <<>>, !.results = <<>>, !.failed = TRUE]
  <2>2. r \in Results /\ GoodReport(r)
    BY <1>0, <2>1, ResultIsGood
  <2> HIDE DEF r
  <2>3. call \in Calls /\ call.saving = {r} /\ call.results = calls[c].results /\ call.todo # <<>>
    BY <1>1, <1>6, <2>2 DEF Calls, GenerateReport
  <2>4. stop \in Calls /\ stop.saving = calls[c].saving /\ stop.results = <<>>
    <3> DEFINE rest == [calls[c] EXCEPT !.todo = <<>>]
               lost == [rest EXCEPT !.results = <<>>]
    <3>1. rest \in Calls /\ rest.saving = calls[c].saving
      <4>1. <<>> \in Seq(AnalyticsReportConfig) /\ calls[c] \in Calls
        BY <1>1
      <4> QED  BY <4>1 DEF Calls
    <3>2. stop = [lost EXCEPT !.failed = TRUE]
      OBVIOUS
    <3> HIDE DEF rest, stop
    <3>3. lost \in Calls /\ lost.saving = calls[c].saving /\ lost.results = <<>>
      <4>1. <<>> \in Seq(Results)
        OBVIOUS
      <4> QED  BY <3>1, <4>1 DEF Calls
    <3> HIDE DEF lost
    <3> QED  BY <3>2, <3>3 DEF Calls
  <2>5. (Does(c, call) \/ Does(c, stop)) /\ UNCHANGED analyticsReports
    BY <1>6 DEF GenerateReport, config, r
  <2> HIDE DEF call, stop
  <2>6. CASE Does(c, call)
    BY <1>4, <2>2, <2>3, <2>5, <2>6
  <2>7. CASE Does(c, stop)
    <3>1. calls[c].saving = {}
      BY <1>6 DEF GenerateReport
    <3> QED  BY <1>4, <2>4, <2>5, <2>7, <3>1
  <2> QED  BY <2>5, <2>6, <2>7
<1>7. ASSUME NEW c \in Callers, SaveReportResult(c) PROVE ReportsTypeOK' /\ AllGood'
  <2>1. PICK r \in calls[c].saving :
          /\ Does(c, [calls[c] EXCEPT !.saving = {}, !.todo = Tail(@), !.results = Append(@, r)])
          /\ \/ analyticsReports' = [id \in DOMAIN analyticsReports \cup {Filed(r)} |->
                                        IF id = Filed(r) THEN r ELSE analyticsReports[id]]
             \/ UNCHANGED analyticsReports
    BY <1>7 DEF SaveReportResult
  <2> DEFINE call == [calls[c] EXCEPT !.saving = {}, !.todo = Tail(@), !.results = Append(@, r)]
  <2>2. r \in Results /\ GoodReport(r)
    BY <1>0, <1>1 DEF Calls, AllGood
  <2>3. /\ call \in Calls /\ call.saving = {} /\ call.results = Append(calls[c].results, r)
    <3>1. /\ calls[c].results \in Seq(Results) /\ calls[c].todo \in Seq(AnalyticsReportConfig)
          /\ calls[c] \in Calls /\ calls[c].todo # <<>>
      BY <1>0, <1>1, <2>1 DEF Calls, AllGood
    <3>2. Append(calls[c].results, r) \in Seq(Results)
      BY <2>2, <3>1
    <3>3. Tail(calls[c].todo) \in Seq(AnalyticsReportConfig)
      BY <3>1
    <3> DEFINE free == [calls[c] EXCEPT !.saving = {}]
               rest == [free EXCEPT !.todo = Tail(calls[c].todo)]
    <3>4. free \in Calls /\ free.saving = {} /\ free.todo = calls[c].todo /\ free.results = calls[c].results
      BY <3>1 DEF Calls
    <3>5. call = [rest EXCEPT !.results = Append(calls[c].results, r)]
      OBVIOUS
    <3> HIDE DEF free, call
    <3>6. rest \in Calls /\ rest.saving = {} /\ rest.results = calls[c].results
      BY <3>3, <3>4 DEF Calls
    <3> HIDE DEF rest
    <3> QED  BY <3>2, <3>5, <3>6 DEF Calls
  <2> HIDE DEF call
  <2>4. /\ DOMAIN calls' = Callers /\ \A b \in Callers : calls'[b] \in Calls
        /\ \A b \in Callers : calls'[b].saving # {} => calls'[b].todo # <<>>
        /\ \A b \in Callers : \A q \in calls'[b].saving : GoodReport(q)
        /\ \A b \in Callers : \A q \in ToSet(calls'[b].results) : GoodReport(q)
    <3>1. calls[c].results \in Seq(Results)
      BY <1>1 DEF Calls
    <3>2. ToSet(call.results) = ToSet(calls[c].results) \cup {r}
      BY <2>2, <2>3, <3>1 DEF ToSet
    <3>3. \A q \in ToSet(call.results) : GoodReport(q)
      BY <1>0, <2>2, <3>2 DEF AllGood
    <3>4. Does(c, call)
      BY <2>1 DEF call
    <3> QED  BY <1>0, <2>2, <2>3, <3>3, <3>4, CallerChanges
  <2>5. Filed(r) \in (MetadataTenants \cup {"system"}) \X (ReportIds \cup AnalyticsReportType)
    <3>1. r.config.tenantId \in MetadataTenants \cup {Null} /\ r.config.id \in ReportIds \cup AnalyticsReportType
      BY <2>2 DEF Results, AnalyticsReportConfig
    <3> QED  BY <3>1 DEF Filed
  <2>6. \A id \in DOMAIN analyticsReports' :
          \/ /\ id \in DOMAIN analyticsReports
             /\ analyticsReports'[id] = analyticsReports[id]
          \/ /\ id = Filed(r)
             /\ analyticsReports'[id] = r
    <3>1. CASE UNCHANGED analyticsReports
      BY <3>1
    <3>2. CASE analyticsReports' = [id \in DOMAIN analyticsReports \cup {Filed(r)} |->
                                      IF id = Filed(r) THEN r ELSE analyticsReports[id]]
      BY <3>2
    <3> QED  BY <2>1, <3>1, <3>2
  <2>7. ReportsTypeOK'
    BY <1>0, <2>2, <2>4, <2>5, <2>6 DEF ReportsTypeOK, Calls
  <2>8. AllGood'
    BY <1>0, <2>2, <2>4, <2>6 DEF AllGood, Filed
  <2> QED  BY <2>7, <2>8
<1>8. ReportsTypeOK' /\ AllGood'
  BY <1>3, <1>5, <1>6, <1>7 DEF ReportsNext
<1> QED  BY <1>2, <1>8 DEF ReportsInv

\* Types of the callers, their reports and what is saved of them
\* (analytics-report.service.ts:51).
THEOREM ReportTypeCorrect == ReportsSpec => []ReportsTypeOK
<1>1. ReportsInv => ReportsTypeOK
  BY DEF ReportsInv
<1> QED  BY <1>1, ReportsInvInit, ReportsInvStep, PTL DEF ReportsSpec

\* A report, given to its caller or saved, is of its tenant's rows and counts
\* each of them once, and the average of a quality report is theirs whatever
\* groups it was taken over; what is saved is filed under its tenant
\* (analytics-report.service.ts:262).
THEOREM ReportsAlwaysTrue == ReportsSpec => []ReportsTrue
<1>1. ReportsInv => ReportsTrue
  <2> SUFFICES ASSUME AllGood PROVE ReportsTrue
    BY DEF ReportsInv
  <2>1. \A r \in Made : GoodReport(r)
    BY DEF AllGood, Made
  <2>2. \A id \in DOMAIN analyticsReports : Filed(analyticsReports[id]) = id
    BY DEF AllGood
  <2> QED  BY <2>1, <2>2 DEF GoodReport, ReportsTrue
<1> QED  BY <1>1, ReportsInvInit, ReportsInvStep, PTL DEF ReportsSpec
=============================================================================

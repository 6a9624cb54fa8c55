-------------------------- MODULE WriteSide_proofs --------------------------
(***************************************************************************)
(* Proofs about WriteSide, for every set of commands and streams, every    *)
(* MaxEvents.                                                              *)
(***************************************************************************)
EXTENDS WriteSide, FiniteSetTheorems, TLAPS

\* The tables hold what the commands have written, and nothing else.
Attribution ==
    /\ \A r \in rows : r \in RowsOf(r.by)
    /\ \A m \in outbox : m \in MessagesOf(m.by)
    /\ \A c \in Commands : RowsOf(c) \subseteq rows /\ MessagesOf(c) \subseteq outbox

OneRowPerVersion ==
    \A q, r \in rows : q.stream = r.stream /\ q.version = r.version => q = r

Segments == \A s \in Streams : \E n \in Nat : VersionsOf(s) = 1 .. n

\* How far a command has come, by where it is.
Counters ==
    \A c \in Commands :
        /\ base[c] <= version[c] /\ version[c] <= base[c] + events[c]
        /\ sent[c] <= events[c]
        /\ pc[c] = "idle" => version[c] = 0 /\ sent[c] = 0 /\ base[c] = 0
        /\ pc[c] # "idle" => events[c] > 0
        /\ pc[c] = "decided" => version[c] = base[c]
        /\ pc[c] \in {"publishing", "done"} => version[c] = base[c] + events[c]
        /\ pc[c] = "done" => sent[c] = events[c]
        /\ sent[c] > 0 => version[c] = base[c] + events[c]

\* What an aggregate was rebuilt from stays in the store.
Known == \A c \in Commands : 1 .. base[c] \subseteq VersionsOf(target[c])

\* The inductive invariant.
IInv ==
    /\ TypeOK
    /\ Attribution
    /\ OneRowPerVersion
    /\ Segments
    /\ Counters
    /\ Known

-----------------------------------------------------------------------------
(* Operators. *)

LEMMA VersionsMember ==
    ASSUME NEW A, NEW s, NEW v
    PROVE  v \in VersionsIn(A, s) <=> \E r \in A : r.stream = s /\ r.version = v
BY DEF VersionsIn

LEMMA VersionsMonotone ==
    ASSUME NEW A, NEW B, A \subseteq B, NEW s
    PROVE  VersionsIn(A, s) \subseteq VersionsIn(B, s)
BY VersionsMember

LEMMA VersionsUnion ==
    ASSUME NEW A, NEW B, NEW s
    PROVE  VersionsIn(A \cup B, s) = VersionsIn(A, s) \cup VersionsIn(B, s)
BY VersionsMember

LEMMA VersionsOne ==
    ASSUME NEW t, NEW v, NEW c, NEW s
    PROVE  VersionsIn({[stream |-> t, version |-> v, by |-> c]}, s)
             = IF s = t THEN {v} ELSE {}
<1> DEFINE row == [stream |-> t, version |-> v, by |-> c]
<1>1. row.stream = t /\ row.version = v
  OBVIOUS
<1>2. \A u : u \in VersionsIn({row}, s) <=> s = t /\ u = v
  <2> HIDE DEF row
  <2> QED  BY <1>1, VersionsMember
<1> QED  BY <1>2

LEMMA VersionsOfCommand ==
    ASSUME NEW c, NEW s
    PROVE  VersionsIn(RowsOf(c), s)
             = IF s = target[c] THEN base[c] + 1 .. version[c] ELSE {}
<1>1. \A u : u \in VersionsIn(RowsOf(c), s)
                <=> s = target[c] /\ u \in base[c] + 1 .. version[c]
  <2>1. TAKE u
  <2>2. ASSUME u \in VersionsIn(RowsOf(c), s)
        PROVE  s = target[c] /\ u \in base[c] + 1 .. version[c]
    <3>1. PICK r \in RowsOf(c) : r.stream = s /\ r.version = u
      BY <2>2, VersionsMember
    <3>2. PICK v \in base[c] + 1 .. version[c] :
                 r = [stream |-> target[c], version |-> v, by |-> c]
      BY <3>1 DEF RowsOf
    <3> QED  BY <3>1, <3>2
  <2>3. ASSUME s = target[c], u \in base[c] + 1 .. version[c]
        PROVE  u \in VersionsIn(RowsOf(c), s)
    <3>1. [stream |-> target[c], version |-> u, by |-> c] \in RowsOf(c)
      BY <2>3 DEF RowsOf
    <3> QED  BY <3>1, <2>3, VersionsMember
  <2> QED  BY <2>2, <2>3
<1> QED  BY <1>1

\* The maximum of an initial segment of the naturals.
LEMMA MaxOfSegment ==
    ASSUME NEW n \in Nat
    PROVE  Max((1 .. n) \cup {0}) = n
<1>1. (1 .. n) \cup {0} = 0 .. n
  OBVIOUS
<1>2. n \in 0 .. n /\ \A y \in 0 .. n : n >= y
  OBVIOUS
<1>3. \A x \in 0 .. n : (\A y \in 0 .. n : x >= y) => x = n
  <2>1. SUFFICES ASSUME NEW x \in 0 .. n, \A y \in 0 .. n : x >= y
                 PROVE  x = n
    OBVIOUS
  <2>2. x >= n
    BY <2>1, <1>2
  <2> QED  BY <2>2
<1> QED  BY <1>1, <1>2, <1>3, Zenon DEF Max

LEMMA CardinalityOfSegment ==
    ASSUME NEW n \in Nat
    PROVE  Cardinality(1 .. n) = n
BY FS_Interval

\* On a stream without gaps both ways of asking for its version agree.
LEMMA CurrentVersionOfSegment ==
    ASSUME NEW s, NEW n \in Nat, VersionsOf(s) = 1 .. n
    PROVE  CurrentVersion(s) = n /\ Cardinality(VersionsOf(s)) = n
BY MaxOfSegment, CardinalityOfSegment DEF CurrentVersion

-----------------------------------------------------------------------------
(* The inductive invariant. *)

LEMMA Initially == Init => IInv
<1> SUFFICES ASSUME Init PROVE IInv
  OBVIOUS
<1>1. TypeOK
  BY MaxEventsAssumption DEF Init, TypeOK, Active
<1>2. \A c \in Commands : RowsOf(c) = {} /\ MessagesOf(c) = {}
  BY DEF Init, RowsOf, MessagesOf
<1>3. \A s : VersionsOf(s) = {}
  BY DEF Init, VersionsOf, VersionsIn
<1>4. Segments
  <2>1. 1 .. 0 = {}
    OBVIOUS
  <2> QED  BY <2>1, <1>3 DEF Segments
<1>5. Counters /\ Known
  BY <1>3 DEF Init, Counters, Known
<1> QED
  BY <1>1, <1>2, <1>4, <1>5 DEF Init, IInv, Attribution, OneRowPerVersion

\* A command starts from a new or a loaded aggregate.
LEMMA DecideStep ==
    ASSUME IInv, NEW c \in Commands, NEW n \in 1 .. MaxEvents,
           NEW loaded \in Nat, 1 .. loaded \subseteq VersionsOf(target[c]),
           Decide(c, n, loaded)
    PROVE  IInv'
<1> USE DEF IInv
<1>1. /\ pc[c] = "idle" /\ version[c] = 0 /\ sent[c] = 0 /\ base[c] = 0
      /\ pc' = [pc EXCEPT ![c] = "decided"]
      /\ base' = [base EXCEPT ![c] = loaded]
      /\ version' = [version EXCEPT ![c] = loaded]
      /\ events' = [events EXCEPT ![c] = n]
      /\ rows' = rows /\ outbox' = outbox /\ target' = target /\ sent' = sent
      /\ described' = described
  BY DEF Decide, Counters
<1>2. TypeOK'
  BY <1>1, MaxEventsAssumption DEF TypeOK, Active
<1>3. \A s : VersionsOf(s)' = VersionsOf(s)
  BY <1>1 DEF VersionsOf
<1>4. \A d \in Commands : RowsOf(d)' = RowsOf(d) /\ MessagesOf(d)' = MessagesOf(d)
  <2>1. TAKE d \in Commands
  <2>2. CASE d = c
    <3>1. base[c] + 1 .. version[c] = {} /\ base'[c] + 1 .. version'[c] = {}
      BY <1>1, TypeOK DEF TypeOK
    <3> QED  BY <2>2, <3>1, <1>1 DEF RowsOf, MessagesOf
  <2>3. CASE d # c
    BY <2>3, <1>1 DEF RowsOf, MessagesOf, TypeOK
  <2> QED  BY <2>2, <2>3
<1>5. Attribution'
  BY <1>1, <1>4 DEF Attribution, TypeOK, Row, Message
<1>6. Segments' /\ OneRowPerVersion'
  BY <1>1, <1>3 DEF Segments, OneRowPerVersion
<1>7. Counters'
  BY <1>1 DEF Counters, TypeOK
<1>8. Known'
  BY <1>1, <1>3 DEF Known, TypeOK
<1> QED  BY <1>2, <1>5, <1>6, <1>7, <1>8

\* A command only moves on: the version check, the end of the insert loop, a
\* refused insert, the commit and a failure.
LEMMA MoveStep ==
    ASSUME IInv, NEW c \in Commands, pc[c] \in Active,
           NEW p \in {"appending", "publishing", "done", "conflict", "failed"},
           p \in {"publishing", "done"} => version[c] = base[c] + events[c],
           p = "done" => sent[c] = events[c],
           pc' = [pc EXCEPT ![c] = p], described' \in SUBSET Streams,
           UNCHANGED <<rows, outbox, target, base, events, version, sent>>
    PROVE  IInv'
<1> USE DEF IInv
<1>1. TypeOK'
  BY DEF TypeOK, Active
<1>2. \A s : VersionsOf(s)' = VersionsOf(s)
  BY DEF VersionsOf
<1>3. \A d \in Commands : RowsOf(d)' = RowsOf(d) /\ MessagesOf(d)' = MessagesOf(d)
  BY DEF RowsOf, MessagesOf
<1>4. Attribution'
  BY <1>3 DEF Attribution, TypeOK, Row, Message
<1>5. Segments' /\ OneRowPerVersion' /\ Known'
  BY <1>2 DEF Segments, OneRowPerVersion, Known
<1>6. Counters'
  BY DEF Counters, TypeOK, Active
<1> QED  BY <1>1, <1>4, <1>5, <1>6

\* A command that inserts its next row finds its stream exactly as long as
\* what it has read and inserted itself.
LEMMA InsertFinds ==
    ASSUME IInv, NEW c \in Commands, Insert(c)
    PROVE  VersionsOf(target[c]) = 1 .. version[c]
<1> USE DEF IInv
<1> DEFINE s == target[c]
<1>0. /\ s \in Streams /\ base[c] \in Nat /\ version[c] \in Nat
      /\ base[c] <= version[c] /\ version[c] + 1 \notin VersionsOf(s)
  BY DEF TypeOK, Counters, Insert
<1>1. PICK n \in Nat : VersionsOf(s) = 1 .. n
  BY <1>0 DEF Segments
<1>2. base[c] + 1 .. version[c] \subseteq 1 .. n
  <2>1. VersionsIn(RowsOf(c), s) \subseteq VersionsOf(s)
    BY VersionsMonotone DEF VersionsOf, Attribution
  <2>2. VersionsIn(RowsOf(c), s) = base[c] + 1 .. version[c]
    BY VersionsOfCommand
  <2> QED  BY <2>1, <2>2, <1>1
<1>3. 1 .. base[c] \subseteq 1 .. n
  BY <1>1 DEF Known
<1>4. version[c] <= n
  <2>1. CASE version[c] = 0
    BY <2>1
  <2>2. CASE version[c] > 0
    <3>1. version[c] \in 1 .. base[c] \/ version[c] \in base[c] + 1 .. version[c]
      BY <2>2, <1>0
    <3> QED  BY <3>1, <1>2, <1>3
  <2> QED  BY <2>1, <2>2, <1>0
<1>5. version[c] + 1 \notin 1 .. n
  BY <1>0, <1>1
<1>6. version[c] = n
  BY <1>4, <1>5, <1>0
<1> QED  BY <1>6, <1>1

\* One insert of appendToStream.
LEMMA InsertStep ==
    ASSUME IInv, NEW c \in Commands, Insert(c)
    PROVE  IInv'
<1> USE DEF IInv
<1> DEFINE s == target[c]
           next == version[c] + 1
           row == [stream |-> s, version |-> next, by |-> c]
<1>0. /\ s \in Streams /\ base[c] \in Nat /\ version[c] \in Nat /\ next \in Nat
      /\ base[c] <= version[c] /\ pc[c] = "appending"
      /\ version[c] < base[c] + events[c]
  BY DEF TypeOK, Counters, Insert
<1>1. /\ version' = [version EXCEPT ![c] = next]
      /\ rows' = rows \cup {row}
      /\ outbox' = outbox /\ pc' = pc /\ target' = target /\ base' = base
      /\ events' = events /\ sent' = sent /\ described' = described
  BY DEF Insert, command
<1>2. TypeOK'
  BY <1>0, <1>1 DEF TypeOK, Row
<1>3. \A d \in Commands : /\ MessagesOf(d)' = MessagesOf(d)
                          /\ d # c => RowsOf(d)' = RowsOf(d)
  BY <1>1 DEF MessagesOf, RowsOf, TypeOK
<1>4. RowsOf(c)' = RowsOf(c) \cup {row}
  <2>1. base[c] + 1 .. next = (base[c] + 1 .. version[c]) \cup {next}
    BY <1>0
  <2>2. version'[c] = next
    BY <1>1 DEF TypeOK
  <2>3. RowsOf(c)' = { [stream |-> s, version |-> v, by |-> c] : v \in base[c] + 1 .. next }
    BY <1>1, <2>2 DEF RowsOf
  <2> QED  BY <2>1, <2>3 DEF RowsOf
<1>5. Attribution'
  <2>1. \A r \in rows' : r \in RowsOf(r.by)'
    <3>1. TAKE r \in rows'
    <3>2. CASE r \in rows
      BY <3>2, <1>3, <1>4 DEF Attribution, TypeOK, Row
    <3>3. CASE r \notin rows
      <4>1. r = row /\ row.by = c
        BY <3>3, <3>1, <1>1
      <4> QED  BY <4>1, <1>4
    <3> QED  BY <3>2, <3>3
  <2>2. \A m \in outbox' : m \in MessagesOf(m.by)'
    BY <1>1, <1>3 DEF Attribution, TypeOK, Message
  <2>3. \A d \in Commands : RowsOf(d)' \subseteq rows' /\ MessagesOf(d)' \subseteq outbox'
    <3>1. TAKE d \in Commands
    <3>2. RowsOf(d) \subseteq rows /\ MessagesOf(d)' \subseteq outbox'
      BY <1>1, <1>3 DEF Attribution
    <3>3. CASE d # c
      BY <3>2, <3>3, <1>1, <1>3
    <3>4. CASE d = c
      BY <3>2, <3>4, <1>1, <1>4
    <3> QED  BY <3>3, <3>4
  <2> QED  BY <2>1, <2>2, <2>3 DEF Attribution
<1>6. \A t : VersionsOf(t)' = VersionsOf(t) \cup IF t = s THEN {next} ELSE {}
  <2>1. TAKE t
  <2>2. VersionsIn({row}, t) = IF t = s THEN {next} ELSE {}
    BY VersionsOne
  <2>3. VersionsIn(rows \cup {row}, t) = VersionsIn(rows, t) \cup VersionsIn({row}, t)
    BY VersionsUnion
  <2> HIDE DEF row
  <2> QED  BY <2>2, <2>3, <1>1 DEF VersionsOf
<1>7. Segments'
  <2>1. ASSUME NEW t \in Streams
        PROVE  \E n \in Nat : VersionsOf(t)' = 1 .. n
    <3>1. PICK n \in Nat : VersionsOf(t) = 1 .. n
      BY DEF Segments
    <3>2. CASE t # s
      <4>1. VersionsOf(t)' = 1 .. n
        BY <3>1, <3>2, <1>6
      <4> QED  BY <4>1
    <3>3. CASE t = s
      <4>1. VersionsOf(t) = 1 .. version[c]
        BY <3>3, InsertFinds
      <4>2. 1 .. next = (1 .. version[c]) \cup {next}
        BY <1>0
      <4>3. VersionsOf(t)' = 1 .. next
        BY <4>1, <4>2, <3>3, <1>6
      <4> QED  BY <4>3, <1>0
    <3> QED  BY <3>2, <3>3
  <2> QED  BY <2>1 DEF Segments
<1>8. OneRowPerVersion'
  <2>1. next \notin VersionsOf(s)
    BY DEF Insert
  <2>2. \A q \in rows : ~(q.stream = s /\ q.version = next)
    BY <2>1, VersionsMember DEF VersionsOf
  <2>3. row.stream = s /\ row.version = next
    OBVIOUS
  <2> HIDE DEF row
  <2> QED  BY <2>2, <2>3, <1>1 DEF OneRowPerVersion
<1>9. Counters'
  BY <1>0, <1>1 DEF Counters, TypeOK
<1>10. Known'
  BY <1>1, <1>6 DEF Known
<1> QED  BY <1>2, <1>5, <1>7, <1>8, <1>9, <1>10

\* One append of the outbox.
LEMMA AppendOutboxStep ==
    ASSUME IInv, NEW c \in Commands, AppendOutbox(c)
    PROVE  IInv'
<1> USE DEF IInv
<1> DEFINE next == sent[c] + 1
           message == [by |-> c, n |-> next]
<1>0. /\ sent[c] \in Nat /\ next \in 1 .. events[c] /\ events[c] \in 0 .. MaxEvents
      /\ version[c] = base[c] + events[c] /\ pc[c] = "publishing"
  BY MaxEventsAssumption DEF TypeOK, Counters, AppendOutbox
<1>1. /\ sent' = [sent EXCEPT ![c] = next]
      /\ outbox' = outbox \cup {message}
      /\ rows' = rows /\ pc' = pc /\ target' = target /\ base' = base
      /\ events' = events /\ version' = version /\ described' = described
  BY DEF AppendOutbox, command
<1>2. TypeOK'
  BY <1>0, <1>1, MaxEventsAssumption DEF TypeOK, Message
<1>3. \A s : VersionsOf(s)' = VersionsOf(s)
  BY <1>1 DEF VersionsOf
<1>4. \A d \in Commands : /\ RowsOf(d)' = RowsOf(d)
                          /\ d # c => MessagesOf(d)' = MessagesOf(d)
  BY <1>1 DEF MessagesOf, RowsOf, TypeOK
<1>5. MessagesOf(c)' = MessagesOf(c) \cup {message}
  <2>1. 1 .. next = (1 .. sent[c]) \cup {next}
    BY <1>0
  <2>2. MessagesOf(c)' = { [by |-> c, n |-> i] : i \in 1 .. next }
    BY <1>1 DEF MessagesOf, TypeOK
  <2> QED  BY <2>1, <2>2 DEF MessagesOf
<1>6. Attribution'
  <2>1. \A r \in rows' : r \in RowsOf(r.by)'
    BY <1>1, <1>4 DEF Attribution, TypeOK, Row
  <2>2. \A m \in outbox' : m \in MessagesOf(m.by)'
    <3>1. TAKE m \in outbox'
    <3>2. CASE m \in outbox
      BY <3>2, <1>4, <1>5 DEF Attribution, TypeOK, Message
    <3>3. CASE m \notin outbox
      <4>1. m = message /\ message.by = c
        BY <3>1, <3>3, <1>1
      <4> QED  BY <4>1, <1>5
    <3> QED  BY <3>2, <3>3
  <2>3. \A d \in Commands : RowsOf(d)' \subseteq rows' /\ MessagesOf(d)' \subseteq outbox'
    <3>1. TAKE d \in Commands
    <3>2. RowsOf(d)' \subseteq rows' /\ MessagesOf(d) \subseteq outbox
      BY <1>1, <1>4 DEF Attribution
    <3>3. CASE d # c
      BY <3>2, <3>3, <1>1, <1>4
    <3>4. CASE d = c
      BY <3>2, <3>4, <1>1, <1>5
    <3> QED  BY <3>3, <3>4
  <2> QED  BY <2>1, <2>2, <2>3 DEF Attribution
<1>7. Segments' /\ OneRowPerVersion' /\ Known'
  BY <1>1, <1>3 DEF Segments, OneRowPerVersion, Known
<1>8. Counters'
  BY <1>0, <1>1 DEF Counters, TypeOK
<1> QED  BY <1>2, <1>6, <1>7, <1>8

LEMMA Inductive == IInv /\ [Next]_vars => IInv'
<1> SUFFICES ASSUME IInv, [Next]_vars PROVE IInv'
  OBVIOUS
<1>0. described \in SUBSET Streams /\ target \in [Commands -> Streams]
  BY DEF IInv, TypeOK
<1>1. ASSUME NEW c \in Commands, NEW n \in 1 .. MaxEvents, Create(c, n)
      PROVE  IInv'
  <2>1. 1 .. 0 \subseteq VersionsOf(target[c])
    OBVIOUS
  <2> QED  BY <1>1, <2>1, DecideStep DEF Create
<1>2. ASSUME NEW c \in Commands, NEW n \in 1 .. MaxEvents, Load(c, n)
      PROVE  IInv'
  <2>1. PICK k \in Nat : VersionsOf(target[c]) = 1 .. k
    BY DEF IInv, Segments, TypeOK
  <2>2. Cardinality(VersionsOf(target[c])) = k
    BY <2>1, CurrentVersionOfSegment
  <2> QED  BY <1>2, <2>1, <2>2, DecideStep DEF Load
<1>3. ASSUME NEW c \in Commands, CheckVersion(c) PROVE IInv'
  BY <1>0, <1>3, MoveStep DEF CheckVersion, command, Active
<1>4. ASSUME NEW c \in Commands, InsertRefused(c) PROVE IInv'
  BY <1>0, <1>4, MoveStep DEF InsertRefused, command, Active
<1>5. ASSUME NEW c \in Commands, Stored(c) PROVE IInv'
  <2>1. described' \in SUBSET Streams
    BY <1>0, <1>5 DEF Stored
  <2> QED  BY <1>5, <2>1, MoveStep DEF Stored, command, Active
<1>6. ASSUME NEW c \in Commands, Abort(c) PROVE IInv'
  BY <1>0, <1>6, MoveStep DEF Abort, command
<1>7. ASSUME NEW c \in Commands, Commit(c) PROVE IInv'
  <2>1. version[c] = base[c] + events[c]
    BY <1>7 DEF IInv, Counters, Commit
  <2> QED  BY <1>0, <1>7, <2>1, MoveStep DEF Commit, command, Active
<1>8. ASSUME UNCHANGED vars PROVE IInv'
  BY <1>8 DEF vars, IInv, TypeOK, Attribution, OneRowPerVersion, Segments, Counters,
              Known, VersionsOf, RowsOf, MessagesOf
<1> QED
  BY <1>1, <1>2, <1>3, <1>4, <1>5, <1>6, <1>7, <1>8, InsertStep, AppendOutboxStep
     DEF Next, Progress

LEMMA Invariance == Spec => []IInv
BY Initially, Inductive, PTL DEF Spec

-----------------------------------------------------------------------------
(* What follows from the invariant. *)

\* Rows of a command carry the stream it targets and a version of its batch.
LEMMA RowFacts ==
    ASSUME IInv, NEW r \in rows
    PROVE  /\ r.by \in Commands /\ r.stream = target[r.by]
           /\ r.version \in base[r.by] + 1 .. version[r.by]
           /\ r = [stream |-> target[r.by], version |-> r.version, by |-> r.by]
BY DEF IInv, Attribution, RowsOf, TypeOK, Row

LEMMA GapFreeFollows == IInv => GapFree
<1> SUFFICES ASSUME IInv, NEW r \in rows
             PROVE  /\ \A v \in 1 .. r.version : v \in VersionsOf(r.stream)
                    /\ \A q \in rows :
                         q.stream = r.stream /\ q.version = r.version => q = r
  BY DEF GapFree
<1>1. r.stream \in Streams /\ r.version \in Nat
  BY DEF IInv, TypeOK, Row
<1>2. PICK n \in Nat : VersionsOf(r.stream) = 1 .. n
  BY <1>1 DEF IInv, Segments
<1>3. r.version \in VersionsOf(r.stream)
  BY VersionsMember DEF VersionsOf
<1>4. 1 .. r.version \subseteq 1 .. n
  BY <1>1, <1>2, <1>3
<1> QED  BY <1>2, <1>4 DEF IInv, OneRowPerVersion

LEMMA AnnouncedIsStoredFollows == IInv => AnnouncedIsStored
<1> SUFFICES ASSUME IInv, NEW m \in outbox
             PROVE  \E r \in rows : /\ r.by = m.by /\ r.stream = target[m.by]
                                    /\ r.version = base[m.by] + m.n
  BY DEF AnnouncedIsStored
<1> DEFINE c == m.by
           row == [stream |-> target[c], version |-> base[c] + m.n, by |-> c]
<1>1. /\ c \in Commands /\ base[c] \in Nat /\ version[c] \in Nat /\ events[c] \in Nat
      /\ sent[c] \in Nat
  BY MaxEventsAssumption DEF IInv, TypeOK, Message
<1>2. m \in MessagesOf(c) /\ RowsOf(c) \subseteq rows
  BY <1>1 DEF IInv, Attribution
<1>3. m.n \in 1 .. sent[c]
  BY <1>2 DEF MessagesOf
<1>4. sent[c] <= events[c] /\ version[c] = base[c] + events[c]
  BY <1>1, <1>3 DEF IInv, Counters
<1>5. base[c] + m.n \in base[c] + 1 .. version[c]
  BY <1>1, <1>3, <1>4
<1>6. row \in rows
  BY <1>2, <1>5 DEF RowsOf
<1>7. row.by = c /\ row.stream = target[c] /\ row.version = base[c] + m.n
  OBVIOUS
<1> QED  BY <1>6, <1>7

LEMMA SerializedFollows == IInv => Serialized
<1> SUFFICES ASSUME IInv, NEW c \in Commands, pc[c] = "done"
             PROVE  /\ 1 .. base[c] + events[c] \subseteq VersionsOf(target[c])
                    /\ \A r \in rows :
                         r.stream = target[c] /\ r.version \in 1 .. base[c] + events[c] =>
                           (r.by = c <=> r.version > base[c])
  BY DEF Serialized
<1>1. /\ base[c] \in Nat /\ version[c] = base[c] + events[c] /\ RowsOf(c) \subseteq rows
      /\ version[c] \in Nat /\ target[c] \in Streams /\ events[c] \in Nat
  BY MaxEventsAssumption DEF IInv, TypeOK, Counters, Attribution
<1>2. \A v \in base[c] + 1 .. version[c] :
        \E r \in rows : r.stream = target[c] /\ r.version = v /\ r.by = c
  <2>1. TAKE v \in base[c] + 1 .. version[c]
  <2> DEFINE row == [stream |-> target[c], version |-> v, by |-> c]
  <2>2. row \in rows
    BY <1>1 DEF RowsOf
  <2>3. row.stream = target[c] /\ row.version = v /\ row.by = c
    OBVIOUS
  <2> HIDE DEF row
  <2> QED  BY <2>2, <2>3
<1>3. 1 .. base[c] + events[c] \subseteq VersionsOf(target[c])
  <2>1. base[c] + 1 .. version[c] \subseteq VersionsOf(target[c])
    BY <1>2, VersionsMember DEF VersionsOf
  <2>2. 1 .. base[c] \subseteq VersionsOf(target[c])
    BY DEF IInv, Known
  <2>3. 1 .. base[c] + events[c] = (1 .. base[c]) \cup (base[c] + 1 .. version[c])
    BY <1>1
  <2> QED  BY <2>1, <2>2, <2>3
<1>4. ASSUME NEW r \in rows, r.stream = target[c], r.version \in 1 .. base[c] + events[c]
      PROVE  r.by = c <=> r.version > base[c]
  <2>1. r.by = c => r.version > base[c]
    BY RowFacts, <1>1
  <2>2. ASSUME r.version > base[c] PROVE r.by = c
    <3>1. r.version \in base[c] + 1 .. version[c]
      BY <2>2, <1>4, <1>1
    <3>2. PICK q \in rows : q.stream = target[c] /\ q.version = r.version /\ q.by = c
      BY <1>2, <3>1
    <3> QED  BY <3>2, <1>4 DEF IInv, OneRowPerVersion
  <2> QED  BY <2>1, <2>2
<1> QED  BY <1>3, <1>4

\* The messages of a command come after its last event.
LEMMA OutboxFollowsStoreFollows == IInv => OutboxFollowsStore
<1> SUFFICES ASSUME IInv PROVE OutboxFollowsStore
  OBVIOUS
<1>1. ASSUME NEW c \in Commands, NEW m \in outbox, m.by = c, NEW i \in 1 .. events[c]
      PROVE  [stream |-> target[c], version |-> base[c] + i, by |-> c] \in rows
  <2>1. base[c] \in Nat /\ events[c] \in Nat /\ sent[c] \in Nat
    BY MaxEventsAssumption DEF IInv, TypeOK
  <2>2. m \in MessagesOf(c)
    BY <1>1 DEF IInv, Attribution
  <2>3. sent[c] > 0
    BY <2>1, <2>2 DEF MessagesOf
  <2>4. base[c] + i \in base[c] + 1 .. version[c]
    BY <2>1, <2>3 DEF IInv, Counters
  <2> QED  BY <2>4 DEF IInv, Attribution, RowsOf
<1>2. ASSUME NEW c \in Commands, pc[c] = "done", NEW i \in 1 .. events[c]
      PROVE  [by |-> c, n |-> i] \in outbox
  BY <1>2 DEF IInv, Counters, Attribution, MessagesOf
<1> QED  BY <1>1, <1>2, AnnouncedIsStoredFollows DEF OutboxFollowsStore

\* Rows are only added, each behind the rows of its stream.
LEMMA AppendOnlyStep ==
    ASSUME IInv, [Next]_vars
    PROVE  /\ rows \subseteq rows'
           /\ \A r \in rows' \ rows, q \in rows :
                q.stream = r.stream => q.version < r.version
<1> DEFINE Behind == \A r \in rows' \ rows, q \in rows :
                       q.stream = r.stream => q.version < r.version
<1>1. CASE rows' = rows
  BY <1>1
<1>2. ASSUME NEW c \in Commands, Insert(c) PROVE rows \subseteq rows' /\ Behind
  <2> DEFINE row == [stream |-> target[c], version |-> version[c] + 1, by |-> c]
  <2>1. rows' = rows \cup {row}
    BY <1>2 DEF Insert
  <2>2. VersionsOf(target[c]) = 1 .. version[c]
    BY <1>2, InsertFinds
  <2>3. \A q \in rows : q.stream = target[c] => q.version \in 1 .. version[c]
    BY <2>2, VersionsMember DEF VersionsOf
  <2>4. version[c] \in Nat
    BY DEF IInv, TypeOK
  <2>5. row.stream = target[c] /\ row.version = version[c] + 1
    OBVIOUS
  <2> HIDE DEF row
  <2> QED  BY <2>1, <2>3, <2>4, <2>5
<1> QED
  BY <1>1, <1>2 DEF Next, Progress, Create, Load, Decide, CheckVersion,
     InsertRefused, Stored, AppendOutbox, Commit, Abort, vars

\* A conflict is reported only when another command's row is in the way, and
\* that row stays there.
LEMMA OvertakenStep ==
    ASSUME IInv, ConflictMeansOvertaken, [Next]_vars
    PROVE  ConflictMeansOvertaken'
<1> DEFINE Overtaken(c, r) == r.stream = target[c] /\ r.version > version[c] /\ r.by # c
<1>1. rows \subseteq rows'
  BY AppendOnlyStep
<1>2. ASSUME NEW c \in Commands, NEW v \in VersionsOf(target[c]), v > version[c]
      PROVE  \E r \in rows : Overtaken(c, r)
  <2>1. PICK r \in rows : r.stream = target[c] /\ r.version = v
    BY VersionsMember DEF VersionsOf
  <2>2. r.version \in base[r.by] + 1 .. version[r.by]
    BY RowFacts
  <2>3. version[c] \in Nat /\ v \in Nat
    BY <2>1 DEF IInv, TypeOK, Row
  <2>4. r.by # c
    BY <2>1, <2>2, <2>3, <1>2
  <2> QED  BY <2>1, <2>4, <1>2
<1>3. ASSUME NEW c \in Commands, CheckVersion(c), pc'[c] = "conflict"
      PROVE  \E r \in rows : Overtaken(c, r)
  <2>1. PICK n \in Nat : VersionsOf(target[c]) = 1 .. n
    BY DEF IInv, Segments, TypeOK
  <2>2. pc[c] = "decided" /\ n # base[c]
    BY <1>3, <2>1, CurrentVersionOfSegment DEF CheckVersion, IInv, TypeOK
  <2>3. base[c] \in Nat /\ 1 .. base[c] \subseteq 1 .. n /\ version[c] = base[c]
    BY <2>1, <2>2 DEF IInv, TypeOK, Known, Counters
  <2>4. base[c] <= n
    <3>1. CASE base[c] = 0
      BY <3>1
    <3>2. CASE base[c] > 0
      <4>1. base[c] \in 1 .. base[c]
        BY <3>2, <2>3
      <4> QED  BY <4>1, <2>3
    <3> QED  BY <3>1, <3>2, <2>3
  <2>5. n > version[c] /\ n \in VersionsOf(target[c])
    BY <2>1, <2>2, <2>3, <2>4
  <2> QED  BY <1>2, <2>5
<1>4. ASSUME NEW c \in Commands, InsertRefused(c)
      PROVE  \E r \in rows : Overtaken(c, r)
  <2>1. version[c] + 1 > version[c]
    BY DEF IInv, TypeOK
  <2> QED  BY <1>2, <1>4, <2>1 DEF InsertRefused
<1>5. ASSUME NEW c \in Commands, pc'[c] = "conflict"
      PROVE  pc[c] = "conflict" \/ \E r \in rows : Overtaken(c, r)
  BY <1>3, <1>4, <1>5 DEF Next, Progress, Create, Load, Decide, CheckVersion, Insert,
     InsertRefused, Stored, AppendOutbox, Commit, Abort, vars, IInv, TypeOK
<1>6. \A c \in Commands : pc'[c] = "conflict" => version'[c] = version[c]
  BY DEF Next, Progress, Create, Load, Decide, CheckVersion, Insert,
     InsertRefused, Stored, AppendOutbox, Commit, Abort, vars, command, IInv, TypeOK
<1>7. target' = target
  BY DEF Next, Progress, Create, Load, Decide, CheckVersion, Insert,
     InsertRefused, Stored, AppendOutbox, Commit, Abort, vars, command
<1> QED
  BY <1>1, <1>5, <1>6, <1>7 DEF ConflictMeansOvertaken

-----------------------------------------------------------------------------
(* Theorems. *)

\* The variables keep their types: in particular no command sends more
\* messages than it has events.
THEOREM TypeCorrect == Spec => []TypeOK
BY Invariance, PTL DEF IInv

\* Every stream is 1 .. n, each version stored once, for any number of racing,
\* refused and half-finished commands.
THEOREM StreamsGapFree == Spec => []GapFree
BY Invariance, GapFreeFollows, PTL

\* No command that succeeds has overwritten or interleaved with another one.
THEOREM UpdatesSerialized == Spec => []Serialized
BY Invariance, SerializedFollows, PTL

\* The event behind a message is in the store before the message is.
THEOREM MessagesFollowEvents == Spec => []AnnouncedIsStored
BY Invariance, AnnouncedIsStoredFollows, PTL

\* A conflict names a real loser: someone else extended the stream.
THEOREM ConflictsAreReal == Spec => []ConflictMeansOvertaken
<1>1. Init => ConflictMeansOvertaken
  BY DEF Init, ConflictMeansOvertaken
<1> QED  BY <1>1, Invariance, OvertakenStep, PTL DEF Spec

\* The event store only grows, and at the end of each stream.
THEOREM StoreAppendOnly == Spec => AppendOnly
<1>1. IInv /\ [Next]_vars =>
        [ /\ rows \subseteq rows'
          /\ \A r \in rows' \ rows, q \in rows :
               q.stream = r.stream => q.version < r.version ]_vars
  BY AppendOnlyStep
<1> QED  BY <1>1, Invariance, PTL DEF Spec, AppendOnly

\* A message is sent after the whole batch is stored, and a command that
\* succeeds has announced its whole batch.
THEOREM OutboxFollows == Spec => []OutboxFollowsStore
BY Invariance, OutboxFollowsStoreFollows, PTL

-----------------------------------------------------------------------------
(* Refinement: the write side implements EventLog. *)

Seen == [c \in Commands |-> IF pc[c] = "idle" THEN -1 ELSE base[c]]
Written == [c \in Commands |-> version[c] - base[c]]

LEMMA LogDecides ==
    ASSUME IInv, NEW c \in Commands, NEW n, NEW loaded \in Nat, Decide(c, n, loaded)
    PROVE  /\ Seen[c] = Log!NothingRead
           /\ Seen' = [Seen EXCEPT ![c] = loaded]
           /\ Written' = Written
           /\ rows' = rows /\ outbox' = outbox
<1>1. pc[c] = "idle" /\ version[c] = 0 /\ base[c] = 0
  BY DEF Decide, IInv, Counters
<1>2. \A d \in Commands : version'[d] - base'[d] = version[d] - base[d]
  BY <1>1 DEF Decide, IInv, TypeOK
<1> QED  BY <1>1, <1>2 DEF Decide, Seen, Written, IInv, TypeOK, Log!NothingRead

LEMMA LogAppends ==
    ASSUME IInv, NEW c \in Commands, Insert(c), NEW s, s = target[c]
    PROVE  Log!AppendNext(c, s)
<1>1. /\ base[c] \in Nat /\ version[c] \in Nat /\ events[c] \in 0 .. MaxEvents
      /\ pc[c] = "appending" /\ version[c] < base[c] + events[c]
      /\ base[c] <= version[c] /\ sent[c] \in Nat
  BY MaxEventsAssumption DEF IInv, TypeOK, Counters, Insert
<1>2. /\ Seen[c] = base[c] /\ Seen[c] # Log!NothingRead
      /\ Written[c] = version[c] - base[c] /\ Seen[c] + Written[c] = version[c]
  BY <1>1 DEF Seen, Written, Log!NothingRead
<1>3. Written[c] < MaxEvents
  BY <1>1, <1>2, MaxEventsAssumption
<1>4. Log!Versions(target[c]) = 1 .. version[c]
  BY InsertFinds DEF Log!Versions, VersionsOf, VersionsIn
<1>5. \A e \in rows : e.by = c => e.stream = target[c]
  BY RowFacts
<1>6. \A m \in outbox : m.by # c
  <2>1. sent[c] = 0
    BY <1>1 DEF IInv, Counters
  <2> QED  BY <2>1 DEF IInv, Attribution, MessagesOf
<1>7. Seen' = Seen /\ outbox' = outbox
  BY DEF Insert, command, Seen
<1>8. Written' = [Written EXCEPT ![c] = @ + 1]
  <2>1. version'[c] - base'[c] = (version[c] - base[c]) + 1
    BY <1>1 DEF Insert, command, IInv, TypeOK
  <2>2. \A d \in Commands : d # c => version'[d] - base'[d] = version[d] - base[d]
    BY DEF Insert, command, IInv, TypeOK
  <2> QED  BY <2>1, <2>2 DEF Written
<1>9. rows' = rows \cup {[stream |-> target[c], version |-> version[c] + 1, by |-> c]}
  BY DEF Insert
<1> HIDE DEF Seen, Written
<1> QED
  BY <1>2, <1>3, <1>4, <1>5, <1>6, <1>7, <1>8, <1>9 DEF Log!AppendNext, Seen, Written

LEMMA LogAnnounces ==
    ASSUME IInv, NEW c \in Commands, AppendOutbox(c)
    PROVE  Log!AnnounceNext(c, sent[c] + 1)
<1> DEFINE next == sent[c] + 1
<1>1. /\ sent[c] \in Nat /\ base[c] \in Nat /\ events[c] \in Nat
      /\ sent[c] < events[c] /\ version[c] = base[c] + events[c]
  BY MaxEventsAssumption DEF IInv, TypeOK, Counters, AppendOutbox
<1>2. next <= version[c] - base[c]
  BY <1>1
<1>3. { m \in outbox : m.by = c } = { [by |-> c, n |-> i] : i \in 1 .. next - 1 }
  <2>1. next - 1 = sent[c]
    BY <1>1
  <2>2. { m \in outbox : m.by = c } = MessagesOf(c)
    BY DEF IInv, Attribution, MessagesOf
  <2> QED  BY <2>1, <2>2 DEF MessagesOf
<1>4. /\ outbox' = outbox \cup {[by |-> c, n |-> next]}
      /\ rows' = rows /\ Seen' = Seen /\ Written' = Written
  BY DEF AppendOutbox, command, Seen, Written
<1> QED  BY <1>2, <1>3, <1>4 DEF Log!AnnounceNext, Seen, Written

LEMMA LogStutters ==
    ASSUME IInv, NEW c \in Commands,
           CheckVersion(c) \/ InsertRefused(c) \/ Stored(c) \/ Commit(c) \/ Abort(c)
    PROVE  rows' = rows /\ outbox' = outbox /\ Seen' = Seen /\ Written' = Written
<1>1. rows' = rows /\ outbox' = outbox /\ base' = base /\ version' = version
  BY DEF CheckVersion, InsertRefused, Stored, Commit, Abort, command
<1>2. \A d \in Commands : pc'[d] = "idle" <=> pc[d] = "idle"
  BY DEF CheckVersion, InsertRefused, Stored, Commit, Abort, command,
     IInv, TypeOK, Active
<1> QED  BY <1>1, <1>2 DEF Seen, Written

\* Every step of the write side is one step of the log, or none.
LEMMA LogStep ==
    ASSUME IInv, [Next]_vars
    PROVE  [Log!Next]_(Log!vars)
<1>1. ASSUME NEW c \in Commands, NEW n \in 1 .. MaxEvents, Create(c, n)
      PROVE  Log!Next
  <2>1. Log!StartFresh(c)
    BY <1>1, LogDecides DEF Create, Log!StartFresh, Seen, Written
  <2> QED  BY <2>1 DEF Log!Next
<1>2. ASSUME NEW c \in Commands, NEW n \in 1 .. MaxEvents, Load(c, n)
      PROVE  Log!Next
  <2>0. target[c] \in Streams
    BY DEF IInv, TypeOK
  <2>1. PICK k \in Nat : VersionsOf(target[c]) = 1 .. k
    BY <2>0 DEF IInv, Segments
  <2>2. Cardinality(VersionsOf(target[c])) = k
    BY <2>1, CurrentVersionOfSegment
  <2>3. PICK s \in Streams : s = target[c]
    BY <2>0
  <2>4. Log!Length(s) = k
    <3>1. Log!Versions(s) = 1 .. k
      BY <2>1, <2>3 DEF Log!Versions, VersionsOf, VersionsIn
    <3>2. k \in (1 .. k) \cup {0}
      OBVIOUS
    <3>3. \A i \in (1 .. k) \cup {0} : 1 .. i = 1 .. k => i = k
      <4>1. ASSUME NEW i \in (1 .. k) \cup {0}, 1 .. i = 1 .. k PROVE i = k
        <5>1. i \in Nat /\ i + 1 \notin 1 .. k /\ k + 1 \notin 1 .. i
          BY <4>1
        <5> QED  BY <5>1
      <4> QED  BY <4>1
    <3> QED  BY <3>1, <3>2, <3>3 DEF Log!Length
  <2>5. Log!ReadAll(c, s)
    BY <1>2, <2>2, <2>4, LogDecides DEF Load, Log!ReadAll, Seen, Written
  <2> QED  BY <2>5 DEF Log!Next
<1>3. ASSUME NEW c \in Commands, Insert(c) PROVE Log!Next
  <2>1. target[c] \in Streams
    BY DEF IInv, TypeOK
  <2>2. PICK s \in Streams : s = target[c]
    BY <2>1
  <2>3. Log!AppendNext(c, s)
    BY <1>3, <2>2, LogAppends
  <2> QED  BY <2>3 DEF Log!Next
<1>4. ASSUME NEW c \in Commands, AppendOutbox(c) PROVE Log!Next
  <2>1. sent[c] + 1 \in 1 .. MaxEvents
    BY <1>4, MaxEventsAssumption DEF IInv, TypeOK, AppendOutbox
  <2> QED  BY <1>4, <2>1, LogAnnounces DEF Log!Next
<1>5. ASSUME NEW c \in Commands,
             CheckVersion(c) \/ InsertRefused(c) \/ Stored(c) \/ Commit(c) \/ Abort(c)
      PROVE  UNCHANGED Log!vars
  BY <1>5, LogStutters DEF Log!vars, Seen, Written
<1>6. ASSUME UNCHANGED vars PROVE UNCHANGED Log!vars
  BY <1>6 DEF vars, Log!vars
<1> QED
  BY <1>1, <1>2, <1>3, <1>4, <1>5, <1>6 DEF Next, Progress

\* Whatever interleaving the statements of the commands take and wherever they
\* fail, every command extends the log of its aggregate entry by entry behind
\* what it has read, and announces its entries afterwards, in order.
THEOREM WriteSideImplementsLog == Spec => ImplementsLog
<1>1. Init => Log!Init
  BY DEF Init, Log!Init, Log!NothingRead
<1>2. IInv /\ [Next]_vars => [Log!Next]_(Log!vars)
  BY LogStep
<1> QED  BY <1>1, <1>2, Invariance, PTL DEF Spec, ImplementsLog, Log!Spec

=============================================================================

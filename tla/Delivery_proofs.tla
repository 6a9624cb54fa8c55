-------------------------- MODULE Delivery_proofs ---------------------------
(***************************************************************************)
(* Proofs about Delivery, for every set of messages, subscribers and       *)
(* ticks, every limit and every number of faults.                          *)
(***************************************************************************)
EXTENDS Delivery, FiniteSetTheorems, TLAPS

-----------------------------------------------------------------------------
(* Types. *)

\* Failed attempts are counted from faults, whichever tick counts them.
AttemptsBounded ==
    /\ \A m \in Messages : attempts[m] <= faults
    /\ \A t \in Ticks, m \in Messages : snapshot[t][m] <= faults

Typed == TypeOK /\ AttemptsBounded

LEMMA TypedInitially == Init => Typed
BY FaultsAssumption DEF Init, Typed, TypeOK, AttemptsBounded, Phases

LEMMA OutboxStepTyped ==
    ASSUME Typed, NEW m \in Messages, AppendMessage(m) \/ BackoffElapses(m)
    PROVE  Typed'
<1>1. UNCHANGED <<attempts, tickVars, handling, readVars, faults>>
  BY DEF AppendMessage, BackoffElapses
<1>2. status' \in [Messages -> {"absent", "pending", "published"}]
  BY DEF AppendMessage, BackoffElapses, Typed, TypeOK
<1>3. due' \in [Messages -> BOOLEAN]
  BY DEF AppendMessage, BackoffElapses, Typed, TypeOK
<1> QED  BY <1>1, <1>2, <1>3 DEF tickVars, readVars, Typed, TypeOK, AttemptsBounded

LEMMA StartTickTyped ==
    ASSUME Typed, NEW t \in Ticks, StartTick(t)
    PROVE  Typed'
BY DEF StartTick, FirstOf, Due, outboxVars, readVars, Typed, TypeOK, AttemptsBounded

LEMMA PublishTyped ==
    ASSUME Typed, NEW t \in Ticks, Publish(t)
    PROVE  Typed'
BY DEF Publish, outboxVars, readVars, Phases, Typed, TypeOK, AttemptsBounded

LEMMA MarkPublishedTyped ==
    ASSUME Typed, NEW t \in Ticks, MarkPublished(t)
    PROVE  Typed'
BY DEF MarkPublished, Delivered, Nothing, readVars, Typed, TypeOK, AttemptsBounded

LEMMA MarkFailedTyped ==
    ASSUME Typed, NEW t \in Ticks, MarkFailed(t)
    PROVE  Typed'
<1>1. /\ current[t] \in Messages /\ faults \in Nat /\ faults' = faults + 1
      /\ faults < MaxFaults
  BY FaultsAssumption DEF MarkFailed, Delivered, Fault, Typed, TypeOK
<1>2. /\ snapshot[t][current[t]] \in 0 .. MaxFaults
      /\ snapshot[t][current[t]] <= faults
  BY <1>1 DEF Typed, TypeOK, AttemptsBounded
<1>3. attempts' \in [Messages -> 0 .. MaxFaults]
  BY <1>1, <1>2, FaultsAssumption DEF MarkFailed, Typed, TypeOK
<1>4. TypeOK'
  BY <1>1, <1>3, FaultsAssumption DEF MarkFailed, readVars, Nothing, Typed, TypeOK
<1>5. AttemptsBounded'
  BY <1>1, <1>2, FaultsAssumption DEF MarkFailed, Typed, TypeOK, AttemptsBounded
<1> QED  BY <1>4, <1>5 DEF Typed

LEMMA CrashTyped ==
    ASSUME Typed, NEW t \in Ticks, Crash(t)
    PROVE  Typed'
BY FaultsAssumption
   DEF Crash, Fault, outboxVars, readVars, Nothing, Phases, Typed, TypeOK, AttemptsBounded

LEMMA GotoTyped ==
    ASSUME Typed, NEW t \in Ticks, NEW s \in Subscribers, NEW p \in Phases, Goto(t, s, p)
    PROVE  handling' \in [Ticks -> [Subscribers -> Phases]]
BY DEF Goto, Typed, TypeOK

LEMMA AppliedByTyped ==
    ASSUME Typed, NEW t \in Ticks, NEW s \in Subscribers, current[t] # Nothing
    PROVE  AppliedBy(t, s) \in [Messages -> [Subscribers -> Nat]]
BY DEF AppliedBy, Typed, TypeOK

LEMMA HandleTyped ==
    ASSUME Typed, NEW t \in Ticks, NEW s \in Subscribers,
           Handle(t, s) \/ HandlerFails(t, s)
    PROVE  Typed'
<1>1. /\ handling' \in [Ticks -> [Subscribers -> Phases]]
      /\ UNCHANGED <<outboxVars, tickVars>> /\ current[t] \in Messages
      /\ faults' = faults \/ Fault
  BY GotoTyped DEF Handle, FastCheck, Recheck, Write, Mark, Commit, HandlerFails, At,
     Phases, Typed, TypeOK
<1>2. inbox' \in SUBSET Messages
  BY <1>1 DEF Handle, FastCheck, Recheck, Write, Mark, Commit, HandlerFails, readVars,
     Typed, TypeOK
<1>3. applied' \in [Messages -> [Subscribers -> Nat]]
  BY AppliedByTyped DEF Handle, FastCheck, Recheck, Write, Mark, Commit, HandlerFails,
     At, readVars, Typed, TypeOK
<1>4. faults' \in 0 .. MaxFaults /\ faults <= faults'
  BY <1>1, FaultsAssumption DEF Fault, Typed, TypeOK
<1>5. TypeOK'
  BY <1>1, <1>2, <1>3, <1>4 DEF outboxVars, tickVars, Typed, TypeOK
<1>6. AttemptsBounded'
  BY <1>1, <1>4, FaultsAssumption DEF outboxVars, tickVars, Typed, TypeOK, AttemptsBounded
<1> QED  BY <1>5, <1>6 DEF Typed

LEMMA TypedStep == Typed /\ [Next]_vars => Typed'
<1> SUFFICES ASSUME Typed, [Next]_vars PROVE Typed'
  OBVIOUS
<1>1. CASE UNCHANGED vars
  BY <1>1 DEF vars, outboxVars, tickVars, readVars, Typed, TypeOK, AttemptsBounded
<1>2. CASE Next
  BY <1>2, OutboxStepTyped, StartTickTyped, PublishTyped, MarkPublishedTyped,
     MarkFailedTyped, CrashTyped, HandleTyped DEF Next
<1> QED  BY <1>1, <1>2

LEMMA AlwaysTyped == Spec => []Typed
BY TypedInitially, TypedStep, PTL DEF Spec

\* The variables keep their types: in particular no message records more
\* failed attempts than there were faults, although overlapping ticks write
\* the counter from what they listed.
THEOREM TypeCorrect == Spec => []TypeOK
BY AlwaysTyped, PTL DEF Typed

-----------------------------------------------------------------------------
(* The handlers. *)

\* Handler steps move one handler and leave the others where they are.
LEMMA GotoFacts ==
    ASSUME Typed, NEW t \in Ticks, NEW s \in Subscribers, NEW p, Goto(t, s, p)
    PROVE  \A u \in Ticks, r \in Subscribers :
             handling'[u][r] = IF u = t /\ r = s THEN p ELSE handling[u][r]
BY DEF Goto, Typed, TypeOK

LEMMA AppliedByFacts ==
    ASSUME Typed, NEW t \in Ticks, NEW s \in Subscribers, current[t] # Nothing
    PROVE  \A m \in Messages, r \in Subscribers :
             AppliedBy(t, s)[m][r] =
               IF m = current[t] /\ r = s THEN applied[m][r] + 1 ELSE applied[m][r]
BY DEF AppliedBy, Typed, TypeOK

\* Steps of the outbox and of the publisher, and those that end a handler early.
Elsewhere ==
    \/ \E m \in Messages : AppendMessage(m) \/ BackoffElapses(m)
    \/ \E t \in Ticks : StartTick(t) \/ Publish(t) \/ MarkPublished(t) \/ MarkFailed(t)
    \/ UNCHANGED vars

BreaksOff(t) == Crash(t) \/ \E s \in Subscribers : HandlerFails(t, s)

LEMMA StepCases ==
    ASSUME [Next]_vars
    PROVE  \/ Elsewhere
           \/ \E t \in Ticks : BreaksOff(t) \/ \E s \in Subscribers : Handle(t, s)
BY DEF Next, Elsewhere, BreaksOff

LEMMA ElsewhereKeeps ==
    ASSUME Elsewhere
    PROVE  UNCHANGED readVars /\ (faults' = faults \/ Fault)
BY DEF Elsewhere, AppendMessage, BackoffElapses, StartTick, Publish, MarkPublished,
   MarkFailed, readVars, vars

LEMMA BreaksOffKeeps ==
    ASSUME NEW t \in Ticks, BreaksOff(t)
    PROVE  UNCHANGED readVars /\ Fault
BY DEF BreaksOff, Crash, HandlerFails, readVars

\* Marks and effects are never taken back.
LEMMA ReadSideGrows ==
    ASSUME Typed, [Next]_vars
    PROVE  /\ inbox \subseteq inbox'
           /\ \A m \in Messages, s \in Subscribers : applied[m][s] <= applied'[m][s]
<1>0. \A m \in Messages, s \in Subscribers : applied[m][s] \in Nat
  BY DEF Typed, TypeOK
<1>1. CASE UNCHANGED readVars
  BY <1>0, <1>1 DEF readVars
<1>2. ASSUME NEW t \in Ticks, NEW s \in Subscribers, Handle(t, s)
      PROVE  /\ inbox \subseteq inbox'
             /\ \A m \in Messages, r \in Subscribers : applied[m][r] <= applied'[m][r]
  <2>1. inbox \subseteq inbox'
    BY <1>2 DEF Handle, FastCheck, Recheck, Write, Mark, Commit, readVars
  <2>2. applied' = applied \/ (applied' = AppliedBy(t, s) /\ current[t] # Nothing)
    BY <1>2 DEF Handle, FastCheck, Recheck, Write, Mark, Commit, At, readVars
  <2> QED  BY <2>1, <2>2, <1>0, AppliedByFacts
<1> QED  BY <1>1, <1>2, StepCases, ElsewhereKeeps, BreaksOffKeeps

\* The four ways a handler of a tick that works on a message got where it is.
LEMMA HandlerStep ==
    ASSUME Typed, [Next]_vars, NEW t \in Ticks, NEW s \in Subscribers, current'[t] # Nothing
    PROVE  \/ current'[t] = current[t] /\ handling'[t][s] = handling[t][s]
           \/ handling'[t][s] = "called"
           \/ HandlerFails(t, s) /\ current'[t] = current[t] /\ handling'[t][s] = "settled"
           \/ Handle(t, s) /\ current'[t] = current[t]
<1>1. ASSUME NEW u \in Ticks, Publish(u)
      PROVE  \/ current'[t] = current[t] /\ handling'[t][s] = handling[t][s]
             \/ handling'[t][s] = "called"
  BY <1>1 DEF Publish, Typed, TypeOK
<1>2. ASSUME NEW u \in Ticks, MarkPublished(u) \/ MarkFailed(u) \/ Crash(u)
      PROVE  current'[t] = current[t] /\ handling'[t][s] = handling[t][s]
  <2>1. u # t
    BY <1>2 DEF MarkPublished, MarkFailed, Crash, Typed, TypeOK
  <2> QED  BY <1>2, <2>1 DEF MarkPublished, MarkFailed, Crash, Typed, TypeOK
<1>3. ASSUME \/ \E m \in Messages : AppendMessage(m) \/ BackoffElapses(m)
             \/ \E u \in Ticks : StartTick(u)
             \/ UNCHANGED vars
      PROVE  current'[t] = current[t] /\ handling'[t][s] = handling[t][s]
  BY <1>3 DEF AppendMessage, BackoffElapses, StartTick, tickVars, vars
<1>4. ASSUME NEW u \in Ticks, NEW r \in Subscribers, Handle(u, r) \/ HandlerFails(u, r)
      PROVE  \/ current'[t] = current[t] /\ handling'[t][s] = handling[t][s]
             \/ HandlerFails(t, s) /\ current'[t] = current[t] /\ handling'[t][s] = "settled"
             \/ Handle(t, s) /\ current'[t] = current[t]
  <2>1. current' = current
    BY <1>4 DEF Handle, FastCheck, Recheck, Write, Mark, Commit, HandlerFails, tickVars
  <2>2. PICK p : Goto(u, r, p) /\ (HandlerFails(u, r) => p = "settled")
    BY <1>4 DEF Handle, FastCheck, Recheck, Write, Mark, Commit, HandlerFails
  <2>3. CASE u # t \/ r # s
    BY <2>1, <2>2, <2>3, GotoFacts
  <2>4. CASE u = t /\ r = s
    BY <2>1, <2>2, <2>4, <1>4, GotoFacts
  <2> QED  BY <2>3, <2>4
<1> QED  BY <1>1, <1>2, <1>3, <1>4 DEF Next

\* A handler makes its mark after its write, and ends after its mark.
WritesThenMarks ==
    \A t \in Ticks, s \in Subscribers : current[t] # Nothing =>
        /\ handling[t][s] = "marked" => current[t] \in inbox
        /\ s \notin InTransaction /\ handling[t][s] \in {"written", "marked"}
             => applied[current[t]][s] > 0

LEMMA WritesThenMarksStep ==
    ASSUME Typed, WritesThenMarks, [Next]_vars
    PROVE  WritesThenMarks'
<1> DEFINE Ok(t, s) ==
             /\ handling[t][s] = "marked" => current[t] \in inbox
             /\ s \notin InTransaction /\ handling[t][s] \in {"written", "marked"}
                  => applied[current[t]][s] > 0
<1> SUFFICES ASSUME NEW t \in Ticks, NEW s \in Subscribers, current'[t] # Nothing
             PROVE  Ok(t, s)'
  BY DEF WritesThenMarks
<1>0. /\ inbox \subseteq inbox'
      /\ \A m \in Messages : /\ applied[m][s] \in Nat /\ applied'[m][s] \in Nat
                             /\ applied[m][s] <= applied'[m][s]
  BY ReadSideGrows, TypedStep DEF Typed, TypeOK
<1>1. CASE current'[t] = current[t] /\ handling'[t][s] = handling[t][s]
  <2>1. current[t] \in Messages /\ Ok(t, s)
    BY <1>1 DEF WritesThenMarks, Typed, TypeOK
  <2>2. applied[current[t]][s] > 0 => applied'[current[t]][s] > 0
    BY <2>1, <1>0
  <2> QED  BY <1>0, <1>1, <2>1, <2>2
<1>2. CASE handling'[t][s] \in {"called", "settled", "open", "checked"}
  BY <1>2
<1>3. CASE Handle(t, s) /\ current'[t] = current[t]
  <2>0. current[t] \in Messages /\ Ok(t, s)
    BY <1>3 DEF WritesThenMarks, Typed, TypeOK
  <2>1. CASE FastCheck(t, s) \/ Recheck(t, s) \/ Commit(t, s)
    BY <2>1, <1>2, GotoFacts DEF FastCheck, Recheck, Commit
  <2>2. CASE Write(t, s)
    <3>1. handling'[t][s] = "written"
      BY <2>2, GotoFacts DEF Write
    <3>2. s \notin InTransaction => applied'[current[t]][s] = applied[current[t]][s] + 1
      BY <2>0, <2>2, <1>3, AppliedByFacts DEF Write
    <3> QED  BY <3>1, <3>2, <2>0, <1>0, <1>3
  <2>3. CASE Mark(t, s)
    BY <2>0, <2>3, <1>3 DEF Mark, At
  <2> QED  BY <1>3, <2>1, <2>2, <2>3 DEF Handle
<1> QED  BY <1>1, <1>2, <1>3, HandlerStep

LEMMA AlwaysWritesThenMarks == Spec => []WritesThenMarks
<1>1. Init => WritesThenMarks
  BY DEF Init, WritesThenMarks
<1>2. Typed /\ WritesThenMarks /\ [Next]_vars => WritesThenMarks'
  BY WritesThenMarksStep
<1> QED  BY <1>1, <1>2, AlwaysTyped, PTL DEF Spec

-----------------------------------------------------------------------------
(* How often an effect is repeated: counting the handlers that may still cause
   it. *)

\* Ticks whose handler for a subscriber is at one of some phases of a message.
AtWork(m, s, P) == { t \in Ticks : current[t] = m /\ handling[t][s] \in P }

Late == {"checked", "written", "marked"}

LEMMA AtWorkFinite ==
    ASSUME NEW m, NEW s, NEW P
    PROVE  /\ IsFiniteSet(AtWork(m, s, P)) /\ Cardinality(AtWork(m, s, P)) \in Nat
           /\ Cardinality(AtWork(m, s, P)) <= Cardinality(Ticks)
           /\ Cardinality(Ticks) \in Nat
<1>1. AtWork(m, s, P) \subseteq Ticks
  BY DEF AtWork
<1> QED  BY <1>1, TicksAssumption, FS_Subset, FS_CardinalityType

LEMMA ElsewhereAtWork ==
    ASSUME Typed, Elsewhere, NEW m \in Messages, NEW s \in Subscribers,
           NEW P \in SUBSET Late
    PROVE  AtWork(m, s, P)' = AtWork(m, s, P)
<1>0. m # Nothing
  BY MessagesAssumption DEF Nothing
<1>1. ASSUME NEW t \in Ticks, Publish(t) PROVE AtWork(m, s, P)' = AtWork(m, s, P)
  <2>1. \A u \in Ticks : u # t => current'[u] = current[u] /\ handling'[u] = handling[u]
    BY <1>1 DEF Publish, Typed, TypeOK
  <2>2. current[t] = Nothing /\ handling'[t][s] = "called"
    BY <1>1 DEF Publish, Typed, TypeOK
  <2> QED  BY <1>0, <2>1, <2>2 DEF AtWork, Late
<1>2. ASSUME NEW t \in Ticks, MarkPublished(t) \/ MarkFailed(t)
      PROVE  AtWork(m, s, P)' = AtWork(m, s, P)
  <2>1. \A u \in Ticks : u # t => current'[u] = current[u]
    BY <1>2 DEF MarkPublished, MarkFailed, Typed, TypeOK
  <2>2. current'[t] = Nothing /\ handling[t][s] = "settled" /\ handling' = handling
    BY <1>2 DEF MarkPublished, MarkFailed, Delivered, Typed, TypeOK
  <2> QED  BY <1>0, <2>1, <2>2 DEF AtWork, Late
<1>3. UNCHANGED <<current, handling>> => AtWork(m, s, P)' = AtWork(m, s, P)
  BY DEF AtWork
<1> QED
  BY <1>1, <1>2, <1>3 DEF Elsewhere, AppendMessage, BackoffElapses, StartTick, tickVars, vars

LEMMA BreaksOffAtWork ==
    ASSUME Typed, NEW t \in Ticks, BreaksOff(t), NEW m \in Messages, NEW s \in Subscribers,
           NEW P \in SUBSET Late
    PROVE  /\ AtWork(m, s, P)' \subseteq AtWork(m, s, P)
           /\ AtWork(m, s, P) \subseteq AtWork(m, s, P)' \cup {t}
<1>0. m # Nothing
  BY MessagesAssumption DEF Nothing
<1>1. CASE Crash(t)
  <2>1. \A u \in Ticks : u # t => current'[u] = current[u] /\ handling'[u] = handling[u]
    BY <1>1 DEF Crash, Typed, TypeOK
  <2>2. current'[t] = Nothing
    BY <1>1 DEF Crash, Typed, TypeOK
  <2> QED  BY <1>0, <2>1, <2>2 DEF AtWork
<1>2. ASSUME NEW r \in Subscribers, HandlerFails(t, r)
      PROVE  /\ AtWork(m, s, P)' \subseteq AtWork(m, s, P)
             /\ AtWork(m, s, P) \subseteq AtWork(m, s, P)' \cup {t}
  <2>1. /\ current' = current
        /\ \A u \in Ticks : handling'[u][s] = IF u = t /\ s = r THEN "settled" ELSE handling[u][s]
    BY <1>2, GotoFacts DEF HandlerFails, tickVars
  <2> QED  BY <2>1 DEF AtWork, Late
<1> QED  BY <1>1, <1>2 DEF BreaksOff

\* A handler that moves on changes the count of its own message and subscriber.
LEMMA HandleAtWork ==
    ASSUME Typed, NEW t \in Ticks, NEW r \in Subscribers, NEW from, NEW to,
           At(t, r, from), Goto(t, r, to), current' = current,
           NEW m \in Messages, NEW s \in Subscribers, NEW P
    PROVE  /\ m # current[t] \/ s # r \/ (from \in P <=> to \in P)
                => AtWork(m, s, P)' = AtWork(m, s, P)
           /\ m = current[t] /\ s = r /\ from \notin P /\ to \in P
                => t \notin AtWork(m, s, P) /\ AtWork(m, s, P)' = AtWork(m, s, P) \cup {t}
           /\ m = current[t] /\ s = r /\ from \in P /\ to \notin P
                => t \in AtWork(m, s, P) /\ AtWork(m, s, P)' = AtWork(m, s, P) \ {t}
<1>1. \A u \in Ticks : handling'[u][s] = IF u = t /\ s = r THEN to ELSE handling[u][s]
  BY GotoFacts
<1>2. handling[t][r] = from
  BY DEF At
<1> QED  BY <1>1, <1>2 DEF AtWork

LEMMA CountOneMore ==
    ASSUME NEW S, IsFiniteSet(S), NEW x
    PROVE  /\ x \notin S => Cardinality(S \cup {x}) = Cardinality(S) + 1
           /\ x \in S => Cardinality(S \ {x}) = Cardinality(S) - 1
BY FS_AddElement, FS_RemoveElement

LEMMA CountBrokenOff ==
    ASSUME NEW S, NEW T, IsFiniteSet(S), NEW x, T \subseteq S, S \subseteq T \cup {x}
    PROVE  /\ Cardinality(T) \in Nat /\ Cardinality(S) \in Nat
           /\ Cardinality(T) <= Cardinality(S) /\ Cardinality(S) <= Cardinality(T) + 1
<1>1. IsFiniteSet(T) /\ Cardinality(T) <= Cardinality(S)
  BY FS_Subset
<1>2. CASE S = T
  BY <1>1, <1>2, FS_CardinalityType
<1>3. CASE S # T
  <2>1. x \notin T /\ S = T \cup {x}
    BY <1>3
  <2> QED  BY <1>1, <2>1, CountOneMore, FS_CardinalityType
<1> QED  BY <1>2, <1>3

\* Until the first mark each effect belongs to a handler about to make it, or
\* to a fault; after the first mark only handlers past their check can act.
Tallied(m, s) ==
    IF s \in InTransaction
    THEN IF m \in inbox
         THEN applied[m][s] + Cardinality(AtWork(m, s, Late)) <= Cardinality(Ticks)
         ELSE applied[m][s] = 0
    ELSE IF m \in inbox
         THEN applied[m][s] + Cardinality(AtWork(m, s, {"checked"}))
                <= faults + Cardinality(Ticks)
         ELSE applied[m][s] <= faults + Cardinality(AtWork(m, s, {"written"}))

RepeatsCounted == \A m \in Messages, s \in Subscribers : Tallied(m, s)

LEMMA CountedElsewhere ==
    ASSUME Typed, RepeatsCounted, Elsewhere
    PROVE  RepeatsCounted'
<1> SUFFICES ASSUME NEW m \in Messages, NEW s \in Subscribers PROVE Tallied(m, s)'
  BY DEF RepeatsCounted
<1>1. \A P \in SUBSET Late : AtWork(m, s, P)' = AtWork(m, s, P)
  BY ElsewhereAtWork
<1>2. /\ {"checked"} \in SUBSET Late /\ {"written"} \in SUBSET Late /\ Late \in SUBSET Late
      /\ faults \in Nat /\ faults' \in Nat /\ faults <= faults' /\ applied[m][s] \in Nat
  BY ElsewhereKeeps, FaultsAssumption DEF Late, Fault, Typed, TypeOK
<1>3. applied' = applied /\ inbox' = inbox
  BY ElsewhereKeeps DEF readVars
<1>4. \A P : Cardinality(AtWork(m, s, P)) \in Nat /\ Cardinality(Ticks) \in Nat
  BY AtWorkFinite
<1>5. Tallied(m, s)
  BY DEF RepeatsCounted
<1> QED  BY <1>1, <1>2, <1>3, <1>4, <1>5 DEF Tallied

LEMMA CountedBreaksOff ==
    ASSUME Typed, RepeatsCounted, NEW t \in Ticks, BreaksOff(t)
    PROVE  RepeatsCounted'
<1> SUFFICES ASSUME NEW m \in Messages, NEW s \in Subscribers PROVE Tallied(m, s)'
  BY DEF RepeatsCounted
<1>1. ASSUME NEW P \in SUBSET Late
      PROVE  /\ Cardinality(AtWork(m, s, P)') \in Nat /\ Cardinality(AtWork(m, s, P)) \in Nat
             /\ Cardinality(AtWork(m, s, P)') <= Cardinality(AtWork(m, s, P))
             /\ Cardinality(AtWork(m, s, P)) <= Cardinality(AtWork(m, s, P)') + 1
  <2>1. /\ AtWork(m, s, P)' \subseteq AtWork(m, s, P)
        /\ AtWork(m, s, P) \subseteq AtWork(m, s, P)' \cup {t}
    BY BreaksOffAtWork
  <2>2. IsFiniteSet(AtWork(m, s, P))
    BY AtWorkFinite
  <2> QED  BY <2>1, <2>2, CountBrokenOff
<1>2. /\ {"checked"} \in SUBSET Late /\ {"written"} \in SUBSET Late /\ Late \in SUBSET Late
      /\ faults \in Nat /\ faults' = faults + 1 /\ applied[m][s] \in Nat
  BY BreaksOffKeeps, FaultsAssumption DEF Late, Fault, Typed, TypeOK
<1>3. applied' = applied /\ inbox' = inbox
  BY BreaksOffKeeps DEF readVars
<1>4. Cardinality(Ticks) \in Nat
  BY AtWorkFinite
<1>5. Tallied(m, s)
  BY DEF RepeatsCounted
<1> QED  BY <1>1, <1>2, <1>3, <1>4, <1>5 DEF Tallied

LEMMA CountedHandle ==
    ASSUME Typed, WritesThenMarks, RepeatsCounted,
           NEW t \in Ticks, NEW r \in Subscribers, Handle(t, r)
    PROVE  RepeatsCounted'
<1> SUFFICES ASSUME NEW m \in Messages, NEW s \in Subscribers PROVE Tallied(m, s)'
  BY DEF RepeatsCounted
<1>0. /\ faults \in Nat /\ applied[m][s] \in Nat /\ Cardinality(Ticks) \in Nat
      /\ \A P : IsFiniteSet(AtWork(m, s, P)) /\ Cardinality(AtWork(m, s, P)) \in Nat
      /\ Tallied(m, s)
  BY AtWorkFinite, FaultsAssumption DEF Typed, TypeOK, RepeatsCounted
<1>1. CASE FastCheck(t, r)
  <2>1. PICK p \in {"settled", "open"} : Goto(t, r, p)
    BY <1>1 DEF FastCheck
  <2>2. UNCHANGED <<current, applied, inbox, faults>> /\ At(t, r, "called")
    BY <1>1 DEF FastCheck, tickVars, readVars
  <2>3. \A P \in SUBSET Late : AtWork(m, s, P)' = AtWork(m, s, P)
    BY <2>1, <2>2, HandleAtWork DEF Late
  <2> QED  BY <1>0, <2>2, <2>3 DEF Tallied, Late
<1>2. CASE Recheck(t, r)
  <2>1. PICK p \in {"settled", "checked"} :
               Goto(t, r, p) /\ (p = "checked" => current[t] \notin inbox)
    BY <1>2 DEF Recheck, Processed
  <2>2. UNCHANGED <<current, applied, inbox, faults>> /\ At(t, r, "open")
    BY <1>2 DEF Recheck, tickVars, readVars
  <2>3. AtWork(m, s, {"written"})' = AtWork(m, s, {"written"})
    BY <2>1, <2>2, HandleAtWork
  <2>4. m \in inbox => \A P \in SUBSET Late : AtWork(m, s, P)' = AtWork(m, s, P)
    BY <2>1, <2>2, HandleAtWork DEF Late
  <2> QED  BY <1>0, <2>2, <2>3, <2>4 DEF Tallied, Late
<1>3. CASE Write(t, r)
  <2>1. /\ Goto(t, r, "written") /\ At(t, r, "checked")
        /\ UNCHANGED <<current, inbox, faults>>
    BY <1>3 DEF Write, tickVars
  <2>2. AtWork(m, s, Late)' = AtWork(m, s, Late)
    BY <2>1, HandleAtWork DEF Late
  <2>3. CASE m # current[t] \/ s # r
    <3>1. \A P : AtWork(m, s, P)' = AtWork(m, s, P)
      BY <2>1, <2>3, HandleAtWork
    <3>2. applied'[m][s] = applied[m][s]
      BY <1>3, <2>3, AppliedByFacts DEF Write, At
    <3> QED  BY <1>0, <2>1, <3>1, <3>2 DEF Tallied
  <2>4. CASE m = current[t] /\ s = r /\ s \in InTransaction
    BY <1>0, <1>3, <2>1, <2>2, <2>4 DEF Tallied, Write
  <2>5. CASE m = current[t] /\ s = r /\ s \notin InTransaction
    <3>1. applied'[m][s] = applied[m][s] + 1
      BY <1>3, <2>5, AppliedByFacts DEF Write, At
    <3>2. Cardinality(AtWork(m, s, {"checked"})') = Cardinality(AtWork(m, s, {"checked"})) - 1
      BY <2>1, <2>5, <1>0, HandleAtWork, CountOneMore
    <3>3. Cardinality(AtWork(m, s, {"written"})') = Cardinality(AtWork(m, s, {"written"})) + 1
      BY <2>1, <2>5, <1>0, HandleAtWork, CountOneMore
    <3> QED  BY <1>0, <2>1, <2>5, <3>1, <3>2, <3>3 DEF Tallied
  <2> QED  BY <2>3, <2>4, <2>5
<1>4. CASE Mark(t, r)
  <2>1. /\ Goto(t, r, "marked") /\ At(t, r, "written") /\ inbox' = inbox \cup {current[t]}
        /\ UNCHANGED <<current, applied, faults>>
    BY <1>4 DEF Mark, tickVars
  <2>2. /\ AtWork(m, s, Late)' = AtWork(m, s, Late)
        /\ AtWork(m, s, {"checked"})' = AtWork(m, s, {"checked"})
        /\ m # current[t] => AtWork(m, s, {"written"})' = AtWork(m, s, {"written"})
    BY <2>1, HandleAtWork DEF Late
  <2>3. CASE m \in inbox \/ m # current[t]
    BY <1>0, <2>1, <2>2, <2>3 DEF Tallied
  <2>4. CASE m \notin inbox /\ m = current[t]
    <3>1. Cardinality(AtWork(m, s, {"checked"})) + Cardinality(AtWork(m, s, {"written"}))
            <= Cardinality(Ticks)
      <4>1. AtWork(m, s, {"checked"}) \cap AtWork(m, s, {"written"}) = {}
        BY DEF AtWork
      <4>2. Cardinality(AtWork(m, s, {"checked"}) \cap AtWork(m, s, {"written"})) = 0
        BY <4>1, FS_EmptySet
      <4>3. AtWork(m, s, {"checked"}) \cup AtWork(m, s, {"written"}) \subseteq Ticks
        BY DEF AtWork
      <4>4. Cardinality(AtWork(m, s, {"checked"}) \cup AtWork(m, s, {"written"}))
              <= Cardinality(Ticks)
        BY <4>3, TicksAssumption, FS_Subset
      <4>5. /\ IsFiniteSet(AtWork(m, s, {"checked"})) /\ IsFiniteSet(AtWork(m, s, {"written"}))
            /\ Cardinality(AtWork(m, s, {"checked"})) \in Nat
            /\ Cardinality(AtWork(m, s, {"written"})) \in Nat
        BY AtWorkFinite
      <4>6. Cardinality(AtWork(m, s, {"checked"}) \cup AtWork(m, s, {"written"}))
              = Cardinality(AtWork(m, s, {"checked"})) + Cardinality(AtWork(m, s, {"written"}))
                - Cardinality(AtWork(m, s, {"checked"}) \cap AtWork(m, s, {"written"}))
        BY <4>5, FS_Union
      <4> QED  BY <4>2, <4>4, <4>5, <4>6
    <3>2. Cardinality(AtWork(m, s, Late)) <= Cardinality(Ticks)
      BY AtWorkFinite
    <3> QED  BY <1>0, <2>1, <2>2, <2>4, <3>1, <3>2 DEF Tallied
  <2> QED  BY <2>3, <2>4
<1>5. CASE Commit(t, r)
  <2>1. /\ Goto(t, r, "settled") /\ At(t, r, "marked")
        /\ UNCHANGED <<current, inbox, faults>> /\ current[t] \in inbox
    BY <1>5 DEF Commit, At, tickVars, WritesThenMarks
  <2>2. /\ AtWork(m, s, {"checked"})' = AtWork(m, s, {"checked"})
        /\ AtWork(m, s, {"written"})' = AtWork(m, s, {"written"})
    BY <2>1, HandleAtWork
  <2>3. CASE m # current[t] \/ s # r
    <3>1. AtWork(m, s, Late)' = AtWork(m, s, Late)
      BY <2>1, <2>3, HandleAtWork
    <3>2. applied'[m][s] = applied[m][s]
      BY <1>5, <2>3, AppliedByFacts DEF Commit, At
    <3> QED  BY <1>0, <2>1, <2>2, <3>1, <3>2 DEF Tallied
  <2>4. CASE m = current[t] /\ s = r /\ s \notin InTransaction
    BY <1>0, <1>5, <2>1, <2>2, <2>4 DEF Tallied, Commit
  <2>5. CASE m = current[t] /\ s = r /\ s \in InTransaction
    <3>1. applied'[m][s] = applied[m][s] + 1
      BY <1>5, <2>5, AppliedByFacts DEF Commit, At
    <3>2. Cardinality(AtWork(m, s, Late)') = Cardinality(AtWork(m, s, Late)) - 1
      <4>1. t \in AtWork(m, s, Late) /\ AtWork(m, s, Late)' = AtWork(m, s, Late) \ {t}
        BY <2>1, <2>5, HandleAtWork DEF Late
      <4> QED  BY <4>1, <1>0, CountOneMore
    <3> QED  BY <1>0, <2>1, <2>5, <3>1, <3>2 DEF Tallied
  <2> QED  BY <2>3, <2>4, <2>5
<1> QED  BY <1>1, <1>2, <1>3, <1>4, <1>5 DEF Handle

LEMMA RepeatsAlwaysCounted == Spec => []RepeatsCounted
<1>1. Init => RepeatsCounted
  <2> SUFFICES ASSUME Init, NEW m \in Messages, NEW s \in Subscribers PROVE Tallied(m, s)
    BY DEF RepeatsCounted
  <2>1. Cardinality(AtWork(m, s, {"written"})) \in Nat
    BY AtWorkFinite
  <2> QED  BY <2>1 DEF Init, Tallied
<1>2. Typed /\ WritesThenMarks /\ RepeatsCounted /\ [Next]_vars => RepeatsCounted'
  BY StepCases, CountedElsewhere, CountedBreaksOff, CountedHandle
<1> QED  BY <1>1, <1>2, AlwaysTyped, AlwaysWritesThenMarks, PTL DEF Spec

\* However many ticks overlap and whatever fails, an effect is repeated only by
\* ticks that were past the check together and, if it does not wait for its unit
\* of work, by faults: the inbox stops every other redelivery.
THEOREM RepeatsBounded == Spec => []RepeatsExplained
<1>1. Typed /\ RepeatsCounted => RepeatsExplained
  <2> SUFFICES ASSUME Typed, RepeatsCounted, NEW m \in Messages, NEW s \in Subscribers
               PROVE  applied[m][s] <= Cardinality(Ticks)
                                         + IF s \in InTransaction THEN 0 ELSE faults
    BY DEF RepeatsExplained
  <2>1. /\ Tallied(m, s) /\ faults \in Nat /\ applied[m][s] \in Nat
        /\ Cardinality(Ticks) \in Nat
        /\ \A P : /\ Cardinality(AtWork(m, s, P)) \in Nat
                  /\ Cardinality(AtWork(m, s, P)) <= Cardinality(Ticks)
    BY AtWorkFinite, FaultsAssumption DEF Typed, TypeOK, RepeatsCounted
  <2> QED  BY <2>1 DEF Tallied
<1> QED  BY <1>1, AlwaysTyped, RepeatsAlwaysCounted, PTL

-----------------------------------------------------------------------------
(* Marks without an effect. *)

\* Only a step that breaks handlers off leaves a new mark in vain, the one of the
\* message its tick works on.
LEMMA VainStep ==
    ASSUME Typed, WritesThenMarks, [Next]_vars, NEW m \in MarkedInVain', m \notin MarkedInVain
    PROVE  ~Elsewhere /\ (\A t \in Ticks, s \in Subscribers : ~Handle(t, s))
           /\ \A t \in Ticks : BreaksOff(t) => m = current[t]
<1>1. m \in Messages /\ m # Nothing
  BY TypedStep, MessagesAssumption DEF MarkedInVain, Typed, TypeOK, Nothing
<1>2. /\ \A s \in Subscribers : applied'[m][s] = 0
      /\ \A t \in Ticks, s \in Subscribers : current'[t] = m => handling'[t][s] # "marked"
      /\ m \in inbox'
  BY DEF MarkedInVain
<1>3. ASSUME NEW s \in Subscribers PROVE applied[m][s] = 0
  <2>1. applied[m][s] \in Nat
    BY <1>1 DEF Typed, TypeOK
  <2>2. applied[m][s] <= applied'[m][s]
    BY <1>1, ReadSideGrows
  <2> QED  BY <1>2, <2>1, <2>2
<1>4. CASE m \notin inbox
  <2>1. UNCHANGED readVars => FALSE
    BY <1>2, <1>4 DEF readVars
  <2>2. ASSUME NEW t \in Ticks, NEW s \in Subscribers, Handle(t, s) PROVE FALSE
    <3>1. Mark(t, s) /\ m = current[t]
      BY <1>2, <1>4, <2>2 DEF readVars, Handle, FastCheck, Recheck, Write, Mark, Commit
    <3>2. current'[t] = m /\ handling'[t][s] = "marked"
      BY <3>1, GotoFacts DEF Mark, tickVars
    <3> QED  BY <1>2, <3>2
  <2> QED  BY <2>1, <2>2, StepCases, ElsewhereKeeps, BreaksOffKeeps
<1>5. CASE m \in inbox
  <2>1. PICK t \in Ticks, s \in Subscribers : current[t] = m /\ handling[t][s] = "marked"
    BY <1>1, <1>3, <1>5 DEF MarkedInVain
  <2>2. ~(current'[t] = m /\ handling'[t][s] = "marked")
    BY <1>2
  <2>3. ASSUME Elsewhere PROVE FALSE
    <3>1. AtWork(m, s, {"marked"})' = AtWork(m, s, {"marked"})
      BY <1>1, <2>3, ElsewhereAtWork DEF Late
    <3> QED  BY <2>1, <2>2, <3>1 DEF AtWork
  <2>4. ASSUME NEW u \in Ticks, BreaksOff(u) PROVE u = t
    <3>1. AtWork(m, s, {"marked"}) \subseteq AtWork(m, s, {"marked"})' \cup {u}
      BY <1>1, <2>4, BreaksOffAtWork DEF Late
    <3> QED  BY <2>1, <2>2, <3>1 DEF AtWork
  <2>5. ASSUME NEW u \in Ticks, NEW r \in Subscribers, Handle(u, r) PROVE FALSE
    <3>1. current' = current
      BY <2>5 DEF Handle, FastCheck, Recheck, Write, Mark, Commit, tickVars
    <3>2. u = t /\ r = s
      <4>1. \E p : Goto(u, r, p)
        BY <2>5 DEF Handle, FastCheck, Recheck, Write, Mark, Commit
      <4> QED  BY <4>1, <3>1, <2>1, <2>2, GotoFacts
    <3>3. Commit(t, s)
      BY <2>1, <2>5, <3>2 DEF Handle, FastCheck, Recheck, Write, Mark, At
    <3>4. CASE s \in InTransaction
      <4>1. applied'[m][s] = applied[m][s] + 1
        BY <1>1, <2>1, <3>3, <3>4, AppliedByFacts DEF Commit, At
      <4> QED  BY <4>1, <1>2, <1>3
    <3>5. CASE s \notin InTransaction
      BY <1>1, <1>3, <2>1, <3>5 DEF WritesThenMarks
    <3> QED  BY <3>4, <3>5
  <2> QED  BY <2>1, <2>3, <2>4, <2>5
<1> QED  BY <1>4, <1>5

VainCounted == IsFiniteSet(inbox) /\ Cardinality(MarkedInVain) <= faults

LEMMA VainCountedStep ==
    ASSUME Typed, WritesThenMarks, VainCounted, [Next]_vars
    PROVE  VainCounted'
<1> DEFINE V == MarkedInVain
<1>1. IsFiniteSet(inbox')
  <2>1. inbox' = inbox \/ \E x : inbox' = inbox \cup {x}
    BY StepCases, ElsewhereKeeps, BreaksOffKeeps
       DEF readVars, Handle, FastCheck, Recheck, Write, Mark, Commit
  <2> QED  BY <2>1, FS_AddElement DEF VainCounted
<1>2. IsFiniteSet(V) /\ IsFiniteSet(V') /\ Cardinality(V) \in Nat /\ Cardinality(V') \in Nat
  <2>1. V \subseteq inbox /\ V' \subseteq inbox'
    BY DEF MarkedInVain
  <2> QED  BY <1>1, <2>1, FS_Subset, FS_CardinalityType DEF VainCounted
<1>3. faults \in Nat /\ faults' \in Nat /\ faults <= faults'
  BY StepCases, ElsewhereKeeps, BreaksOffKeeps, FaultsAssumption, TypedStep
     DEF Handle, FastCheck, Recheck, Write, Mark, Commit, Fault, Typed, TypeOK
<1>4. CASE V' \subseteq V
  <2>1. Cardinality(V') <= Cardinality(V)
    BY <1>2, <1>4, FS_Subset
  <2>2. Cardinality(V') <= faults'
    BY <1>2, <1>3, <2>1 DEF VainCounted
  <2> QED  BY <1>1, <2>2 DEF VainCounted
<1>5. ASSUME NEW t \in Ticks, BreaksOff(t), ~(V' \subseteq V) PROVE VainCounted'
  <2>1. faults' = faults + 1
    BY <1>5, BreaksOffKeeps DEF Fault
  <2>2. V' \subseteq V \cup {current[t]} /\ current[t] \notin V
    BY <1>5, VainStep
  <2>3. Cardinality(V \cup {current[t]}) = Cardinality(V) + 1 /\ IsFiniteSet(V \cup {current[t]})
    BY <1>2, <2>2, FS_AddElement
  <2>4. Cardinality(V') <= Cardinality(V) + 1
    BY <2>2, <2>3, FS_Subset
  <2>5. Cardinality(V') <= faults'
    BY <1>2, <1>3, <2>1, <2>4 DEF VainCounted
  <2> QED  BY <1>1, <2>5 DEF VainCounted
<1> QED  BY <1>4, <1>5, VainStep, StepCases

\* For any subscribers that share the inbox, inside and outside their units of
\* work: what a unit of work has written is marked, and a mark without an effect
\* is the work of a fault of its own.
THEOREM MarksAndEffects == Spec => []InboxAgreesWithEffects
<1>1. Init => VainCounted
  <2> SUFFICES ASSUME Init PROVE VainCounted
    OBVIOUS
  <2>1. inbox = {} /\ MarkedInVain = {} /\ faults = 0
    BY DEF Init, MarkedInVain
  <2> QED  BY <2>1, FS_EmptySet DEF VainCounted
<1>2. Typed /\ WritesThenMarks /\ VainCounted /\ [Next]_vars => VainCounted'
  BY VainCountedStep
<1>3. Typed /\ RepeatsCounted /\ VainCounted => InboxAgreesWithEffects
  BY SubscribersAssumption DEF RepeatsCounted, Tallied, VainCounted, InboxAgreesWithEffects
<1> QED  BY <1>1, <1>2, <1>3, AlwaysTyped, AlwaysWritesThenMarks, RepeatsAlwaysCounted, PTL
         DEF Spec

-----------------------------------------------------------------------------
(* Nothing is published unprocessed when handlers do not fail. *)

\* A handler that has come to the end of its message finds it, or has put it,
\* in the inbox.
EndedIsMarked ==
    \A t \in Ticks, s \in Subscribers : current[t] # Nothing =>
        /\ handling[t][s] = "settled" => current[t] \in inbox
        /\ handling[t][s] = "marked" => current[t] \in inbox

\* In this step no handler fails.
NobodyFails == \A t \in Ticks, s \in Subscribers : ~HandlerFails(t, s)

LEMMA EndedStep ==
    ASSUME NobodyFails, Typed, EndedIsMarked, [Next]_vars
    PROVE  EndedIsMarked'
<1> DEFINE Ended(t, s) == handling[t][s] \in {"settled", "marked"} => current[t] \in inbox
<1> SUFFICES ASSUME NEW t \in Ticks, NEW s \in Subscribers, current'[t] # Nothing
             PROVE  Ended(t, s)'
  BY DEF EndedIsMarked
<1>0. inbox \subseteq inbox'
  BY ReadSideGrows
<1>1. CASE current'[t] = current[t] /\ handling'[t][s] = handling[t][s]
  BY <1>0, <1>1 DEF EndedIsMarked
<1>2. CASE handling'[t][s] = "called"
  BY <1>2
<1>3. CASE Handle(t, s) /\ current'[t] = current[t]
  <2>1. CASE FastCheck(t, s)
    BY <2>1, <1>0, <1>3, GotoFacts DEF FastCheck, Processed
  <2>2. CASE Recheck(t, s)
    BY <2>2, <1>0, <1>3, GotoFacts DEF Recheck, Processed
  <2>3. CASE Write(t, s)
    BY <2>3, GotoFacts DEF Write
  <2>4. CASE Mark(t, s)
    BY <2>4, <1>3 DEF Mark
  <2>5. CASE Commit(t, s)
    BY <2>5, <1>0, <1>3 DEF Commit, At, EndedIsMarked
  <2> QED  BY <1>3, <2>1, <2>2, <2>3, <2>4, <2>5 DEF Handle
<1> QED  BY <1>1, <1>2, <1>3, HandlerStep DEF NobodyFails

LEMMA PublishedStep ==
    ASSUME Typed, EndedIsMarked, PublishedIsProcessed, [Next]_vars
    PROVE  PublishedIsProcessed'
<1>0. inbox \subseteq inbox'
  BY ReadSideGrows
<1>1. ASSUME NEW t \in Ticks, MarkPublished(t)
      PROVE  PublishedIsProcessed'
  <2>1. current[t] \in inbox
    BY <1>1, SubscribersAssumption DEF MarkPublished, Delivered, EndedIsMarked
  <2>2. \A m \in Messages : status'[m] = "published" => status[m] = "published" \/ m = current[t]
    BY <1>1 DEF MarkPublished, Typed, TypeOK
  <2> QED  BY <1>0, <2>1, <2>2 DEF PublishedIsProcessed
<1>2. ASSUME NEW m \in Messages, AppendMessage(m)
      PROVE  PublishedIsProcessed'
  BY <1>0, <1>2 DEF AppendMessage, PublishedIsProcessed, Typed, TypeOK
<1>3. CASE status' = status
  BY <1>0, <1>3 DEF PublishedIsProcessed
<1> QED
  BY <1>1, <1>2, <1>3 DEF Next, BackoffElapses, StartTick, Publish, MarkFailed, Crash,
     Handle, FastCheck, Recheck, Write, Mark, Commit, HandlerFails, outboxVars, vars

\* When handlers do not throw, a record is published only after the inbox has
\* it, for any number of ticks and subscribers, however they write.
THEOREM PublishedProcessed ==
    ASSUME ~HandlersFail
    PROVE  Spec => []PublishedIsProcessed
<1>1. Init => EndedIsMarked /\ PublishedIsProcessed
  BY DEF Init, EndedIsMarked, PublishedIsProcessed
<1>2. Typed /\ EndedIsMarked /\ PublishedIsProcessed /\ [Next]_vars
        => (EndedIsMarked /\ PublishedIsProcessed)'
  BY EndedStep, PublishedStep DEF NobodyFails, HandlerFails
<1> QED  BY <1>1, <1>2, AlwaysTyped, PTL DEF Spec

\* What a subscriber that writes beside its unit of work has marked, it has
\* written, if it has the inbox for itself.
MarkedIsApplied == \A m \in inbox, s \in Subscribers : applied[m][s] > 0

LEMMA MarkedIsAppliedStep ==
    ASSUME InTransaction = {}, \A r, s \in Subscribers : r = s,
           Typed, WritesThenMarks, MarkedIsApplied, [Next]_vars
    PROVE  MarkedIsApplied'
<1> SUFFICES ASSUME NEW m \in inbox', NEW s \in Subscribers PROVE applied'[m][s] > 0
  BY DEF MarkedIsApplied
<1>0. /\ m \in Messages /\ applied[m][s] \in Nat /\ applied'[m][s] \in Nat
      /\ applied[m][s] <= applied'[m][s]
  BY TypedStep, ReadSideGrows DEF Typed, TypeOK
<1>1. CASE m \in inbox
  BY <1>0, <1>1 DEF MarkedIsApplied
<1>2. CASE m \notin inbox
  <2>1. PICK t \in Ticks, r \in Subscribers : Mark(t, r) /\ m = current[t]
    BY <1>2, StepCases, ElsewhereKeeps, BreaksOffKeeps
       DEF readVars, Handle, FastCheck, Recheck, Write, Mark, Commit
  <2>2. r = s
    OBVIOUS
  <2>3. applied[m][s] > 0
    BY <2>1, <2>2 DEF Mark, At, WritesThenMarks
  <2> QED  BY <1>0, <2>3
<1> QED  BY <1>1, <1>2

\* An event is not lost if its only subscriber writes beside its unit of work: it
\* is published only after it has taken effect.  Each assumption is needed: the
\* run delivery_swallowed drops the first one and delivery_starved the third, and
\* without the second a crash between mark and commit is enough.
THEOREM PublishedApplied ==
    ASSUME ~HandlersFail, InTransaction = {}, \A r, s \in Subscribers : r = s
    PROVE  Spec => []PublishedIsApplied
<1>1. Init => MarkedIsApplied
  BY DEF Init, MarkedIsApplied
<1>2. Typed /\ WritesThenMarks /\ MarkedIsApplied /\ [Next]_vars => MarkedIsApplied'
  BY MarkedIsAppliedStep
<1>3. MarkedIsApplied /\ PublishedIsProcessed => PublishedIsApplied
  BY DEF MarkedIsApplied, PublishedIsProcessed, PublishedIsApplied
<1> QED  BY <1>1, <1>2, <1>3, AlwaysTyped, AlwaysWritesThenMarks, PublishedProcessed, PTL DEF Spec

-----------------------------------------------------------------------------
(* A tick on its own works on what it has listed. *)

Fresh ==
    /\ BatchIsFresh
    /\ \A t \in Ticks : current[t] \notin batch[t]

LEMMA FreshStep ==
    ASSUME \A t, u \in Ticks : t = u, Typed, Fresh, [Next]_vars
    PROVE  Fresh'
<1> DEFINE Holds(t) == /\ \A m \in batch[t] \cup ({current[t]} \ {Nothing}) :
                            status[m] = "pending" /\ snapshot[t][m] = attempts[m]
                       /\ current[t] \notin batch[t]
<1>0. \A t \in Ticks : Holds(t)
  BY DEF Fresh, BatchIsFresh
<1> SUFFICES ASSUME NEW t \in Ticks PROVE Holds(t)'
  BY DEF Fresh, BatchIsFresh
<1>1. /\ \A m \in batch[t] : m \in Messages /\ m # Nothing
      /\ Nothing \notin Messages /\ current[t] \in Messages \cup {Nothing}
  BY MessagesAssumption DEF Typed, TypeOK, Nothing
<1>2. ASSUME NEW m \in Messages, AppendMessage(m) PROVE Holds(t)'
  <2>1. status[m] = "absent" /\ UNCHANGED <<attempts, batch, snapshot, current>>
    BY <1>2 DEF AppendMessage, tickVars
  <2>2. \A k \in Messages : k # m => status'[k] = status[k]
    BY <1>2 DEF AppendMessage, Typed, TypeOK
  <2> QED  BY <1>0, <1>1, <2>1, <2>2
<1>3. ASSUME StartTick(t) PROVE Holds(t)'
  <2>1. /\ current[t] = Nothing /\ current' = current /\ UNCHANGED <<status, attempts>>
        /\ batch'[t] = FirstOf(Due, Limit) /\ snapshot'[t] = attempts
    BY <1>3 DEF StartTick, Idle, outboxVars, Typed, TypeOK
  <2>2. \A m \in batch'[t] : m \in Messages /\ status[m] = "pending"
    BY <2>1 DEF FirstOf, Due
  <2> QED  BY <2>1, <2>2, <1>1
<1>4. ASSUME Publish(t) PROVE Holds(t)'
  <2>1. PICK m \in batch[t] : /\ current'[t] = m /\ batch'[t] = batch[t] \ {m}
                              /\ UNCHANGED <<status, attempts, snapshot>>
    BY <1>4 DEF Publish, outboxVars, Typed, TypeOK
  <2> QED  BY <2>1, <1>0
<1>5. ASSUME MarkPublished(t) PROVE Holds(t)'
  <2>1. /\ current[t] \in Messages /\ current'[t] = Nothing
        /\ UNCHANGED <<batch, attempts, snapshot>>
        /\ \A m \in Messages : m # current[t] => status'[m] = status[m]
    BY <1>5 DEF MarkPublished, Delivered, Typed, TypeOK
  <2> QED  BY <2>1, <1>0, <1>1
<1>6. ASSUME MarkFailed(t) PROVE Holds(t)'
  <2>1. /\ current[t] \in Messages /\ current'[t] = Nothing
        /\ UNCHANGED <<batch, status, snapshot>>
        /\ \A m \in Messages : m # current[t] => attempts'[m] = attempts[m]
    BY <1>6 DEF MarkFailed, Delivered, Typed, TypeOK
  <2> QED  BY <2>1, <1>0, <1>1
<1>7. ASSUME Crash(t) PROVE Holds(t)'
  BY <1>7 DEF Crash, Typed, TypeOK
<1>8. ASSUME UNCHANGED <<status, attempts, batch, snapshot, current>> PROVE Holds(t)'
  BY <1>0, <1>8
<1> QED
  BY <1>2, <1>3, <1>4, <1>5, <1>6, <1>7, <1>8
     DEF Next, BackoffElapses, Handle, FastCheck, Recheck, Write, Mark, Commit,
         HandlerFails, outboxVars, tickVars, vars

\* When one tick at a time is under way, it never handles a record that is no
\* longer pending, and it counts attempts from the stored value.
THEOREM TicksFresh ==
    ASSUME \A t, u \in Ticks : t = u
    PROVE  Spec => []BatchIsFresh
<1>1. Init => Fresh
  BY MessagesAssumption DEF Init, Fresh, BatchIsFresh, Nothing
<1>2. Typed /\ Fresh /\ [Next]_vars => Fresh'
  BY FreshStep
<1> QED  BY <1>1, <1>2, AlwaysTyped, PTL DEF Spec, Fresh

-----------------------------------------------------------------------------
(* The events of one aggregate take effect in their order. *)

\* The first n of a set are closed downwards in it.
LEMMA FirstOfIsPrefix ==
    ASSUME NEW S \in SUBSET Nat, NEW n \in Nat, NEW m \in FirstOf(S, n),
           NEW k \in S, k < m
    PROVE  k \in FirstOf(S, n)
<1> DEFINE Below(x) == { j \in S : j < x }
<1>1. \A x \in S : IsFiniteSet(Below(x)) /\ Cardinality(Below(x)) \in Nat
  <2>1. \A x \in S : IsFiniteSet(0 .. x) /\ Below(x) \subseteq 0 .. x
    <3> SUFFICES ASSUME NEW x \in S
                 PROVE  IsFiniteSet(0 .. x) /\ Below(x) \subseteq 0 .. x
      OBVIOUS
    <3>1. x \in Int /\ 0 \in Int
      OBVIOUS
    <3>2. IsFiniteSet(0 .. x)
      BY <3>1, FS_Interval
    <3>3. \A j \in Below(x) : j \in Nat /\ j < x
      OBVIOUS
    <3>4. Below(x) \subseteq 0 .. x
      <4> HIDE DEF Below
      <4> QED  BY <3>1, <3>3
    <3> QED  BY <3>2, <3>4
  <2>2. \A x \in S : IsFiniteSet(Below(x))
    BY <2>1, FS_Subset
  <2> QED  BY <2>2, FS_CardinalityType
<1>2. m \in S /\ Cardinality(Below(m)) < n
  BY DEF FirstOf
<1>3. Below(k) \subseteq Below(m)
  <2>1. k \in Nat /\ m \in Nat
    BY <1>2
  <2>2. \A j \in Nat : j < k => j < m
    BY <2>1
  <2> QED  BY <2>2
<1>4. Cardinality(Below(k)) <= Cardinality(Below(m))
  BY <1>1, <1>2, <1>3, FS_Subset
<1>5. Cardinality(Below(k)) < n
  BY <1>1, <1>2, <1>4
<1> QED  BY <1>5 DEF FirstOf

\* Messages are appended in their order, and none is skipped: what the inbox
\* does not have is still listed by the next tick.
NoneSkipped ==
    /\ \A k, m \in Messages : k < m /\ status[m] # "absent" => status[k] # "absent"
    /\ \A k \in Messages : k \notin inbox => status[k] # "published" /\ due[k]

\* A tick has in hand only what was appended.
Listed ==
    \A t \in Ticks, k \in Messages :
        k \in batch[t] \/ k = current[t] => status[k] # "absent"

\* It has the predecessors of what it listed in hand or behind it.
TicksInOrder ==
    /\ \A t \in Ticks : \A m \in batch[t], k \in Messages :
         k < m => k \in inbox \cup batch[t] \cup {current[t]}
    /\ \A t \in Ticks, k \in Messages : k < current[t] => k \in inbox

InboxInOrder == \A k, m \in Messages : k < m /\ m \in inbox => k \in inbox

QueueInOrder == NoneSkipped /\ Listed /\ TicksInOrder /\ InboxInOrder

\* What a step does to a message: it is appended, it leaves the queue once the
\* inbox has it, or it stays where it is; the inbox only grows.
Appended(k) == AppendMessage(k) /\ status'[k] = "pending" /\ due' = due
Left(k) == k \in inbox /\ status[k] # "absent" /\ status'[k] # "absent"
Stays(k) == status'[k] = status[k] /\ (due[k] => due'[k])

LEMMA QueueStep ==
    ASSUME NobodyFails, Typed, EndedIsMarked, Listed, [Next]_vars,
           NEW k \in Messages
    PROVE  Appended(k) \/ Left(k) \/ Stays(k)
<1>1. ASSUME NEW m \in Messages, AppendMessage(m) PROVE Appended(k) \/ Stays(k)
  BY <1>1 DEF AppendMessage, Appended, Stays, Typed, TypeOK
<1>2. ASSUME NEW m \in Messages, BackoffElapses(m) PROVE Stays(k)
  BY <1>2 DEF BackoffElapses, Stays, Typed, TypeOK
<1>3. ASSUME NEW t \in Ticks, MarkPublished(t) \/ MarkFailed(t)
      PROVE  Left(k) \/ Stays(k)
  <2>1. current[t] \in Messages /\ current[t] \in inbox /\ status[current[t]] # "absent"
    BY <1>3, SubscribersAssumption DEF MarkPublished, MarkFailed, Delivered, EndedIsMarked,
       Listed, Typed, TypeOK
  <2>2. k # current[t] => Stays(k)
    BY <1>3, <2>1 DEF MarkPublished, MarkFailed, Stays, Typed, TypeOK
  <2>3. status'[current[t]] # "absent"
    BY <1>3, <2>1 DEF MarkPublished, MarkFailed, Typed, TypeOK
  <2> QED  BY <2>1, <2>2, <2>3 DEF Left
<1>4. UNCHANGED outboxVars => Stays(k)
  BY DEF outboxVars, Stays
<1> QED
  BY <1>1, <1>2, <1>3, <1>4 DEF Next, StartTick, Publish, Crash, Handle, FastCheck,
     Recheck, Write, Mark, Commit, HandlerFails, vars

LEMMA NoneSkippedStep ==
    ASSUME OneAggregate, NobodyFails, Typed, EndedIsMarked, NoneSkipped, Listed,
           [Next]_vars
    PROVE  NoneSkipped'
<1>1. ASSUME NEW k \in Messages, NEW m \in Messages, k < m, status'[m] # "absent"
      PROVE  status'[k] # "absent"
  <2>1. status[k] # "absent"
    BY <1>1, QueueStep DEF NoneSkipped, AppendMessage, Appended, Left, Stays
  <2> QED  BY <2>1, QueueStep DEF AppendMessage, Appended, Left, Stays
<1>2. ASSUME NEW k \in Messages, k \notin inbox'
      PROVE  status'[k] # "published" /\ due'[k]
  <2>1. k \notin inbox
    BY <1>2, ReadSideGrows
  <2> QED  BY <2>1, QueueStep DEF NoneSkipped, Appended, Left, Stays
<1> QED  BY <1>1, <1>2 DEF NoneSkipped

\* What a step does to what a tick has in hand: it lists the due messages,
\* takes the first of the list, ends with a message or drops everything.
TakesNext(t) ==
    \E m \in batch[t] : /\ \A k \in batch[t] : m <= k
                        /\ current[t] = Nothing /\ current'[t] = m
                        /\ batch'[t] = batch[t] \ {m}
EndsWith(t) ==
    /\ current[t] \in inbox /\ current'[t] = Nothing /\ batch'[t] = batch[t]

LEMMA TickStep ==
    ASSUME NobodyFails, Typed, EndedIsMarked, [Next]_vars, NEW t \in Ticks
    PROVE  \/ current'[t] = current[t] /\ batch'[t] = batch[t]
           \/ /\ current[t] = Nothing /\ current'[t] = Nothing
              /\ batch'[t] = FirstOf(Due, Limit)
              /\ UNCHANGED <<outboxVars, inbox>>
           \/ TakesNext(t)
           \/ EndsWith(t)
           \/ current'[t] = Nothing /\ batch'[t] = {}
<1> DEFINE Same == current'[t] = current[t] /\ batch'[t] = batch[t]
<1>1. ASSUME NEW u \in Ticks, StartTick(u)
      PROVE  \/ Same
             \/ /\ current[t] = Nothing /\ current'[t] = Nothing
                /\ batch'[t] = FirstOf(Due, Limit)
                /\ UNCHANGED <<outboxVars, inbox>>
  BY <1>1 DEF StartTick, Idle, readVars, Typed, TypeOK
<1>2. ASSUME NEW u \in Ticks, Publish(u) PROVE Same \/ TakesNext(t)
  BY <1>2 DEF Publish, TakesNext, Typed, TypeOK
<1>3. ASSUME NEW u \in Ticks, MarkPublished(u) \/ MarkFailed(u)
      PROVE  Same \/ EndsWith(t)
  BY <1>3, SubscribersAssumption DEF MarkPublished, MarkFailed, Delivered, EndedIsMarked,
     EndsWith, Typed, TypeOK
<1>4. ASSUME NEW u \in Ticks, Crash(u)
      PROVE  Same \/ (current'[t] = Nothing /\ batch'[t] = {})
  BY <1>4 DEF Crash, Typed, TypeOK
<1>5. UNCHANGED tickVars => Same
  BY DEF tickVars
<1> QED
  BY <1>1, <1>2, <1>3, <1>4, <1>5 DEF Next, AppendMessage, BackoffElapses, Handle,
     FastCheck, Recheck, Write, Mark, Commit, HandlerFails, vars

LEMMA ListedStep ==
    ASSUME NobodyFails, Typed, EndedIsMarked, Listed, [Next]_vars
    PROVE  Listed'
<1> SUFFICES ASSUME NEW t \in Ticks, NEW k \in Messages,
                    k \in batch'[t] \/ k = current'[t]
             PROVE  status'[k] # "absent"
  BY DEF Listed
<1>1. status[k] # "absent"
  <2>1. k # Nothing
    BY MessagesAssumption DEF Nothing
  <2> QED  BY <2>1, TickStep DEF FirstOf, Due, TakesNext, EndsWith, Listed
<1> QED  BY <1>1, QueueStep DEF Appended, AppendMessage, Left, Stays

LEMMA TicksInOrderStep ==
    ASSUME NobodyFails, Typed, EndedIsMarked, QueueInOrder, [Next]_vars
    PROVE  TicksInOrder'
<1>0. /\ inbox \subseteq inbox' /\ Messages \subseteq Nat \ {0}
      /\ \A t \in Ticks : batch[t] \subseteq Messages /\ current[t] \in Messages \cup {Nothing}
  BY ReadSideGrows, MessagesAssumption DEF Typed, TypeOK
<1>1. ASSUME NEW t \in Ticks, NEW m \in batch'[t], NEW k \in Messages, k < m
      PROVE  k \in inbox' \cup batch'[t] \cup {current'[t]}
  <2>1. CASE current'[t] = current[t] /\ batch'[t] = batch[t]
    BY <1>0, <1>1, <2>1 DEF QueueInOrder, TicksInOrder
  <2>2. CASE batch'[t] = FirstOf(Due, Limit) /\ UNCHANGED <<outboxVars, inbox>>
    <3>1. m \in Due /\ Due \subseteq Messages
      BY <1>1, <2>2 DEF FirstOf, Due
    <3>2. status[k] # "absent"
      BY <3>1, <1>1 DEF Due, QueueInOrder, NoneSkipped
    <3>3. k \in inbox \/ k \in Due
      BY <3>2 DEF Due, QueueInOrder, NoneSkipped, Typed, TypeOK
    <3>4. k \in Due => k \in FirstOf(Due, Limit)
      BY <1>0, <1>1, <2>2, <3>1, FirstOfIsPrefix, LimitAssumption
    <3> QED  BY <3>3, <3>4, <2>2, <1>0
  <2>3. CASE TakesNext(t)
    BY <1>0, <1>1, <2>3 DEF TakesNext, Nothing, QueueInOrder, TicksInOrder
  <2>4. CASE EndsWith(t)
    BY <1>0, <1>1, <2>4 DEF EndsWith, QueueInOrder, TicksInOrder
  <2>5. CASE batch'[t] = {}
    BY <1>1, <2>5
  <2> QED  BY <2>1, <2>2, <2>3, <2>4, <2>5, TickStep
<1>2. ASSUME NEW t \in Ticks, NEW k \in Messages, k < current'[t]
      PROVE  k \in inbox'
  <2>1. current'[t] # Nothing
    BY <1>0, <1>2 DEF Nothing
  <2>2. CASE current'[t] = current[t]
    BY <1>0, <1>2, <2>2 DEF QueueInOrder, TicksInOrder
  <2>3. CASE TakesNext(t)
    <3>1. PICK m \in batch[t] : /\ \A j \in batch[t] : m <= j
                                /\ current[t] = Nothing /\ current'[t] = m
      BY <2>3 DEF TakesNext
    <3>2. k \in inbox \cup batch[t] \cup {current[t]}
      BY <3>1, <1>2 DEF QueueInOrder, TicksInOrder
    <3>3. k \notin batch[t] /\ k # Nothing
      <4>1. m \in Nat /\ k \in Nat /\ k # 0 /\ k < m
        BY <3>1, <1>2, <1>0
      <4>2. ~(m <= k)
        BY <4>1
      <4> QED  BY <3>1, <4>1, <4>2 DEF Nothing
    <3> QED  BY <3>1, <3>2, <3>3, <1>0
  <2> QED  BY <2>1, <2>2, <2>3, TickStep DEF EndsWith
<1> QED  BY <1>1, <1>2 DEF TicksInOrder

LEMMA InboxInOrderStep ==
    ASSUME Typed, QueueInOrder, [Next]_vars
    PROVE  InboxInOrder'
<1>1. inbox' = inbox \/ \E t \in Ticks : inbox' = inbox \cup {current[t]}
  BY StepCases, ElsewhereKeeps, BreaksOffKeeps
     DEF readVars, Handle, FastCheck, Recheck, Write, Mark, Commit
<1>2. CASE inbox' = inbox
  BY <1>2 DEF QueueInOrder, InboxInOrder
<1>3. ASSUME NEW t \in Ticks, inbox' = inbox \cup {current[t]}
      PROVE  InboxInOrder'
  BY <1>3 DEF QueueInOrder, InboxInOrder, TicksInOrder
<1> QED  BY <1>1, <1>2, <1>3

\* What has taken effect has its predecessors in the inbox.
EffectsInOrder ==
    \A k, m \in Messages, s \in Subscribers : k < m /\ applied[m][s] > 0 => k \in inbox

LEMMA EffectsInOrderStep ==
    ASSUME InTransaction = {}, Typed, QueueInOrder, EffectsInOrder, [Next]_vars
    PROVE  EffectsInOrder'
<1> SUFFICES ASSUME NEW k \in Messages, NEW m \in Messages, NEW s \in Subscribers,
                    k < m, applied'[m][s] > 0
             PROVE  k \in inbox'
  BY DEF EffectsInOrder
<1>1. CASE applied[m][s] > 0
  BY <1>1, ReadSideGrows DEF EffectsInOrder
<1>2. CASE ~(applied[m][s] > 0)
  <2>1. PICK t \in Ticks, r \in Subscribers : Write(t, r)
    BY <1>2, StepCases, ElsewhereKeeps, BreaksOffKeeps
       DEF readVars, Handle, FastCheck, Recheck, Write, Mark, Commit
  <2>2. m = current[t]
    BY <1>2, <2>1, AppliedByFacts DEF Write, At
  <2> QED  BY <2>2, ReadSideGrows DEF QueueInOrder, TicksInOrder
<1> QED  BY <1>1, <1>2

\* Delivery to one subscriber that writes beside its unit of work.
InSequence ==
    /\ Typed /\ WritesThenMarks /\ MarkedIsApplied /\ EndedIsMarked
    /\ QueueInOrder /\ EffectsInOrder

LEMMA InSequenceInitially == Init => InSequence
BY TypedInitially, MessagesAssumption
   DEF Init, InSequence, WritesThenMarks, MarkedIsApplied, EndedIsMarked, QueueInOrder,
       NoneSkipped, Listed, TicksInOrder, InboxInOrder, EffectsInOrder, Nothing

LEMMA InSequenceStep ==
    ASSUME ~HandlersFail, InTransaction = {}, OneAggregate, \A r, s \in Subscribers : r = s,
           InSequence, [Next]_vars
    PROVE  InSequence'
<1>1. NobodyFails
  BY DEF NobodyFails, HandlerFails
<1> QED
  BY <1>1, TypedStep, WritesThenMarksStep, MarkedIsAppliedStep, EndedStep, NoneSkippedStep,
     ListedStep, TicksInOrderStep, InboxInOrderStep, EffectsInOrderStep
     DEF InSequence, QueueInOrder

\* A single subscriber that writes beside its unit of work sees the events of an
\* aggregate in their order: none takes effect before its predecessors have,
\* whatever crashes, outbox updates that fail and overlapping ticks do to the
\* publication.
THEOREM AppliedInOrder ==
    ASSUME ~HandlersFail, InTransaction = {}, OneAggregate,
           \A r, s \in Subscribers : r = s
    PROVE  Spec => []InOrder
<1>1. InSequence /\ [Next]_vars => InSequence'
  BY InSequenceStep
<1>2. InSequence => InOrder
  BY DEF InSequence, MarkedIsApplied, EffectsInOrder, InOrder
<1> QED  BY <1>1, <1>2, InSequenceInitially, PTL DEF Spec

-----------------------------------------------------------------------------
(* Refinement: with one tick at a time and one subscriber that does not throw and
   writes beside its unit of work, delivery is AtLeastOnceQueue. *)

\* With one tick, a handler past its second check works on a message without a
\* mark, until it makes it.
NotYetMarked ==
    \A t \in Ticks, s \in Subscribers :
        current[t] # Nothing /\ handling[t][s] \in {"checked", "written"}
            => current[t] \notin inbox

LEMMA NotYetMarkedStep ==
    ASSUME \A t, u \in Ticks : t = u, \A r, s \in Subscribers : r = s,
           Typed, NotYetMarked, [Next]_vars
    PROVE  NotYetMarked'
<1> SUFFICES ASSUME NEW t \in Ticks, NEW s \in Subscribers, current'[t] # Nothing,
                    handling'[t][s] \in {"checked", "written"}
             PROVE  current'[t] \notin inbox'
  BY DEF NotYetMarked
<1>1. CASE Handle(t, s) /\ current'[t] = current[t]
  <2>1. CASE FastCheck(t, s)
    BY <2>1, GotoFacts DEF FastCheck
  <2>2. CASE Recheck(t, s)
    BY <1>1, <2>2, GotoFacts DEF Recheck, Processed, readVars
  <2>3. CASE Write(t, s)
    BY <1>1, <2>3 DEF Write, At, NotYetMarked
  <2>4. CASE Mark(t, s) \/ Commit(t, s)
    BY <2>4, GotoFacts DEF Mark, Commit
  <2> QED  BY <1>1, <2>1, <2>2, <2>3, <2>4 DEF Handle
<1>2. CASE current'[t] = current[t] /\ handling'[t][s] = handling[t][s]
  <2>1. ~\E u \in Ticks, r \in Subscribers : Mark(u, r)
    <3>1. ASSUME NEW u \in Ticks, NEW r \in Subscribers, Mark(u, r) PROVE FALSE
      <4>1. u = t /\ r = s
        OBVIOUS
      <4>2. handling'[t][s] = "marked"
        BY <3>1, <4>1, GotoFacts DEF Mark
      <4> QED  BY <4>2
    <3> QED  BY <3>1
  <2>2. inbox' = inbox
    BY <2>1, StepCases, ElsewhereKeeps, BreaksOffKeeps
       DEF readVars, Handle, FastCheck, Recheck, Write, Mark, Commit
  <2> QED  BY <1>2, <2>2 DEF NotYetMarked
<1> QED  BY <1>1, <1>2, HandlerStep

\* What the steps of the queue are read from.
Orderly == InSequence /\ Fresh /\ NotYetMarked

\* The event a handler writes is the next one its subscriber has not had, or the
\* one it had last.
LEMMA WriteTakes ==
    ASSUME InTransaction = {}, Orderly,
           NEW t \in Ticks, NEW s \in Subscribers, Write(t, s)
    PROVE  Queue!Take(current[t], s) /\ current[t] \in Messages
<1> DEFINE m == current[t]
<1>1. m \in Messages /\ m # Nothing /\ handling[t][s] = "checked"
  BY DEF Orderly, InSequence, Typed, TypeOK, Write, At
<1>2. status[m] = "pending"
  BY <1>1 DEF Orderly, Fresh, BatchIsFresh
<1>3. ASSUME NEW k \in Messages, k < m PROVE applied[k][s] > 0
  BY <1>3 DEF Orderly, InSequence, QueueInOrder, TicksInOrder, MarkedIsApplied
<1>4. ASSUME NEW k \in Messages, k > m PROVE applied[k][s] = 0
  <2>1. m \notin inbox
    BY <1>1 DEF Orderly, NotYetMarked
  <2>2. m < k
    BY <1>1, <1>4, MessagesAssumption
  <2>3. ~(applied[k][s] > 0)
    BY <1>1, <2>1, <2>2 DEF Orderly, InSequence, EffectsInOrder
  <2>4. applied[k][s] \in Nat
    BY DEF Orderly, InSequence, Typed, TypeOK
  <2> QED  BY <2>3, <2>4
<1>5. applied' = [applied EXCEPT ![m][s] = @ + 1] /\ UNCHANGED status
  BY DEF Write, AppliedBy, outboxVars
<1> QED  BY <1>1, <1>2, <1>3, <1>4, <1>5 DEF Queue!Take

\* What a tick marks published everybody has had.
LEMMA MarkPublishedFinishes ==
    ASSUME Orderly, NEW t \in Ticks, MarkPublished(t)
    PROVE  Queue!Finish(current[t]) /\ current[t] \in Messages
<1> DEFINE m == current[t]
<1>1. m \in Messages /\ m # Nothing /\ \A s \in Subscribers : handling[t][s] = "settled"
  BY DEF Orderly, InSequence, Typed, TypeOK, MarkPublished, Delivered
<1>2. status[m] = "pending"
  BY <1>1 DEF Orderly, Fresh, BatchIsFresh
<1>3. \A s \in Subscribers : applied[m][s] > 0
  BY <1>1 DEF Orderly, InSequence, EndedIsMarked, MarkedIsApplied
<1>4. status' = [status EXCEPT ![m] = "published"] /\ UNCHANGED applied
  BY DEF MarkPublished, readVars
<1> QED  BY <1>1, <1>2, <1>3, <1>4 DEF Queue!Finish

\* Every other step is an announcement or leaves the queue alone.
LEMMA QueueStepOrStutter ==
    ASSUME ~HandlersFail, InTransaction = {}, OneAggregate, Orderly, [Next]_vars
    PROVE  [Queue!Next]_Queue!queueVars
<1>1. CASE UNCHANGED vars
  BY <1>1 DEF vars, outboxVars, readVars, Queue!queueVars
<1>2. ASSUME NEW m \in Messages, AppendMessage(m) PROVE Queue!Next
  BY <1>2 DEF AppendMessage, readVars, Queue!Next, Queue!Announce
<1>3. ASSUME NEW m \in Messages, BackoffElapses(m) PROVE UNCHANGED Queue!queueVars
  BY <1>3 DEF BackoffElapses, readVars, Queue!queueVars
<1>4. ASSUME NEW t \in Ticks, MarkPublished(t) PROVE Queue!Next
  BY <1>4, MarkPublishedFinishes DEF Queue!Next
<1>5. ASSUME NEW t \in Ticks, StartTick(t) \/ Publish(t) \/ MarkFailed(t) \/ Crash(t)
      PROVE  UNCHANGED Queue!queueVars
  BY <1>5 DEF StartTick, Publish, MarkFailed, Crash, outboxVars, readVars, Queue!queueVars
<1>6. ASSUME NEW t \in Ticks, NEW s \in Subscribers, Handle(t, s)
      PROVE  Queue!Next \/ UNCHANGED Queue!queueVars
  <2>1. CASE Write(t, s)
    BY <2>1, WriteTakes DEF Queue!Next
  <2>2. CASE FastCheck(t, s) \/ Recheck(t, s) \/ Mark(t, s) \/ Commit(t, s)
    BY <2>2 DEF FastCheck, Recheck, Mark, Commit, outboxVars, readVars, Queue!queueVars
  <2> QED  BY <1>6, <2>1, <2>2 DEF Handle
<1> QED  BY <1>1, <1>2, <1>3, <1>4, <1>5, <1>6 DEF Next, HandlerFails

\* Whatever is listed, broken off and delivered again: where one tick at a time
\* serves one subscriber that does not throw and writes beside its unit of work,
\* it is told of each event of an aggregate after its predecessors, again only
\* before the next one, and the event is published when it has been told
\* (outbox-publisher.service.ts, base-integration-event-subscriber.ts).
THEOREM DeliveryImplementsQueue ==
    ASSUME ~HandlersFail, InTransaction = {}, OneAggregate,
           \A t, u \in Ticks : t = u, \A r, s \in Subscribers : r = s
    PROVE  Spec => ImplementsQueue
<1>1. Init => Fresh /\ NotYetMarked /\ Queue!Init
  BY MessagesAssumption DEF Init, NotYetMarked, Fresh, BatchIsFresh, Nothing, Queue!Init
<1>2. InSequence /\ [Next]_vars => InSequence'
  BY InSequenceStep
<1>3. InSequence /\ Fresh /\ NotYetMarked /\ [Next]_vars => (Fresh /\ NotYetMarked)'
  BY FreshStep, NotYetMarkedStep DEF InSequence
<1>4. InSequence /\ Fresh /\ NotYetMarked /\ [Next]_vars => [Queue!Next]_Queue!queueVars
  BY QueueStepOrStutter DEF Orderly
<1> QED  BY <1>1, <1>2, <1>3, <1>4, InSequenceInitially, PTL DEF Spec, ImplementsQueue, Queue!Spec

=============================================================================

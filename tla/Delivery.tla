------------------------------ MODULE Delivery ------------------------------
(***************************************************************************)
(* The read side's transport: OutboxPublisherService polls pending outbox  *)
(* records and publishes them on the in-memory bus; the bus calls every    *)
(* subscriber of the event in parallel; each subscriber guards its handler *)
(* with the inbox, inside a unit of work.                                  *)
(*                                                                         *)
(* The inbox runs its statements with em.getConnection().execute and does  *)
(* not hand over the transaction of the unit of work, so a mark commits by *)
(* itself, before the unit of work does.  What a handler writes commits    *)
(* with the unit of work only if its repository goes through the entity    *)
(* manager of the transaction (InTransaction); the others commit their     *)
(* write at once: a fork of the entity manager at its flush, a statement   *)
(* of the connection when it is executed.                                  *)
(*                                                                         *)
(* A tick is one call of tickOnce.  setInterval does not wait for the      *)
(* previous one, so several ticks, of one process or of several instances, *)
(* may be under way at once.  Every await is a step.                       *)
(***************************************************************************)
EXTENDS Integers, FiniteSets

CONSTANTS
    Messages,      \* outbox messages, numbered in the order listPending gives them
    Subscribers,   \* subscribers of their event type
    Ticks,         \* calls of tickOnce that may be under way together
    Limit,         \* `limit` of listPending
    InTransaction, \* subscribers whose write is part of their unit of work
    OneAggregate,  \* are the messages those of one aggregate?
    HandlersFail,  \* may handlers throw?
    MaxFaults      \* bound on crashes and failures

ASSUME MessagesAssumption == Messages \subseteq Nat \ {0}
ASSUME SubscribersAssumption == Subscribers # {} /\ InTransaction \subseteq Subscribers
ASSUME TicksAssumption == IsFiniteSet(Ticks)
ASSUME LimitAssumption == Limit \in Nat
ASSUME FaultsAssumption == MaxFaults \in Nat
ASSUME ModesAssumption == {OneAggregate, HandlersFail} \subseteq BOOLEAN

VARIABLES
    status,     \* of a message: absent before it is appended, then pending, published
    attempts,   \* failed attempts recorded for a message
    due,        \* has next_attempt_at of a message passed?
    batch,      \* records a tick has listed and not yet published
    snapshot,   \* `attempts` of the records when the tick listed them
    current,    \* message a tick is publishing, or Nothing
    handling,   \* how far each subscriber's handler has come with it
    inbox,      \* messages in messaging_inbox
    applied,    \* how often a message has taken effect at a subscriber
    faults      \* faults so far

outboxVars == <<status, attempts, due>>
tickVars == <<batch, snapshot, current>>
readVars == <<inbox, applied>>
vars == <<outboxVars, tickVars, handling, readVars, faults>>

Nothing == 0

\* settled: nothing (more) to do; called: the bus has called the handler; open:
\* in the unit of work; checked, written, marked: after the second check, the
\* handler's write and the inbox mark, and before the commit.
Phases == {"settled", "called", "open", "checked", "written", "marked"}

TypeOK ==
    /\ status \in [Messages -> {"absent", "pending", "published"}]
    /\ attempts \in [Messages -> 0 .. MaxFaults]
    /\ due \in [Messages -> BOOLEAN]
    /\ batch \in [Ticks -> SUBSET Messages]
    /\ snapshot \in [Ticks -> [Messages -> 0 .. MaxFaults]]
    /\ current \in [Ticks -> Messages \cup {Nothing}]
    /\ handling \in [Ticks -> [Subscribers -> Phases]]
    /\ inbox \in SUBSET Messages
    /\ applied \in [Messages -> [Subscribers -> Nat]]
    /\ faults \in 0 .. MaxFaults

Init ==
    /\ status = [m \in Messages |-> "absent"]
    /\ attempts = [m \in Messages |-> 0]
    /\ due = [m \in Messages |-> TRUE]
    /\ batch = [t \in Ticks |-> {}]
    /\ snapshot = [t \in Ticks |-> [m \in Messages |-> 0]]
    /\ current = [t \in Ticks |-> Nothing]
    /\ handling = [t \in Ticks |-> [s \in Subscribers |-> "settled"]]
    /\ inbox = {}
    /\ applied = [m \in Messages |-> [s \in Subscribers |-> 0]]
    /\ faults = 0

Fault == faults < MaxFaults /\ faults' = faults + 1

-----------------------------------------------------------------------------
(* The outbox. *)

\* A command appends a message.  The messages of one aggregate are appended in
\* their order, those of several are not: the time of an event is taken before
\* its command commits.
AppendMessage(m) ==
    /\ status[m] = "absent"
    /\ OneAggregate => \A k \in Messages : k < m => status[k] # "absent"
    /\ status' = [status EXCEPT ![m] = "pending"]
    /\ UNCHANGED <<attempts, due, tickVars, handling, readVars, faults>>

\* where status = 'pending' and next_attempt_at <= now
\* Faulty form: without the status.
DueAnyStatus == { m \in Messages : status[m] # "absent" /\ due[m] }

Due == { m \in Messages : status[m] = "pending" /\ due[m] }

\* order by occurred_at, message_id limit n
\* Faulty forms: newest first; one record less than the limit.
LastOf(S, n) == { m \in S : Cardinality({ k \in S : k > m }) < n }
FirstButOneOf(S, n) == { m \in S : Cardinality({ k \in S : k < m }) < n - 1 }

FirstOf(S, n) == { m \in S : Cardinality({ k \in S : k < m }) < n }

\* The backoff of a failed message passes.
BackoffElapses(m) ==
    /\ ~due[m]
    /\ due' = [due EXCEPT ![m] = TRUE]
    /\ UNCHANGED <<status, attempts, tickVars, handling, readVars, faults>>

-----------------------------------------------------------------------------
(* The publisher. *)

Idle(t) == current[t] = Nothing /\ batch[t] = {}

\* tickOnce lists what is due; an empty list ends the tick at once.
StartTick(t) ==
    /\ Idle(t)
    /\ Due # {}
    /\ batch' = [batch EXCEPT ![t] = FirstOf(Due, Limit)]
    /\ snapshot' = [snapshot EXCEPT ![t] = attempts]
    /\ UNCHANGED <<outboxVars, current, handling, readVars, faults>>

\* publishRecord hands the next record to the bus, which calls all handlers
\* before it waits for any of them.
Publish(t) ==
    /\ current[t] = Nothing
    /\ \E m \in batch[t] :
         /\ \A k \in batch[t] : m <= k
         /\ current' = [current EXCEPT ![t] = m]
         /\ batch' = [batch EXCEPT ![t] = @ \ {m}]
    /\ handling' = [handling EXCEPT ![t] = [s \in Subscribers |-> "called"]]
    /\ UNCHANGED <<outboxVars, snapshot, readVars, faults>>

\* Promise.allSettled waits for every handler and keeps their errors to itself.
Delivered(t) ==
    /\ current[t] # Nothing
    /\ \A s \in Subscribers : handling[t][s] = "settled"

\* Faulty form: the bus is not awaited.
MarkPublishedAtOnce(t) ==
    /\ current[t] # Nothing
    /\ status' = [status EXCEPT ![current[t]] = "published"]
    /\ current' = [current EXCEPT ![t] = Nothing]
    /\ UNCHANGED <<attempts, due, batch, snapshot, handling, readVars, faults>>

MarkPublished(t) ==
    /\ Delivered(t)
    /\ status' = [status EXCEPT ![current[t]] = "published"]
    /\ current' = [current EXCEPT ![t] = Nothing]
    /\ UNCHANGED <<attempts, due, batch, snapshot, handling, readVars, faults>>

\* markPublished throws and publishRecord records a failed attempt, counted
\* from the attempts it listed; the status is left as it is.
\* Faulty form: counted from the stored attempts, a second time.
MarkFailedTwice(t) ==
    /\ Delivered(t)
    /\ Fault
    /\ attempts' = [attempts EXCEPT ![current[t]] = @ + 2]
    /\ due' = [due EXCEPT ![current[t]] = FALSE]
    /\ current' = [current EXCEPT ![t] = Nothing]
    /\ UNCHANGED <<status, batch, snapshot, handling, readVars>>

MarkFailed(t) ==
    /\ Delivered(t)
    /\ Fault
    /\ attempts' = [attempts EXCEPT ![current[t]] = snapshot[t][current[t]] + 1]
    /\ due' = [due EXCEPT ![current[t]] = FALSE]
    /\ current' = [current EXCEPT ![t] = Nothing]
    /\ UNCHANGED <<status, batch, snapshot, handling, readVars>>

\* The process dies (also of the rejection nobody handles when markFailed or
\* listPending throws); what its units of work have not committed is undone, and
\* what was executed beside them, the marks among it, stays.
Crash(t) ==
    /\ ~Idle(t)
    /\ Fault
    /\ batch' = [batch EXCEPT ![t] = {}]
    /\ current' = [current EXCEPT ![t] = Nothing]
    /\ handling' = [handling EXCEPT ![t] = [s \in Subscribers |-> "settled"]]
    /\ UNCHANGED <<outboxVars, snapshot, readVars>>

-----------------------------------------------------------------------------
(* A subscriber's handler (handleWithIdempotency). *)

At(t, s, phase) == current[t] # Nothing /\ handling[t][s] = phase
Goto(t, s, phase) == handling' = [handling EXCEPT ![t][s] = phase]

\* inbox.isProcessed, outside and inside the unit of work: it sees what is
\* committed.
\* Faulty form: never processed.
ProcessedNever(m) == FALSE

Processed(m) == m \in inbox

FastCheck(t, s) ==
    /\ At(t, s, "called")
    /\ Goto(t, s, IF Processed(current[t]) THEN "settled" ELSE "open")
    /\ UNCHANGED <<outboxVars, tickVars, readVars, faults>>

Recheck(t, s) ==
    /\ At(t, s, "open")
    /\ Goto(t, s, IF Processed(current[t]) THEN "settled" ELSE "checked")
    /\ UNCHANGED <<outboxVars, tickVars, readVars, faults>>

AppliedBy(t, s) == [applied EXCEPT ![current[t]][s] = @ + 1]

Write(t, s) ==
    /\ At(t, s, "checked")
    /\ Goto(t, s, "written")
    /\ applied' = IF s \in InTransaction THEN applied ELSE AppliedBy(t, s)
    /\ UNCHANGED <<outboxVars, tickVars, inbox, faults>>

\* Faulty form: the handler returns without a mark.
MarkForgotten(t, s) ==
    /\ At(t, s, "written")
    /\ Goto(t, s, "marked")
    /\ UNCHANGED <<outboxVars, tickVars, readVars, faults>>

\* inbox.markProcessed: a statement that commits at once, and does nothing when
\* the message is already there (on conflict do nothing).
Mark(t, s) ==
    /\ At(t, s, "written")
    /\ Goto(t, s, "marked")
    /\ inbox' = inbox \cup {current[t]}
    /\ UNCHANGED <<outboxVars, tickVars, applied, faults>>

\* The unit of work commits what the handler has written in its transaction.
Commit(t, s) ==
    /\ At(t, s, "marked")
    /\ Goto(t, s, "settled")
    /\ applied' = IF s \in InTransaction THEN AppliedBy(t, s) ELSE applied
    /\ UNCHANGED <<outboxVars, tickVars, inbox, faults>>

\* The handler, one of its statements or the commit throws; the unit of work
\* rolls back, the mark stays, and allSettled keeps the error from the publisher.
HandlerFails(t, s) ==
    /\ HandlersFail
    /\ current[t] # Nothing
    /\ handling[t][s] # "settled"
    /\ Fault
    /\ Goto(t, s, "settled")
    /\ UNCHANGED <<outboxVars, tickVars, readVars>>

Handle(t, s) ==
    FastCheck(t, s) \/ Recheck(t, s) \/ Write(t, s) \/ Mark(t, s) \/ Commit(t, s)

-----------------------------------------------------------------------------
Next ==
    \/ \E m \in Messages : AppendMessage(m) \/ BackoffElapses(m)
    \/ \E t \in Ticks :
         \/ StartTick(t)
         \/ Publish(t)
         \/ MarkPublished(t)
         \/ MarkFailed(t)
         \/ Crash(t)
         \/ \E s \in Subscribers : Handle(t, s) \/ HandlerFails(t, s)

Spec == Init /\ [][Next]_vars

\* The timer fires again, awaited calls return, time passes.
FairSpec ==
    /\ Spec
    /\ \A m \in Messages : WF_vars(BackoffElapses(m))
    /\ \A t \in Ticks :
         /\ WF_vars(StartTick(t))
         /\ WF_vars(Publish(t))
         /\ WF_vars(MarkPublished(t))
         /\ \A s \in Subscribers : WF_vars(Handle(t, s))

-----------------------------------------------------------------------------
(* What the code must guarantee. *)

\* At-least-once: a message is marked published only after every subscriber
\* has applied it (ARCHITECTURE 6.5.4), crashes and failed outbox updates
\* notwithstanding.
PublishedIsApplied ==
    \A m \in Messages : status[m] = "published" =>
        \A s \in Subscribers : applied[m][s] > 0

\* How often redelivery may repeat an effect (the inbox deduplicates by
\* messageId): overlapping ticks may each be past the check when the first mark
\* is made, and, if the write does not wait for the unit of work, every fault
\* may leave one that nobody has marked.  Nothing else repeats an effect, however
\* often a message is listed and published.
RepeatsExplained ==
    \A m \in Messages, s \in Subscribers :
        applied[m][s] <= Cardinality(Ticks) + IF s \in InTransaction THEN 0 ELSE faults

\* Messages of the inbox that have taken no effect, and that no handler is about
\* to commit.
MarkedInVain ==
    { m \in inbox :
        /\ \A s \in Subscribers : applied[m][s] = 0
        /\ \A t \in Ticks, s \in Subscribers : current[t] = m => handling[t][s] # "marked" }

\* How far the inbox and the effects may part, although a mark is committed
\* before the unit of work it belongs to and several subscribers share it: an
\* effect of a unit of work is never without its mark, and no more messages are
\* marked in vain than there have been faults.
InboxAgreesWithEffects ==
    /\ \A m \in Messages, s \in InTransaction : applied[m][s] > 0 => m \in inbox
    /\ Cardinality(MarkedInVain) <= faults

\* Where handlers do not fail, a published message has been processed, however
\* many ticks and subscribers handle it at once.
PublishedIsProcessed ==
    \A m \in Messages : status[m] = "published" => m \in inbox

\* A tick on its own never works on a record that is no longer pending.
BatchIsFresh ==
    \A t \in Ticks : \A m \in batch[t] \cup ({current[t]} \ {Nothing}) :
        status[m] = "pending" /\ snapshot[t][m] = attempts[m]

\* A projection sees the events of an aggregate in order: none is applied
\* before its predecessors, whatever is retried.
InOrder ==
    \A s \in Subscribers, k, m \in Messages :
        k < m /\ applied[m][s] > 0 => applied[k][s] > 0

\* With one tick and one subscriber whose handler does not throw and does not
\* wait for its unit of work, all of this together is a queue that delivers each
\* message at least once and in order, whatever is listed, published, broken off
\* and delivered again around it.
Queue == INSTANCE AtLeastOnceQueue WITH status <- status, applied <- applied

ImplementsQueue == Queue!Spec

\* Everything appended is published in the end, faults notwithstanding.
AllPublished ==
    \A m \in Messages : status[m] = "pending" ~> status[m] = "published"

=============================================================================

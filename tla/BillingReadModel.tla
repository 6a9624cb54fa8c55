-------------------------- MODULE BillingReadModel --------------------------
(***************************************************************************)
(* One bill and its row in billing_read_model: the billing aggregate emits *)
(* events into the outbox, module Delivery carries them, and               *)
(* BillingProjectionSubscriber applies them.  The subscriber works on a    *)
(* fork of the entity manager, so its writes commit by themselves, at the  *)
(* flush, and not with the inbox mark.                                     *)
(*                                                                         *)
(* The source has a handler for CreateBilling only; the other methods of   *)
(* the aggregate are assumed to be called by handlers of the same form.    *)
(***************************************************************************)
EXTENDS ReadModel

VARIABLES
    bill,   \* _status of the aggregate, or "none" before it is created
    told,   \* type of the event a message carries
    row,    \* status in billing_read_model, or "none"
    seen    \* what the handler of a tick has found in the row

billingVars == <<bill, told, row, seen>>

BillStatus == {"none", "pending", "paid", "failed", "refunded", "cancelled"}
BillEvent == {"BillingCreated", "BillingPaid", "BillingFailed", "BillingRefunded",
              "BillingCancelled"}

BillingTypeOK ==
    /\ bill \in BillStatus
    /\ told \in [Messages -> BillEvent \cup {"none"}]
    /\ row \in BillStatus \ {"cancelled"}
    /\ seen \in [Ticks -> BillStatus \cup {"unread"}]

BillingInit ==
    /\ bill = "none"
    /\ told = [m \in Messages |-> "none"]
    /\ row = "none"
    /\ seen = [t \in Ticks |-> "unread"]

-----------------------------------------------------------------------------
(* The aggregate. *)

\* A command takes the bill to its next status and appends one message.
Emit(status0, status1, event) ==
    /\ bill = status0
    /\ bill' = status1
    /\ \E m \in Messages :
         /\ \A k \in Messages : k < m <=> told[k] # "none"
         /\ told' = [told EXCEPT ![m] = event]
         /\ AppendMessage(m)
    /\ UNCHANGED <<row, seen>>

CreateBilling == Emit("none", "pending", "BillingCreated")

\* Faulty form: a failed bill is paid after all.
MarkAsPaidLate == bill \in {"pending", "failed"} /\ Emit(bill, "paid", "BillingPaid")

MarkAsPaid == Emit("pending", "paid", "BillingPaid")
MarkAsFailed == Emit("pending", "failed", "BillingFailed")
Refund == Emit("paid", "refunded", "BillingRefunded")
Cancel == Emit("pending", "cancelled", "BillingCancelled")

-----------------------------------------------------------------------------
(* The subscriber. *)

\* Nobody subscribes to BillingCancelled: the bus has no handler to call.
PublishUnheard(t) ==
    /\ current[t] = Nothing
    /\ \E m \in batch[t] :
         /\ \A k \in batch[t] : m <= k
         /\ told[m] = "BillingCancelled"
         /\ current' = [current EXCEPT ![t] = m]
         /\ batch' = [batch EXCEPT ![t] = @ \ {m}]
    /\ UNCHANGED <<outboxVars, snapshot, handling, readVars, faults, billingVars>>

PublishBilling(t) ==
    /\ Publish(t)
    /\ told[current'[t]] # "BillingCancelled"
    /\ UNCHANGED billingVars

\* em.findOne
FindRow(t, s) ==
    /\ At(t, s, "checked")
    /\ seen[t] = "unread"
    /\ seen' = [seen EXCEPT ![t] = row]
    /\ UNCHANGED <<vars, bill, told, row>>

\* Faulty forms: the event's type is stored as it is; refunds are overlooked.
RowAfterRaw(event, found) ==
    IF event # "BillingCreated" /\ found = "none" THEN found ELSE event

RowAfterNoRefund(event, found) ==
    CASE event = "BillingCreated" -> IF found = "none" THEN "pending" ELSE found
      [] event # "BillingCreated" /\ found = "none" -> found
      [] event = "BillingPaid" /\ found # "none" -> "paid"
      [] event = "BillingFailed" /\ found # "none" -> "failed"
      [] event = "BillingRefunded" /\ found # "none" -> found

\* A row is created once; no other event is applied without one.
RowAfter(event, found) ==
    CASE event = "BillingCreated" -> IF found = "none" THEN "pending" ELSE found
      [] event # "BillingCreated" /\ found = "none" -> found
      [] event = "BillingPaid" /\ found # "none" -> "paid"
      [] event = "BillingFailed" /\ found # "none" -> "failed"
      [] event = "BillingRefunded" /\ found # "none" -> "refunded"

\* persistAndFlush writes what differs from what was found.
FlushRow(t, s) ==
    LET event == told[current[t]]
        new == RowAfter(event, seen[t])
    IN
    /\ seen[t] # "unread"
    /\ ~(event = "BillingCreated" /\ seen[t] = "none" /\ row # "none")
    /\ Write(t, s)
    /\ row' = IF new = seen[t] THEN row ELSE new
    /\ seen' = [seen EXCEPT ![t] = "unread"]
    /\ UNCHANGED <<bill, told>>

\* A row that has appeared since findOne refuses the insert; the handler throws.
InsertRowRefused(t, s) ==
    /\ At(t, s, "checked")
    /\ told[current[t]] = "BillingCreated"
    /\ seen[t] = "none"
    /\ row # "none"
    /\ Goto(t, s, "settled")
    /\ seen' = [seen EXCEPT ![t] = "unread"]
    /\ UNCHANGED <<outboxVars, tickVars, readVars, faults, bill, told, row>>

\* The steps of Delivery that the subscriber takes no part in.
Carry(t) ==
    /\ \/ StartTick(t)
       \/ MarkPublished(t)
       \/ MarkFailed(t)
       \/ \E s \in Subscribers : FastCheck(t, s) \/ Recheck(t, s) \/ Mark(t, s) \/ Commit(t, s)
    /\ UNCHANGED billingVars

BreakOff(t) ==
    /\ Crash(t) \/ \E s \in Subscribers : HandlerFails(t, s)
    /\ seen' = [seen EXCEPT ![t] = "unread"]
    /\ UNCHANGED <<bill, told, row>>

HandleBilling(t, s) == FindRow(t, s) \/ FlushRow(t, s)

BillingStep ==
    \/ CreateBilling \/ MarkAsPaid \/ MarkAsFailed \/ Refund \/ Cancel
    \/ \E m \in Messages : BackoffElapses(m) /\ UNCHANGED billingVars
    \/ \E t \in Ticks :
         \/ PublishBilling(t)
         \/ PublishUnheard(t)
         \/ Carry(t)
         \/ BreakOff(t)
         \/ \E s \in Subscribers : HandleBilling(t, s) \/ InsertRowRefused(t, s)

BillingNext == BillingStep /\ Watch

BillingSpec ==
    /\ Init /\ WatchInit("billing") /\ BillingInit
    /\ [][BillingNext]_<<vars, watchVars, billingVars>>

-----------------------------------------------------------------------------
(* What the code must guarantee. *)

\* The statuses a bill passes through on the way to another.
Past(to) ==
    CASE to = "none" -> {"none"}
      [] to = "pending" -> {"none", "pending"}
      [] to = "refunded" -> {"none", "pending", "paid", "refunded"}
      [] OTHER -> {"none", "pending", to}

\* The read model shows a status the bill has, or has had.
RowIsPast == row \in Past(bill)

\* It never goes back: events that are delivered again, after a crash or a
\* failed outbox update, do not undo later ones.
RowMovesForward == [][disturbed' \/ row \in Past(row')]_<<row, disturbed>>

\* Once everything is published, it shows the bill's status, unless the bill
\* is cancelled, which nobody tells it.
RowCatchesUp ==
    ~disturbed /\ bill # "cancelled" /\ (\A m \in Messages : status[m] # "pending")
        => row = bill

=============================================================================

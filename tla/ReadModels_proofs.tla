--------------------------- MODULE ReadModels_proofs ---------------------------
(***************************************************************************)
(* Proofs about the read side, for any messages, ticks, subscribers and    *)
(* faults, and any events: the two read models that messages build, a      *)
(* bill's row and the assignments of roles (as long as the delivery is not *)
(* disturbed their steps are those of Delivery, whose lemmas carry over);  *)
(* the archive of events, its codec, its queries and its snapshots; and    *)
(* the read side as a whole, from what is proved of its parts.             *)
(***************************************************************************)
EXTENDS MCReadModels, Delivery_proofs, Queries_proofs

-----------------------------------------------------------------------------
(* The row of a bill. *)

\* The status an event of a bill reports.
Reports(event) ==
    CASE event = "BillingCreated" -> "pending"
      [] event = "BillingPaid" -> "paid"
      [] event = "BillingFailed" -> "failed"
      [] event = "BillingRefunded" -> "refunded"
      [] OTHER -> "none"

TicksTyped ==
    /\ status \in [Messages -> {"absent", "pending", "published"}]
    /\ batch \in [Ticks -> SUBSET Messages]
    /\ current \in [Ticks -> Messages \cup {Nothing}]
    /\ handling \in [Ticks -> [Subscribers -> Phases]]
    /\ told \in [Messages -> BillEvent \cup {"none"}]

\* Messages that are there carry an event.
Announced ==
    /\ \A m \in Messages : status[m] # "absent" => told[m] # "none"
    /\ \A t \in Ticks : \A m \in batch[t] : told[m] # "none"
    /\ \A t \in Ticks : current[t] # Nothing => told[current[t]] # "none"

\* A handler that is at work handles an event that somebody listens to.
Heard ==
    \A t \in Ticks, s \in Subscribers : handling[t][s] # "settled" =>
        current[t] \in Messages /\ told[current[t]] \notin {"none", "BillingCancelled"}

\* Messages and row report what the bill is or has been.
AllIsPast ==
    /\ bill \in BillStatus
    /\ \A m \in Messages : Reports(told[m]) \in Past(bill)
    /\ row \in Past(bill)

RowInv == TicksTyped /\ Announced /\ Heard /\ AllIsPast

\* What a bill has passed stays passed.
LEMMA PastGrows ==
    /\ \A x : x \in Past("none") => x \in Past("pending")
    /\ \A x : x \in Past("pending") =>
           x \in Past("paid") /\ x \in Past("failed") /\ x \in Past("cancelled")
    /\ \A x : x \in Past("paid") => x \in Past("refunded")
    /\ \A x \in BillStatus : "none" \in Past(x) /\ x \in Past(x)
  BY DEF Past, BillStatus

\* The row becomes what its event reports, or stays.
LEMMA RowAfterReports ==
    ASSUME NEW event \in BillEvent \ {"BillingCancelled"}, NEW found,
           RowAfter(event, found) # found
    PROVE  RowAfter(event, found) = Reports(event)
  BY DEF RowAfter, Reports, BillEvent

LEMMA InitialRow == Init /\ BillingInit => RowInv
<1> SUFFICES ASSUME Init, BillingInit PROVE RowInv
  OBVIOUS
<1>1. TicksTyped
  BY DEF Init, BillingInit, TicksTyped, Phases
<1>2. Announced /\ Heard
  BY DEF Init, BillingInit, Announced, Heard
<1>3. AllIsPast
  BY PastGrows DEF BillingInit, AllIsPast, BillStatus, Reports
<1> QED  BY <1>1, <1>2, <1>3 DEF RowInv

\* A command's event takes the bill on and is told to nobody before.
LEMMA EmitKeeps ==
    ASSUME RowInv, NEW s0 \in BillStatus, NEW s1 \in BillStatus, NEW event \in BillEvent,
           Emit(s0, s1, event), Reports(event) \in Past(s1),
           \A x : x \in Past(s0) => x \in Past(s1)
    PROVE  RowInv'
<1>1. PICK m \in Messages : /\ \A k \in Messages : k < m <=> told[k] # "none"
                            /\ told' = [told EXCEPT ![m] = event]
                            /\ AppendMessage(m)
  BY DEF Emit
<1>2. /\ bill = s0 /\ bill' = s1 /\ row' = row
      /\ status' = [status EXCEPT ![m] = "pending"]
      /\ UNCHANGED <<batch, current, handling>>
  BY <1>1 DEF Emit, AppendMessage, tickVars
<1>3. TicksTyped'
  BY <1>1, <1>2 DEF RowInv, TicksTyped
<1>4. told[m] = "none" /\ event # "none"
  <2>1. ~(m < m)
    BY MessagesAssumption
  <2> QED  BY <1>1, <2>1 DEF BillEvent
<1>5. told'[m] = event /\ \A k \in Messages : k # m => told'[k] = told[k]
  BY <1>1 DEF RowInv, TicksTyped
<1>6. Announced'
  BY <1>2, <1>4, <1>5 DEF RowInv, TicksTyped, Announced
<1>7. Heard'
  <2> SUFFICES ASSUME NEW t \in Ticks, NEW s \in Subscribers, handling'[t][s] # "settled"
               PROVE  /\ current'[t] \in Messages
                      /\ told'[current'[t]] \notin {"none", "BillingCancelled"}
    BY DEF Heard
  <2> QED  BY <1>2, <1>4, <1>5 DEF RowInv, Heard
<1>8. AllIsPast'
  <2>1. \A k \in Messages : Reports(told'[k]) \in Past(bill')
    BY <1>2, <1>5 DEF RowInv, AllIsPast
  <2> QED  BY <1>2, <2>1 DEF RowInv, AllIsPast
<1> QED  BY <1>3, <1>6, <1>7, <1>8 DEF RowInv

\* The steps of ticks and handlers leave bill and messages alone.
LEMMA QuietKeeps ==
    ASSUME RowInv, UNCHANGED <<bill, told, row>>
    PROVE  AllIsPast'
  BY DEF RowInv, AllIsPast

\* A tick lists, publishes, marks, or dies.
LEMMA TickKeeps ==
    ASSUME RowInv, NEW t \in Ticks,
           \/ StartTick(t) /\ UNCHANGED <<bill, told, row>>
           \/ PublishBilling(t)
           \/ PublishUnheard(t)
           \/ (MarkPublished(t) \/ MarkFailed(t)) /\ UNCHANGED <<bill, told, row>>
           \/ Crash(t) /\ UNCHANGED <<bill, told, row>>
    PROVE  RowInv'
<1>0. AllIsPast'
  BY QuietKeeps DEF PublishBilling, PublishUnheard, billingVars
<1>1. CASE StartTick(t) /\ UNCHANGED <<bill, told, row>>
  <2>1. FirstOf(Due, Limit) \in SUBSET Messages
    BY DEF FirstOf, Due
  <2>2. \A m \in FirstOf(Due, Limit) : told[m] # "none"
    BY DEF FirstOf, Due, RowInv, Announced
  <2>3. TicksTyped'
    BY <1>1, <2>1 DEF StartTick, outboxVars, RowInv, TicksTyped
  <2>4. Announced'
    BY <1>1, <2>1, <2>2 DEF StartTick, outboxVars, RowInv, TicksTyped, Announced
  <2>5. Heard'
    BY <1>1 DEF StartTick, RowInv, Heard
  <2> QED  BY <1>0, <2>3, <2>4, <2>5 DEF RowInv
<1>2. CASE PublishBilling(t)
  <2>1. PICK m \in batch[t] : /\ current' = [current EXCEPT ![t] = m]
                              /\ batch' = [batch EXCEPT ![t] = @ \ {m}]
    BY <1>2 DEF PublishBilling, Publish
  <2>2. /\ handling' = [handling EXCEPT ![t] = [s \in Subscribers |-> "called"]]
        /\ UNCHANGED <<status, told>>
        /\ told[current'[t]] # "BillingCancelled"
    BY <1>2 DEF PublishBilling, Publish, outboxVars, billingVars
  <2>3. m \in Messages /\ current'[t] = m /\ told[m] # "none"
    BY <2>1 DEF RowInv, TicksTyped, Announced
  <2>4. TicksTyped'
    BY <2>1, <2>2, <2>3 DEF RowInv, TicksTyped, Phases
  <2>5. Announced'
    BY <2>1, <2>2, <2>3 DEF RowInv, TicksTyped, Announced
  <2>6. Heard'
    BY <2>1, <2>2, <2>3 DEF RowInv, TicksTyped, Heard
  <2> QED  BY <1>0, <2>4, <2>5, <2>6 DEF RowInv
<1>3. CASE PublishUnheard(t)
  <2>1. PICK m \in batch[t] : /\ current' = [current EXCEPT ![t] = m]
                              /\ batch' = [batch EXCEPT ![t] = @ \ {m}]
    BY <1>3 DEF PublishUnheard
  <2>2. UNCHANGED <<handling, status, told>> /\ current[t] = Nothing
    BY <1>3 DEF PublishUnheard, outboxVars, billingVars
  <2>3. m \in Messages /\ Nothing \notin Messages
    BY <2>1, MessagesAssumption DEF RowInv, TicksTyped, Nothing
  <2>4. TicksTyped'
    BY <2>1, <2>2, <2>3 DEF RowInv, TicksTyped
  <2>5. Announced'
    <3>1. told[m] # "none"
      BY <2>1 DEF RowInv, Announced
    <3> QED  BY <2>1, <2>2, <3>1 DEF RowInv, TicksTyped, Announced
  <2>6. \A s \in Subscribers : handling[t][s] = "settled"
    BY <2>2, <2>3 DEF RowInv, Heard
  <2>7. Heard'
    BY <2>1, <2>2, <2>6 DEF RowInv, TicksTyped, Heard
  <2> QED  BY <1>0, <2>4, <2>5, <2>7 DEF RowInv
<1>4. CASE (MarkPublished(t) \/ MarkFailed(t)) /\ UNCHANGED <<bill, told, row>>
  <2>1. /\ current[t] # Nothing
        /\ \A s \in Subscribers : handling[t][s] = "settled"
        /\ current' = [current EXCEPT ![t] = Nothing]
        /\ UNCHANGED <<batch, handling, told>>
        /\ status' = [status EXCEPT ![current[t]] = "published"] \/ status' = status
    BY <1>4 DEF MarkPublished, MarkFailed, Delivered
  <2>2. current[t] \in Messages
    BY <2>1 DEF RowInv, TicksTyped
  <2>3. \A m \in batch[t] : told[m] # "none"
    BY DEF RowInv, Announced
  <2>4. TicksTyped'
    BY <2>1, <2>2 DEF RowInv, TicksTyped
  <2>5. Heard'
    BY <2>1 DEF RowInv, TicksTyped, Heard
  <2>6. Announced'
    <3>1. told[current[t]] # "none"
      BY <2>1 DEF RowInv, Announced
    <3> QED  BY <2>1, <2>2, <3>1 DEF RowInv, TicksTyped, Announced
  <2> QED  BY <1>0, <2>4, <2>5, <2>6 DEF RowInv
<1>5. CASE Crash(t) /\ UNCHANGED <<bill, told, row>>
  <2>1. /\ batch' = [batch EXCEPT ![t] = {}]
        /\ current' = [current EXCEPT ![t] = Nothing]
        /\ handling' = [handling EXCEPT ![t] = [s \in Subscribers |-> "settled"]]
        /\ UNCHANGED <<status, told>>
    BY <1>5 DEF Crash, outboxVars
  <2>2. TicksTyped'
    BY <2>1 DEF RowInv, TicksTyped, Phases
  <2>3. Announced'
    BY <2>1 DEF RowInv, TicksTyped, Announced
  <2>4. Heard'
    BY <2>1 DEF RowInv, TicksTyped, Heard
  <2> QED  BY <1>0, <2>2, <2>3, <2>4 DEF RowInv
<1> QED  BY <1>1, <1>2, <1>3, <1>4, <1>5

\* A handler moves on, or stops.
LEMMA HandlerMoves ==
    ASSUME RowInv, NEW t \in Ticks, NEW s \in Subscribers, NEW p \in Phases,
           handling[t][s] # "settled", Goto(t, s, p), UNCHANGED <<status, batch, current, told>>
    PROVE  TicksTyped' /\ Announced' /\ Heard'
<1>1. TicksTyped'
  BY DEF Goto, RowInv, TicksTyped
<1>2. Announced'
  BY DEF RowInv, Announced
<1>3. Heard'
  BY DEF Goto, RowInv, TicksTyped, Heard
<1> QED  BY <1>1, <1>2, <1>3

LEMMA HandlerKeeps ==
    ASSUME RowInv, NEW t \in Ticks, NEW s \in Subscribers,
           \/ (FastCheck(t, s) \/ Recheck(t, s) \/ Mark(t, s) \/ Commit(t, s)) /\ UNCHANGED billingVars
           \/ HandlerFails(t, s) /\ UNCHANGED <<bill, told, row>>
           \/ FindRow(t, s)
           \/ InsertRowRefused(t, s)
    PROVE  RowInv'
<1>0. AllIsPast'
  BY QuietKeeps DEF FindRow, InsertRowRefused, billingVars
<1>1. CASE FindRow(t, s)
  BY <1>0, <1>1
  DEF FindRow, vars, outboxVars, tickVars, RowInv, TicksTyped, Announced, Heard
<1>2. CASE ~FindRow(t, s)
  <2>1. /\ handling[t][s] # "settled"
        /\ \E p \in Phases : Goto(t, s, p)
        /\ UNCHANGED <<status, batch, current, told>>
    BY <1>2 DEF FastCheck, Recheck, Mark, Commit, HandlerFails, InsertRowRefused, At, outboxVars,
       tickVars, billingVars, Phases
  <2> QED  BY <1>0, <2>1, HandlerMoves DEF RowInv
<1> QED  BY <1>1, <1>2

\* The row takes over what a message reports, which the bill has been.
LEMMA FlushKeeps ==
    ASSUME RowInv, NEW t \in Ticks, NEW s \in Subscribers, FlushRow(t, s)
    PROVE  RowInv'
<1> DEFINE event == told[current[t]]
<1>1. /\ handling[t][s] = "checked" /\ Goto(t, s, "written")
      /\ UNCHANGED <<status, batch, current, told, bill>>
  BY DEF FlushRow, Write, At, outboxVars, tickVars
<1>2. TicksTyped' /\ Announced' /\ Heard'
  BY <1>1, HandlerMoves DEF Phases
<1>3. current[t] \in Messages /\ event \in BillEvent \ {"BillingCancelled"}
  BY <1>1 DEF RowInv, Heard, TicksTyped
<1>4. row' = row \/ row' = Reports(event)
  <2>1. row' = IF RowAfter(event, seen[t]) = seen[t] THEN row ELSE RowAfter(event, seen[t])
    BY DEF FlushRow
  <2> QED  BY <1>3, <2>1, RowAfterReports
<1>5. AllIsPast'
  BY <1>1, <1>3, <1>4 DEF RowInv, AllIsPast
<1> QED  BY <1>2, <1>5 DEF RowInv

LEMMA CommandsKeep ==
    ASSUME RowInv, CreateBilling \/ MarkAsPaid \/ MarkAsFailed \/ Refund \/ Cancel
    PROVE  RowInv'
<1>1. {"none", "pending", "paid", "failed", "refunded", "cancelled"} \subseteq BillStatus
  BY DEF BillStatus
<1>2. \A e \in BillEvent : e \in BillEvent
  OBVIOUS
<1>3. CASE CreateBilling
  BY <1>1, <1>3, PastGrows, EmitKeeps DEF CreateBilling, Reports, BillEvent
<1>4. CASE MarkAsPaid
  BY <1>1, <1>4, PastGrows, EmitKeeps DEF MarkAsPaid, Reports, BillEvent
<1>5. CASE MarkAsFailed
  BY <1>1, <1>5, PastGrows, EmitKeeps DEF MarkAsFailed, Reports, BillEvent
<1>6. CASE Refund
  BY <1>1, <1>6, PastGrows, EmitKeeps DEF Refund, Reports, BillEvent
<1>7. CASE Cancel
  BY <1>1, <1>7, PastGrows, EmitKeeps DEF Cancel, Reports, BillEvent
<1> QED  BY <1>3, <1>4, <1>5, <1>6, <1>7

LEMMA RowStep == RowInv /\ [BillingNext]_<<vars, watchVars, billingVars>> => RowInv'
<1> SUFFICES ASSUME RowInv, [BillingNext]_<<vars, watchVars, billingVars>> PROVE RowInv'
  OBVIOUS
<1>1. CASE UNCHANGED <<vars, watchVars, billingVars>>
  BY <1>1 DEF vars, outboxVars, tickVars, billingVars, RowInv, TicksTyped, Announced, Heard, AllIsPast
<1>2. ASSUME NEW m \in Messages, BackoffElapses(m), UNCHANGED billingVars PROVE RowInv'
  BY <1>2 DEF BackoffElapses, tickVars, billingVars, RowInv, TicksTyped, Announced, Heard, AllIsPast
<1>3. ASSUME NEW t \in Ticks, Carry(t) PROVE RowInv'
  BY <1>3, TickKeeps, HandlerKeeps DEF Carry, billingVars
<1>4. ASSUME NEW t \in Ticks, BreakOff(t) PROVE RowInv'
  BY <1>4, TickKeeps, HandlerKeeps DEF BreakOff
<1>5. ASSUME NEW t \in Ticks, PublishBilling(t) \/ PublishUnheard(t) PROVE RowInv'
  BY <1>5, TickKeeps
<1>6. ASSUME NEW t \in Ticks, NEW s \in Subscribers, HandleBilling(t, s) \/ InsertRowRefused(t, s)
      PROVE  RowInv'
  BY <1>6, HandlerKeeps, FlushKeeps DEF HandleBilling
<1> QED
  BY <1>1, <1>2, <1>3, <1>4, <1>5, <1>6, CommandsKeep DEF BillingNext, BillingStep

\* Whatever is delivered twice, late or out of order, by however many ticks at
\* once, and whatever fails: the row shows a status the bill has or has had.
THEOREM RowAlwaysPast == BillingSpec => []RowIsPast
<1>1. RowInv => RowIsPast
  BY DEF RowInv, AllIsPast, RowIsPast
<1> QED  BY <1>1, InitialRow, RowStep, PTL DEF BillingSpec

-----------------------------------------------------------------------------
(* Types. *)

RestTyped ==
    /\ due \in [Messages -> BOOLEAN]
    /\ inbox \in SUBSET Messages
    /\ seen \in [Ticks -> BillStatus \cup {"unread"}]
    /\ row \in BillStatus \ {"cancelled"}

LEMMA RowAfterTyped ==
    ASSUME NEW event \in BillEvent \ {"BillingCancelled"},
           NEW found \in BillStatus, RowAfter(event, found) # found
    PROVE  RowAfter(event, found) \in BillStatus \ {"cancelled"}
BY DEF RowAfter, BillEvent, BillStatus

LEMMA RestTypedStep ==
    ASSUME RowInv, RestTyped, [BillingNext]_<<vars, watchVars, billingVars>>
    PROVE  RestTyped'
<1>1. due' \in [Messages -> BOOLEAN]
  BY DEF RestTyped, BillingNext, BillingStep, CreateBilling, MarkAsPaid, MarkAsFailed,
     Refund, Cancel, Emit, AppendMessage, BackoffElapses, PublishBilling, Publish,
     PublishUnheard, Carry, BreakOff, StartTick, MarkPublished, MarkFailed, Crash,
     FastCheck, Recheck, Mark, Commit, HandlerFails, HandleBilling, FindRow, FlushRow,
     Write, InsertRowRefused, outboxVars, vars
<1>2. inbox' \in SUBSET Messages
  <2>1. \/ inbox' = inbox
        \/ \E t \in Ticks : current[t] # Nothing /\ inbox' = inbox \cup {current[t]}
    BY DEF BillingNext, BillingStep, CreateBilling, MarkAsPaid, MarkAsFailed,
       Refund, Cancel, Emit, AppendMessage, BackoffElapses, PublishBilling, Publish,
       PublishUnheard, Carry, BreakOff, StartTick, MarkPublished, MarkFailed, Crash,
       FastCheck, Recheck, Mark, Commit, HandlerFails, HandleBilling, FindRow, FlushRow,
       Write, InsertRowRefused, At, readVars, vars
  <2> QED  BY <2>1 DEF RestTyped, RowInv, TicksTyped
<1>3. seen' \in [Ticks -> BillStatus \cup {"unread"}]
  <2>1. \/ seen' = seen
        \/ \E t \in Ticks : \/ seen' = [seen EXCEPT ![t] = "unread"]
                            \/ seen' = [seen EXCEPT ![t] = row]
    BY DEF BillingNext, BillingStep, CreateBilling, MarkAsPaid, MarkAsFailed,
       Refund, Cancel, Emit, PublishBilling, PublishUnheard, Carry, BreakOff,
       HandleBilling, FindRow, FlushRow, InsertRowRefused, billingVars
  <2> QED  BY <2>1 DEF RestTyped
<1>4. row' \in BillStatus \ {"cancelled"}
  <2>1. ASSUME NEW t \in Ticks, NEW s \in Subscribers, FlushRow(t, s)
        PROVE  row' \in BillStatus \ {"cancelled"}
    <3> DEFINE event == told[current[t]]
    <3>1. /\ handling[t][s] = "checked" /\ seen[t] # "unread"
          /\ row' = IF RowAfter(event, seen[t]) = seen[t] THEN row ELSE RowAfter(event, seen[t])
      BY <2>1 DEF FlushRow, Write, At
    <3>2. event \in BillEvent \ {"BillingCancelled"} /\ seen[t] \in BillStatus
      BY <3>1 DEF RowInv, Heard, TicksTyped, RestTyped
    <3> QED  BY <3>1, <3>2, RowAfterTyped DEF RestTyped
  <2>2. row' = row \/ \E t \in Ticks, s \in Subscribers : FlushRow(t, s)
    BY DEF BillingNext, BillingStep, CreateBilling, MarkAsPaid, MarkAsFailed,
       Refund, Cancel, Emit, PublishBilling, PublishUnheard, Carry, BreakOff,
       HandleBilling, FindRow, InsertRowRefused, billingVars
  <2> QED  BY <2>1, <2>2 DEF RestTyped
<1> QED  BY <1>1, <1>2, <1>3, <1>4 DEF RestTyped

LEMMA RestInitially == Init /\ BillingInit => RestTyped
BY DEF Init, BillingInit, RestTyped, BillStatus

\* The variables of the bill keep their types: whatever is delivered, the row
\* never shows a status that its table does not know.
THEOREM BillingTypeCorrect == BillingSpec => []BillingTypeOK
<1>1. RowInv /\ RestTyped => BillingTypeOK
  BY DEF RowInv, TicksTyped, AllIsPast, RestTyped, BillingTypeOK
<1>2. RowInv /\ RestTyped /\ [BillingNext]_<<vars, watchVars, billingVars>>
        => (RowInv /\ RestTyped)'
  BY RowStep, RestTypedStep
<1> QED  BY <1>1, <1>2, InitialRow, RestInitially, PTL DEF BillingSpec

-----------------------------------------------------------------------------
(* What the messages tell. *)

\* Messages are appended in their order; each reports what follows on the ones
\* before it, from the creation on; a cancellation is the last.
Told ==
    /\ \A k \in Messages : told[k] = "none" <=> status[k] = "absent"
    /\ \A k, m \in Messages : k < m /\ told[m] # "none" =>
         /\ told[k] \notin {"none", "BillingCancelled"}
         /\ told[m] # "BillingCancelled" => Reports(told[k]) \in Past(Reports(told[m]))
    /\ \A m \in Messages : told[m] \notin {"none", "BillingCreated"} =>
         \E k \in Messages : k < m /\ told[k] = "BillingCreated"

\* They lead to the bill's status.
ToldAll ==
    /\ \A m \in Messages : told[m] = "BillingCancelled" => bill = "cancelled"
    /\ \A m \in Messages : bill = "none" => told[m] = "none"
    /\ bill \notin {"none", "cancelled"} => \E m \in Messages : Reports(told[m]) = bill

\* The moves of a bill: status before and after, and the event.
BillMoves ==
    {<<"none", "pending", "BillingCreated">>, <<"pending", "paid", "BillingPaid">>,
     <<"pending", "failed", "BillingFailed">>, <<"paid", "refunded", "BillingRefunded">>,
     <<"pending", "cancelled", "BillingCancelled">>}

\* What a command does; the other steps append nothing, and only publish what
\* a tick has in hand.
Emitted(m, s0, s1, event) ==
    /\ <<s0, s1, event>> \in BillMoves
    /\ bill = s0 /\ bill' = s1
    /\ \A k \in Messages : k < m <=> told[k] # "none"
    /\ told[m] = "none" /\ told'[m] = event
    /\ status'[m] = "pending"
    /\ \A k \in Messages : k # m => told'[k] = told[k] /\ status'[k] = status[k]
    /\ UNCHANGED <<due, batch, current, handling, inbox, row, seen>>

LEMMA CommandsEmit ==
    ASSUME RowInv, CreateBilling \/ MarkAsPaid \/ MarkAsFailed \/ Refund \/ Cancel
    PROVE  \E m \in Messages, s0, s1 \in BillStatus, event \in BillEvent :
             Emitted(m, s0, s1, event)
<1>1. PICK s0 \in BillStatus, s1 \in BillStatus, event \in BillEvent :
        <<s0, s1, event>> \in BillMoves /\ Emit(s0, s1, event)
  BY DEF CreateBilling, MarkAsPaid, MarkAsFailed, Refund, Cancel, BillMoves, BillStatus,
     BillEvent
<1>2. PICK m \in Messages : /\ \A k \in Messages : k < m <=> told[k] # "none"
                            /\ told' = [told EXCEPT ![m] = event]
                            /\ AppendMessage(m)
  BY <1>1 DEF Emit
<1>3. ~(m < m)
  BY MessagesAssumption
<1>4. told'[m] = event /\ \A k \in Messages : k # m => told'[k] = told[k]
  BY <1>2 DEF RowInv, TicksTyped
<1>5. status'[m] = "pending" /\ \A k \in Messages : k # m => status'[k] = status[k]
  BY <1>2 DEF AppendMessage, RowInv, TicksTyped
<1>6. UNCHANGED <<due, batch, current, handling, inbox, row, seen>>
  BY <1>1, <1>2 DEF Emit, AppendMessage, tickVars, readVars
<1>7. Emitted(m, s0, s1, event)
  BY <1>1, <1>2, <1>3, <1>4, <1>5, <1>6 DEF Emit, Emitted
<1> QED  BY <1>7

LEMMA OthersAreQuiet ==
    ASSUME RowInv, [BillingNext]_<<vars, watchVars, billingVars>>,
           ~(CreateBilling \/ MarkAsPaid \/ MarkAsFailed \/ Refund \/ Cancel)
    PROVE  /\ UNCHANGED <<bill, told>>
           /\ \A k \in Messages : \/ status'[k] = status[k]
                                  \/ /\ \E t \in Ticks : k = current[t]
                                     /\ status'[k] = "published"
<1>1. UNCHANGED <<bill, told>>
  BY DEF BillingNext, BillingStep, PublishBilling, PublishUnheard, Carry, BreakOff,
     HandleBilling, FindRow, FlushRow, InsertRowRefused, billingVars
<1>2. \/ status' = status
      \/ \E t \in Ticks : status' = [status EXCEPT ![current[t]] = "published"]
  BY DEF BillingNext, BillingStep, BackoffElapses, PublishBilling, Publish,
     PublishUnheard, Carry, BreakOff, StartTick, MarkPublished, MarkFailed, Crash,
     FastCheck, Recheck, Mark, Commit, HandlerFails, HandleBilling, FindRow, FlushRow,
     Write, InsertRowRefused, outboxVars, vars
<1> QED  BY <1>1, <1>2 DEF RowInv, TicksTyped

\* What the moves have in common.
LEMMA MovesFacts ==
    ASSUME NEW s0, NEW s1, NEW event, <<s0, s1, event>> \in BillMoves
    PROVE  /\ s0 \notin {"cancelled"} /\ s1 # "none" /\ event # "none"
           /\ event = "BillingCancelled" <=> s1 = "cancelled"
           /\ event # "BillingCancelled" => Reports(event) = s1
           /\ event = "BillingCreated" <=> s0 = "none"
           /\ \A x : x \in Past(s0) => x \in Past(s1)
<1>1. \/ s0 = "none" /\ s1 = "pending" /\ event = "BillingCreated"
      \/ s0 = "pending" /\ s1 = "paid" /\ event = "BillingPaid"
      \/ s0 = "pending" /\ s1 = "failed" /\ event = "BillingFailed"
      \/ s0 = "paid" /\ s1 = "refunded" /\ event = "BillingRefunded"
      \/ s0 = "pending" /\ s1 = "cancelled" /\ event = "BillingCancelled"
  BY DEF BillMoves
<1> QED  BY <1>1, PastGrows DEF Reports

LEMMA ReportsNone == Reports("none") = "none"
BY DEF Reports

LEMMA ToldStep ==
    ASSUME RowInv, Told, ToldAll, [BillingNext]_<<vars, watchVars, billingVars>>
    PROVE  Told' /\ ToldAll'
<1>1. CASE ~(CreateBilling \/ MarkAsPaid \/ MarkAsFailed \/ Refund \/ Cancel)
  <2>1. /\ UNCHANGED <<bill, told>>
        /\ \A k \in Messages : \/ status'[k] = status[k]
                               \/ /\ \E t \in Ticks : k = current[t]
                                  /\ status'[k] = "published"
    BY <1>1, OthersAreQuiet
  <2>2. Nothing \notin Messages
    BY MessagesAssumption DEF Nothing
  <2>3. \A k \in Messages : status'[k] = "absent" <=> status[k] = "absent"
    BY <2>1, <2>2 DEF RowInv, Announced, Told
  <2> QED  BY <2>1, <2>3 DEF Told, ToldAll
<1>2. ASSUME NEW m \in Messages, NEW s0 \in BillStatus, NEW s1 \in BillStatus,
             NEW event \in BillEvent, Emitted(m, s0, s1, event)
      PROVE  Told' /\ ToldAll'
  <2>1. /\ s0 # "cancelled" /\ s1 # "none" /\ event # "none"
        /\ event = "BillingCancelled" <=> s1 = "cancelled"
        /\ event # "BillingCancelled" => Reports(event) = s1
        /\ event = "BillingCreated" <=> s0 = "none"
        /\ \A x : x \in Past(s0) => x \in Past(s1)
    BY <1>2, MovesFacts DEF Emitted
  <2>2. /\ bill = s0 /\ bill' = s1
        /\ told[m] = "none" /\ told'[m] = event /\ status'[m] = "pending"
        /\ \A k \in Messages : k # m => told'[k] = told[k] /\ status'[k] = status[k]
        /\ \A k \in Messages : k < m <=> told[k] # "none"
    BY <1>2 DEF Emitted
  <2>3. \A k \in Messages : told'[k] = "none" <=> status'[k] = "absent"
    BY <2>1, <2>2 DEF Told
  <2>4. ASSUME NEW k \in Messages, NEW j \in Messages, k < j, told'[j] # "none"
        PROVE  /\ told'[k] \notin {"none", "BillingCancelled"}
               /\ told'[j] # "BillingCancelled" => Reports(told'[k]) \in Past(Reports(told'[j]))
    <3>1. CASE j = m
      <4>1. told[k] # "none" /\ k # m
        BY <2>2, <2>4, <3>1
      <4>2. told[k] # "BillingCancelled" /\ Reports(told[k]) \in Past(s0)
        BY <2>1, <2>2 DEF ToldAll, RowInv, AllIsPast
      <4> QED  BY <2>1, <2>2, <3>1, <4>1, <4>2
    <3>2. CASE j # m
      <4>1. j < m
        BY <2>2, <2>4, <3>2
      <4>2. k # m
        BY <4>1, <2>4, MessagesAssumption
      <4> QED  BY <2>2, <2>4, <3>2, <4>2 DEF Told
    <3> QED  BY <3>1, <3>2
  <2>5. ASSUME NEW j \in Messages, told'[j] \notin {"none", "BillingCreated"}
        PROVE  \E k \in Messages : k < j /\ told'[k] = "BillingCreated"
    <3>1. CASE j # m
      BY <2>2, <2>5, <3>1 DEF Told
    <3>2. CASE j = m
      <4>1. bill \notin {"none", "cancelled"}
        BY <2>1, <2>2, <2>5, <3>2
      <4>2. PICK i \in Messages : Reports(told[i]) = bill
        BY <4>1 DEF ToldAll
      <4>3. told[i] # "none"
        BY <4>1, <4>2, ReportsNone
      <4>4. PICK k \in Messages : told[k] = "BillingCreated"
        BY <4>3 DEF Told
      <4>5. k < m /\ k # m
        BY <2>2, <4>4
      <4> QED  BY <2>2, <3>2, <4>4, <4>5
    <3> QED  BY <3>1, <3>2
  <2>6. Told'
    BY <2>3, <2>4, <2>5 DEF Told
  <2>7. ToldAll'
    BY <2>1, <2>2 DEF ToldAll
  <2> QED  BY <2>6, <2>7
<1> QED  BY <1>1, <1>2, CommandsEmit

-----------------------------------------------------------------------------
(* The queue of a bill while the delivery is not disturbed. *)

\* Nothing (more) comes of a message: its subscriber has processed it, or it
\* has none.
Gone(k) == k \in inbox \/ told[k] = "BillingCancelled"

\* What is not gone is still listed by the next tick, and a handler has come to
\* the end of its message only when that is gone.
Waiting ==
    /\ \A k \in Messages : ~Gone(k) => status[k] # "published" /\ due[k]
    /\ \A t \in Ticks, s \in Subscribers :
         current[t] # Nothing /\ handling[t][s] = "settled" => Gone(current[t])

\* A tick has the predecessors of what it listed in hand or behind it.
BillTicksInOrder ==
    /\ \A t \in Ticks : \A m \in batch[t], k \in Messages :
         k < m => Gone(k) \/ k \in batch[t] \/ k = current[t]
    /\ \A t \in Ticks, k \in Messages : k < current[t] => k \in inbox

\* What the inbox has was listened to, after everything before it.
InboxHeard ==
    \A m \in inbox :
        /\ told[m] \notin {"none", "BillingCancelled"}
        /\ \A k \in Messages : k < m => k \in inbox

\* A handler past its second check is not repeating a processed message; the mark
\* makes it one.
NotRepeated ==
    \A t \in Ticks, s \in Subscribers :
        /\ handling[t][s] \in {"checked", "written"} => current[t] \notin inbox
        /\ handling[t][s] = "marked" => current[t] \in inbox

BillQueue == Waiting /\ BillTicksInOrder /\ InboxHeard /\ NotRepeated

\* A handler writes what it has found and decided on: nobody else writes.
FoundIsRow ==
    \A t \in Ticks, s \in Subscribers :
        seen[t] # "unread" => handling[t][s] = "checked" /\ seen[t] = row

\* The row has got as far as the messages that were processed or written, and
\* no further than the first that is not processed.
RowKeepsUp ==
    /\ \A m \in inbox : Reports(told[m]) \in Past(row)
    /\ \A t \in Ticks, s \in Subscribers :
         handling[t][s] \in {"written", "marked"} => Reports(told[current[t]]) \in Past(row)
    /\ row # "none" =>
         \E j \in Messages : /\ Reports(told[j]) = row
                             /\ \A k \in Messages : k < j => k \in inbox

BillRow == FoundIsRow /\ RowKeepsUp

\* What is known of every state, and of those before a disturbance.
Sound == RowInv /\ RestTyped /\ Told /\ ToldAll
Calm == ~Overlapping /\ BillQueue /\ BillRow

-----------------------------------------------------------------------------
(* Calm under each step. *)

LEMMA NumbersFacts ==
    /\ \A m \in Messages : m \in Nat /\ m # Nothing /\ ~(m < Nothing)
    /\ Nothing \notin Messages
BY MessagesAssumption DEF Nothing

LEMMA EmitCalm ==
    ASSUME Sound, BillQueue, BillRow, NEW m \in Messages, NEW s0, NEW s1,
           NEW event, Emitted(m, s0, s1, event)
    PROVE  BillQueue' /\ BillRow'
<1>1. /\ told[m] = "none" /\ status'[m] = "pending"
      /\ \A k \in Messages : k # m => told'[k] = told[k] /\ status'[k] = status[k]
      /\ UNCHANGED <<due, batch, current, handling, inbox, row, seen>>
  BY DEF Emitted
<1>2. m \notin inbox
  BY <1>1 DEF BillQueue, InboxHeard
<1>3. \A k \in Messages : Gone(k) => Gone(k)'
  BY <1>1 DEF Gone
<1>4. ~Gone(m)
  BY <1>1, <1>2 DEF Gone
<1>5. \A t \in Ticks : /\ batch[t] \subseteq Messages
                       /\ current[t] \in Messages \cup {Nothing}
  BY DEF Sound, RowInv, TicksTyped
<1>6. Waiting'
  <2>1. \A k \in Messages : ~Gone(k)' => status'[k] # "published" /\ due'[k]
    BY <1>1, <1>3, <1>4 DEF BillQueue, Waiting
  <2>2. \A t \in Ticks, s \in Subscribers :
          current'[t] # Nothing /\ handling'[t][s] = "settled" => Gone(current[t])'
    BY <1>1, <1>3, <1>5 DEF BillQueue, Waiting
  <2> QED  BY <1>1, <2>1, <2>2 DEF Waiting
<1>7. BillTicksInOrder'
  BY <1>1, <1>3, <1>5 DEF BillQueue, BillTicksInOrder
<1>8. InboxHeard' /\ NotRepeated'
  <2>1. inbox \subseteq Messages
    BY DEF Sound, RestTyped
  <2> QED  BY <1>1, <1>2, <2>1 DEF BillQueue, InboxHeard, NotRepeated
<1>9. FoundIsRow'
  BY <1>1 DEF BillRow, FoundIsRow
<1>10. RowKeepsUp'
  <2>1. \A k \in inbox : told'[k] = told[k]
    BY <1>1, <1>2 DEF Sound, RestTyped
  <2>2. \A t \in Ticks, s \in Subscribers :
          handling[t][s] \in {"written", "marked"} => told'[current[t]] = told[current[t]]
    BY <1>1 DEF Sound, RowInv, Heard
  <2>3. row # "none" => \E j \in Messages : /\ Reports(told'[j]) = row
                                            /\ \A k \in Messages : k < j => k \in inbox
    <3> SUFFICES ASSUME row # "none"
                 PROVE  \E j \in Messages : /\ Reports(told'[j]) = row
                                            /\ \A k \in Messages : k < j => k \in inbox
      OBVIOUS
    <3>1. PICK j \in Messages : /\ Reports(told[j]) = row
                                /\ \A k \in Messages : k < j => k \in inbox
      BY DEF BillRow, RowKeepsUp
    <3>2. j # m
      BY <1>1, <3>1, ReportsNone
    <3> QED  BY <1>1, <3>1, <3>2
  <2> QED  BY <1>1, <2>1, <2>2, <2>3 DEF BillRow, RowKeepsUp
<1> QED  BY <1>6, <1>7, <1>8, <1>9, <1>10 DEF BillQueue, BillRow

\* The steps that leave messages, inbox and row alone keep the row where it
\* is, given that a handler that has written is one that had.
LEMMA RowCalm ==
    ASSUME BillRow, UNCHANGED <<told, row, inbox>>,
           \A t \in Ticks : seen'[t] # "unread" =>
             /\ \A s \in Subscribers : handling'[t][s] = "checked"
             /\ seen'[t] = row,
           \A t \in Ticks, s \in Subscribers : handling'[t][s] \in {"written", "marked"} =>
             handling[t][s] \in {"written", "marked"} /\ current'[t] = current[t]
    PROVE  BillRow'
BY DEF BillRow, FoundIsRow, RowKeepsUp

LEMMA BackoffCalm ==
    ASSUME Sound, BillQueue, BillRow, NEW m \in Messages, BackoffElapses(m),
           UNCHANGED billingVars
    PROVE  BillQueue' /\ BillRow'
<1>1. /\ UNCHANGED <<status, batch, current, handling, inbox, told, row, seen>>
      /\ \A k \in Messages : due[k] => due'[k]
  BY DEF BackoffElapses, tickVars, readVars, billingVars, Sound, RestTyped
<1> QED
  BY <1>1 DEF BillQueue, Waiting, BillTicksInOrder, InboxHeard, NotRepeated, Gone,
     BillRow, FoundIsRow, RowKeepsUp

LEMMA StartTickCalm ==
    ASSUME Sound, BillQueue, BillRow, NEW t \in Ticks, StartTick(t), UNCHANGED billingVars
    PROVE  BillQueue' /\ BillRow'
<1>1. /\ batch' = [batch EXCEPT ![t] = FirstOf(Due, Limit)]
      /\ UNCHANGED <<status, due, current, handling, inbox, told, row, seen>>
  BY DEF StartTick, outboxVars, readVars, billingVars
<1>2. \A u \in Ticks : batch'[u] = IF u = t THEN FirstOf(Due, Limit) ELSE batch[u]
  BY <1>1 DEF Sound, RowInv, TicksTyped
<1>3. ASSUME NEW m \in FirstOf(Due, Limit), NEW k \in Messages, k < m
      PROVE  Gone(k) \/ k \in FirstOf(Due, Limit)
  <2>1. m \in Due /\ m \in Messages /\ status[m] = "pending" /\ Due \in SUBSET Nat
    BY NumbersFacts DEF FirstOf, Due
  <2>2. status[k] # "absent"
    BY <1>3, <2>1 DEF Sound, Told
  <2>3. ~Gone(k) => k \in Due
    BY <2>2 DEF Due, BillQueue, Waiting, Sound, RowInv, TicksTyped
  <2> QED  BY <1>3, <2>1, <2>3, FirstOfIsPrefix, LimitAssumption
<1>4. BillTicksInOrder'
  BY <1>1, <1>2, <1>3 DEF BillQueue, BillTicksInOrder, Gone
<1>5. Waiting' /\ InboxHeard' /\ NotRepeated'
  BY <1>1 DEF BillQueue, Waiting, InboxHeard, NotRepeated, Gone
<1>6. BillRow'
  BY <1>1 DEF BillRow, FoundIsRow, RowKeepsUp
<1> QED  BY <1>4, <1>5, <1>6 DEF BillQueue

\* A tick takes the first of its list to the handlers, if there are any.
LEMMA PublishCalm ==
    ASSUME Sound, BillQueue, BillRow, NEW t \in Ticks, PublishBilling(t) \/ PublishUnheard(t)
    PROVE  BillQueue' /\ BillRow'
<1>1. PICK m \in batch[t] : /\ \A k \in batch[t] : m <= k
                            /\ PublishUnheard(t) => told[m] = "BillingCancelled"
                            /\ current' = [current EXCEPT ![t] = m]
                            /\ batch' = [batch EXCEPT ![t] = @ \ {m}]
  BY DEF PublishBilling, Publish, PublishUnheard
<1>2. /\ current[t] = Nothing
      /\ UNCHANGED <<status, due, inbox, told, row, seen>>
  BY DEF PublishBilling, Publish, PublishUnheard, outboxVars, readVars, billingVars
<1>3. /\ m \in Messages /\ told[m] # "none"
      /\ \A u \in Ticks : current'[u] = IF u = t THEN m ELSE current[u]
      /\ \A u \in Ticks : batch'[u] = IF u = t THEN batch[t] \ {m} ELSE batch[u]
  BY <1>1 DEF Sound, RowInv, TicksTyped, Announced
<1>4. \A s \in Subscribers : handling[t][s] = "settled"
  BY <1>2, NumbersFacts DEF Sound, RowInv, Heard
<1>5. \A u \in Ticks, s \in Subscribers :
        handling'[u][s] = IF u = t /\ PublishBilling(t) THEN "called" ELSE handling[u][s]
  BY <1>4 DEF PublishBilling, Publish, PublishUnheard, Sound, RowInv, TicksTyped
<1>6. Waiting'
  <2>1. \A u \in Ticks, s \in Subscribers :
          current'[u] # Nothing /\ handling'[u][s] = "settled" => Gone(current'[u])
    BY <1>1, <1>3, <1>5 DEF BillQueue, Waiting, Gone
  <2> QED  BY <1>2, <2>1 DEF BillQueue, Waiting, Gone
<1>7. BillTicksInOrder'
  <2>1. ASSUME NEW u \in Ticks, NEW j \in batch'[u], NEW k \in Messages, k < j
        PROVE  Gone(k) \/ k \in batch'[u] \/ k = current'[u]
    BY <1>2, <1>3, <2>1, NumbersFacts DEF BillQueue, BillTicksInOrder
  <2>2. ASSUME NEW u \in Ticks, NEW k \in Messages, k < current'[u]
        PROVE  k \in inbox
    <3>1. CASE u # t
      BY <1>3, <2>2, <3>1 DEF BillQueue, BillTicksInOrder
    <3>2. CASE u = t
      <4>1. k < m /\ k \notin batch[t] /\ k # Nothing
        <5>1. k < m /\ k \in Nat /\ m \in Nat /\ k # Nothing
          BY <1>3, <2>2, <3>2, NumbersFacts
        <5>2. ~(m <= k)
          BY <5>1
        <5> QED  BY <1>1, <5>1, <5>2
      <4>2. Gone(k)
        BY <1>2, <4>1 DEF BillQueue, BillTicksInOrder
      <4>3. told[k] # "BillingCancelled"
        BY <1>3, <4>1 DEF Sound, Told
      <4> QED  BY <4>2, <4>3 DEF Gone
    <3> QED  BY <3>1, <3>2
  <2> QED  BY <1>2, <2>1, <2>2 DEF BillTicksInOrder, Gone
<1>8. InboxHeard' /\ NotRepeated'
  <2>1. \A u \in Ticks, s \in Subscribers :
          handling'[u][s] \in {"checked", "written", "marked"} =>
            handling'[u][s] = handling[u][s] /\ current'[u] = current[u]
    BY <1>3, <1>4, <1>5
  <2> QED  BY <1>2, <2>1 DEF BillQueue, InboxHeard, NotRepeated
<1>9. BillRow'
  BY <1>2, <1>3, <1>4, <1>5, SubscribersAssumption DEF BillRow, FoundIsRow, RowKeepsUp
<1> QED  BY <1>6, <1>7, <1>8, <1>9 DEF BillQueue

\* It ends with a message, or dies.
LEMMA EndCalm ==
    ASSUME Sound, BillQueue, BillRow, NEW t \in Ticks,
           \/ (MarkPublished(t) \/ MarkFailed(t)) /\ UNCHANGED billingVars
           \/ Crash(t) /\ BreakOff(t)
    PROVE  BillQueue' /\ BillRow'
<1>1. /\ UNCHANGED <<inbox, told, row>>
      /\ \A u \in Ticks : seen'[u] # "unread" => seen'[u] = seen[u]
  BY DEF MarkPublished, MarkFailed, Crash, BreakOff, readVars, billingVars, Sound, RestTyped
<1>2. \A k \in Messages : Gone(k) \/ (status'[k] = status[k] /\ due'[k] = due[k])
  <2>1. CASE MarkPublished(t) \/ MarkFailed(t)
    <3>1. Gone(current[t]) /\ current[t] \in Messages
      BY <2>1, SubscribersAssumption DEF MarkPublished, MarkFailed, Delivered, BillQueue,
         Waiting, Sound, RowInv, TicksTyped
    <3>2. \A k \in Messages : k # current[t] => status'[k] = status[k] /\ due'[k] = due[k]
      BY <2>1, <3>1 DEF MarkPublished, MarkFailed, Sound, RowInv, TicksTyped, RestTyped
    <3> QED  BY <3>1, <3>2
  <2>2. CASE Crash(t)
    BY <2>2 DEF Crash, outboxVars
  <2> QED  BY <2>1, <2>2
<1>3. \A u \in Ticks :
        /\ current'[u] = IF u = t THEN Nothing ELSE current[u]
        /\ batch'[u] = batch[u] \/ (u = t /\ batch'[u] = {})
        /\ \A s \in Subscribers : handling'[u][s] = IF u = t THEN "settled" ELSE handling[u][s]
  <2>1. CASE MarkPublished(t) \/ MarkFailed(t)
    BY <2>1 DEF MarkPublished, MarkFailed, Delivered, Sound, RowInv, TicksTyped
  <2>2. CASE Crash(t)
    BY <2>2 DEF Crash, Sound, RowInv, TicksTyped
  <2> QED  BY <2>1, <2>2
<1>4. current[t] = Nothing \/ Gone(current[t]) \/ batch'[t] = {}
  BY SubscribersAssumption DEF MarkPublished, MarkFailed, Delivered, Crash, BillQueue,
     Waiting, Sound, RowInv, TicksTyped
<1>5. Waiting'
  BY <1>1, <1>2, <1>3 DEF BillQueue, Waiting, Gone
<1>6. BillTicksInOrder'
  BY <1>1, <1>3, <1>4, NumbersFacts DEF BillQueue, BillTicksInOrder, Gone
<1>7. InboxHeard' /\ NotRepeated'
  BY <1>1, <1>3 DEF BillQueue, InboxHeard, NotRepeated
<1>8. BillRow'
  <2>1. seen'[t] = "unread"
    BY SubscribersAssumption DEF MarkPublished, MarkFailed, Delivered, BreakOff, billingVars,
       BillRow, FoundIsRow, Sound, RestTyped
  <2>2. ASSUME NEW u \in Ticks, seen'[u] # "unread"
        PROVE  (\A s \in Subscribers : handling'[u][s] = "checked") /\ seen'[u] = row
    BY <1>1, <1>3, <2>1, <2>2, SubscribersAssumption DEF BillRow, FoundIsRow
  <2>3. ASSUME NEW u \in Ticks, NEW s \in Subscribers,
               handling'[u][s] \in {"written", "marked"}
        PROVE  handling[u][s] \in {"written", "marked"} /\ current'[u] = current[u]
    BY <1>3, <2>3
  <2> QED  BY <1>1, <2>2, <2>3, RowCalm
<1> QED  BY <1>5, <1>6, <1>7, <1>8 DEF BillQueue

\* A handler that moves on without writing or marking.
LEMMA HandlerCalm ==
    ASSUME \A r, s \in Subscribers : r = s, Sound, BillQueue, BillRow,
           NEW t \in Ticks, NEW s \in Subscribers,
           \/ (FastCheck(t, s) \/ Recheck(t, s) \/ Commit(t, s)) /\ UNCHANGED billingVars
           \/ FindRow(t, s)
    PROVE  BillQueue' /\ BillRow'
<1>1. /\ UNCHANGED <<status, due, batch, current, inbox, told, row>>
      /\ current[t] # Nothing
  BY DEF FastCheck, Recheck, Commit, FindRow, At, outboxVars, tickVars, readVars,
     billingVars, vars
<1>2. /\ \A u \in Ticks, r \in Subscribers : u # t => handling'[u][r] = handling[u][r]
      /\ handling'[t][s] = "settled" => current[t] \in inbox
      /\ handling'[t][s] \in {"checked", "written"} =>
           handling[t][s] \in {"checked", "written"} \/ current[t] \notin inbox
      /\ handling'[t][s] \notin {"written", "marked"}
  BY DEF FastCheck, Recheck, Commit, FindRow, At, Goto, Processed, vars, Sound, RowInv,
     TicksTyped, BillQueue, NotRepeated
<1>3. /\ \A u \in Ticks : u # t => seen'[u] = seen[u]
      /\ seen'[t] # "unread" => handling'[t][s] = "checked" /\ seen'[t] = row
  <2>1. CASE FindRow(t, s)
    BY <2>1 DEF FindRow, At, vars, Sound, RestTyped
  <2>2. CASE UNCHANGED billingVars /\ (FastCheck(t, s) \/ Recheck(t, s) \/ Commit(t, s))
    <3>1. seen' = seen /\ handling[t][s] # "checked"
      BY <2>2 DEF FastCheck, Recheck, Commit, At, billingVars
    <3> QED  BY <3>1 DEF BillRow, FoundIsRow
  <2> QED  BY <2>1, <2>2
<1>4. Waiting'
  BY <1>1, <1>2 DEF BillQueue, Waiting, Gone
<1>5. BillTicksInOrder' /\ InboxHeard'
  BY <1>1 DEF BillQueue, BillTicksInOrder, InboxHeard, Gone
<1>6. NotRepeated'
  BY <1>1, <1>2 DEF BillQueue, NotRepeated
<1>7. BillRow'
  BY <1>1, <1>2, <1>3 DEF BillRow, FoundIsRow, RowKeepsUp
<1> QED  BY <1>4, <1>5, <1>6, <1>7 DEF BillQueue

\* The mark puts the message into the inbox that the row has caught up with.
LEMMA MarkCalm ==
    ASSUME \A r, s \in Subscribers : r = s, Sound, Calm,
           NEW t \in Ticks, NEW s \in Subscribers, Mark(t, s), UNCHANGED billingVars
    PROVE  BillQueue' /\ BillRow'
<1>1. /\ UNCHANGED <<status, due, batch, current, told, row, seen>>
      /\ current[t] # Nothing /\ handling[t][s] = "written"
      /\ inbox' = inbox \cup {current[t]}
  BY DEF Mark, At, outboxVars, tickVars, billingVars
<1>2. /\ \A u \in Ticks, r \in Subscribers : u # t => handling'[u][r] = handling[u][r]
      /\ handling'[t][s] = "marked"
  BY DEF Mark, Goto, Sound, RowInv, TicksTyped
<1>3. /\ current[t] \in Messages /\ told[current[t]] \notin {"none", "BillingCancelled"}
      /\ \A k \in Messages : k < current[t] => k \in inbox
  BY <1>1 DEF Sound, RowInv, Heard, Calm, BillQueue, BillTicksInOrder
<1>4. \A u \in Ticks : u # t => current[u] = Nothing
  BY <1>1 DEF Calm, Overlapping, Idle
<1>5. Waiting'
  BY <1>1, <1>2 DEF Calm, BillQueue, Waiting, Gone
<1>6. BillTicksInOrder'
  BY <1>1 DEF Calm, BillQueue, BillTicksInOrder, Gone
<1>7. InboxHeard'
  BY <1>1, <1>3 DEF Calm, BillQueue, InboxHeard
<1>8. NotRepeated'
  <2> SUFFICES ASSUME NEW u \in Ticks, NEW r \in Subscribers, handling'[u][r] # "settled"
               PROVE  u = t /\ r = s
    BY <1>1, <1>2 DEF NotRepeated
  <2>1. u # t => handling[u][r] # "settled"
    BY <1>2
  <2> QED  BY <1>4, <2>1, NumbersFacts DEF Sound, RowInv, Heard
<1>9. BillRow'
  BY <1>1, <1>2 DEF Calm, BillRow, FoundIsRow, RowKeepsUp
<1> QED  BY <1>5, <1>6, <1>7, <1>8, <1>9 DEF BillQueue

\* What a status has behind it, the statuses behind it had.
LEMMA PastTransitive ==
    \A x, y, z \in BillStatus : x \in Past(y) /\ y \in Past(z) => x \in Past(z)
BY DEF Past, BillStatus

LEMMA PastAntisymmetric ==
    \A x, y \in BillStatus : x \in Past(y) /\ y \in Past(x) => x = y
BY DEF Past, BillStatus

LEMMA ReportsTyped == \A e \in BillEvent \cup {"none"} : Reports(e) \in BillStatus
BY DEF Reports, BillEvent, BillStatus

\* The heart of the matter: at the flush the row is still what was found, it
\* has got as far as every earlier message, and no further than this one; the
\* event takes it one step on, or finds it there already.
LEMMA FlushFacts ==
    ASSUME Sound, BillQueue, BillRow,
           NEW t \in Ticks, NEW s \in Subscribers, FlushRow(t, s)
    PROVE  /\ Reports(told[current[t]]) \in Past(row')
           /\ row \in Past(row')
           /\ row' = row \/ row' = Reports(told[current[t]])
<1> DEFINE m == current[t]
           event == told[current[t]]
<1>1. /\ handling[t][s] = "checked" /\ seen[t] = row
      /\ row' = IF RowAfter(event, row) = row THEN row ELSE RowAfter(event, row)
  BY DEF FlushRow, Write, At, BillRow, FoundIsRow
<1>2. m \in Messages /\ event \in BillEvent \ {"BillingCancelled"} /\ row \in BillStatus
  BY <1>1 DEF Sound, RowInv, Heard, TicksTyped, RestTyped
<1>3. m \notin inbox /\ \A k \in Messages : k < m => k \in inbox
  BY <1>1 DEF BillQueue, NotRepeated, BillTicksInOrder
<1>4. row \in Past(row) /\ "none" \in Past(row) /\ (row # "none" => "pending" \in Past(row))
  BY <1>2 DEF Past, BillStatus, Sound, RestTyped
<1>5. CASE event = "BillingCreated"
  <2>1. Reports(event) = "pending" /\ row' = IF row = "none" THEN "pending" ELSE row
    BY <1>1, <1>5 DEF RowAfter, Reports
  <2> QED  BY <1>4, <2>1 DEF Past
<1>6. CASE event # "BillingCreated"
  <2>1. PICK k \in Messages : k < m /\ told[k] = "BillingCreated"
    BY <1>2, <1>6 DEF Sound, Told, BillEvent
  <2>2. row # "none"
    BY <1>3, <2>1 DEF Reports, BillRow, RowKeepsUp, Past
  <2>3. row' = Reports(event)
    BY <1>1, <1>2, <1>6, <2>2 DEF RowAfter, Reports, BillEvent
  <2>4. PICK j \in Messages : Reports(told[j]) = row /\ \A i \in Messages : i < j => i \in inbox
    BY <2>2 DEF BillRow, RowKeepsUp
  <2>5. j = m \/ j < m
    <3>1. ~(m < j) /\ m \in Nat /\ j \in Nat
      BY <1>2, <1>3, <2>4, NumbersFacts
    <3> QED  BY <3>1
  <2>6. row \in Past(Reports(event))
    <3>1. CASE j = m
      BY <1>2, <1>4, <2>4, <3>1
    <3>2. CASE j < m
      <4>1. event # "none" /\ event # "BillingCancelled"
        BY <1>2 DEF BillEvent
      <4>2. Reports(told[j]) \in Past(Reports(event))
        BY <1>2, <3>2, <4>1 DEF Sound, Told
      <4> QED  BY <2>4, <4>2
    <3> QED  BY <2>5, <3>1, <3>2
  <2>7. Reports(event) \in Past(Reports(event))
    BY <1>2, ReportsTyped, PastGrows
  <2> QED  BY <2>3, <2>6, <2>7
<1> QED  BY <1>5, <1>6

LEMMA FlushCalm ==
    ASSUME \A r, s \in Subscribers : r = s, Sound, Calm,
           NEW t \in Ticks, NEW s \in Subscribers, FlushRow(t, s), RestTyped'
    PROVE  BillQueue' /\ BillRow'
<1>1. /\ UNCHANGED <<status, due, batch, current, inbox, told>>
      /\ handling[t][s] = "checked" /\ current[t] # Nothing
      /\ seen' = [seen EXCEPT ![t] = "unread"]
  BY DEF FlushRow, Write, At, outboxVars, tickVars
<1>2. /\ \A u \in Ticks, r \in Subscribers : u # t => handling'[u][r] = handling[u][r]
      /\ handling'[t][s] = "written"
      /\ \A u \in Ticks : seen'[u] = IF u = t THEN "unread" ELSE seen[u]
  BY <1>1 DEF FlushRow, Write, Goto, Sound, RowInv, TicksTyped, RestTyped
<1>3. \A u \in Ticks : u # t => \A r \in Subscribers : handling[u][r] = "settled"
  <2>1. \A u \in Ticks : u # t => current[u] = Nothing
    BY <1>1 DEF Calm, Overlapping, Idle
  <2> QED  BY <2>1, NumbersFacts DEF Sound, RowInv, Heard
<1>4. /\ Reports(told[current[t]]) \in Past(row')
      /\ row \in Past(row')
      /\ row' = row \/ row' = Reports(told[current[t]])
  BY FlushFacts DEF Calm
<1>5. Waiting'
  BY <1>1, <1>2 DEF Calm, BillQueue, Waiting, Gone
<1>6. BillTicksInOrder' /\ InboxHeard'
  BY <1>1 DEF Calm, BillQueue, BillTicksInOrder, InboxHeard, Gone
<1>7. NotRepeated'
  BY <1>1, <1>2 DEF Calm, BillQueue, NotRepeated
<1>8. FoundIsRow'
  BY <1>2, <1>3, SubscribersAssumption DEF Calm, BillRow, FoundIsRow
<1>9. RowKeepsUp'
  <2>1. ASSUME NEW k \in inbox PROVE Reports(told[k]) \in Past(row')
    <3>1. Reports(told[k]) \in Past(row) /\ Reports(told[k]) \in BillStatus
      BY ReportsTyped DEF Calm, BillRow, RowKeepsUp, Sound, RestTyped, RowInv, TicksTyped
    <3> QED  BY <1>4, <3>1, PastTransitive DEF Sound, RestTyped
  <2>2. \A u \in Ticks, r \in Subscribers : handling'[u][r] \in {"written", "marked"} =>
          Reports(told[current[u]]) \in Past(row')
    BY <1>2, <1>3, <1>4
  <2>3. row' # "none" => \E j \in Messages : /\ Reports(told[j]) = row'
                                             /\ \A k \in Messages : k < j => k \in inbox
    <3>1. current[t] \in Messages /\ \A k \in Messages : k < current[t] => k \in inbox
      BY <1>1 DEF Sound, RowInv, Heard, Calm, BillQueue, BillTicksInOrder
    <3> QED  BY <1>4, <3>1 DEF Calm, BillRow, RowKeepsUp
  <2> QED  BY <1>1, <2>1, <2>2, <2>3 DEF RowKeepsUp
<1> QED  BY <1>5, <1>6, <1>7, <1>8, <1>9 DEF BillQueue, BillRow

-----------------------------------------------------------------------------
(* The theorems about the row. *)

LEMMA SoundStep ==
    ASSUME Sound, [BillingNext]_<<vars, watchVars, billingVars>>
    PROVE  Sound'
BY RowStep, RestTypedStep, ToldStep DEF Sound

LEMMA SoundInitially == Init /\ BillingInit => Sound
<1>1. Init /\ BillingInit => Told /\ ToldAll
  BY DEF Init, BillingInit, Told, ToldAll
<1> QED  BY <1>1, InitialRow, RestInitially DEF Sound

LEMMA CalmStep ==
    ASSUME \A r, s \in Subscribers : r = s, Sound, ~disturbed => Calm,
           [BillingNext]_<<vars, watchVars, billingVars>>
    PROVE  (~disturbed => Calm)'
<1> SUFFICES ASSUME ~disturbed' PROVE Calm'
  OBVIOUS
<1>1. CASE UNCHANGED <<vars, watchVars, billingVars>>
  <2>1. Calm
    BY <1>1 DEF watchVars
  <2>2. UNCHANGED <<status, due, batch, current, handling, inbox, told, row, seen>>
    BY <1>1 DEF vars, outboxVars, tickVars, readVars, billingVars
  <2> QED
    BY <2>1, <2>2 DEF Calm, Overlapping, Idle, BillQueue, Waiting, BillTicksInOrder, Gone,
       InboxHeard, NotRepeated, BillRow, FoundIsRow, RowKeepsUp
<1>2. CASE BillingNext
  <2>1. /\ Calm /\ ~Overlapping'
        /\ \A t \in Ticks, s \in Subscribers : ~HandlerFails(t, s)
    BY <1>2 DEF BillingNext, Watch
  <2>2. BillQueue /\ BillRow
    BY <2>1 DEF Calm
  <2>3. \A t \in Ticks, s \in Subscribers : ~InsertRowRefused(t, s)
    BY <2>2 DEF InsertRowRefused, BillRow, FoundIsRow
  <2>4. RestTyped'
    BY SoundStep DEF Sound
  <2>5. CASE CreateBilling \/ MarkAsPaid \/ MarkAsFailed \/ Refund \/ Cancel
    BY <2>1, <2>2, <2>5, CommandsEmit, EmitCalm DEF Sound, Calm
  <2>6. ASSUME NEW m \in Messages, BackoffElapses(m), UNCHANGED billingVars
        PROVE  Calm'
    BY <2>1, <2>2, <2>6, BackoffCalm DEF Calm
  <2>7. ASSUME NEW t \in Ticks, PublishBilling(t) \/ PublishUnheard(t) PROVE Calm'
    BY <2>1, <2>2, <2>7, PublishCalm DEF Calm
  <2>8. ASSUME NEW t \in Ticks, Carry(t) PROVE Calm'
    BY <2>1, <2>2, <2>8, StartTickCalm, EndCalm, HandlerCalm, MarkCalm DEF Carry, Calm
  <2>9. ASSUME NEW t \in Ticks, BreakOff(t) PROVE Calm'
    BY <2>1, <2>2, <2>9, EndCalm DEF BreakOff, Calm
  <2>10. ASSUME NEW t \in Ticks, NEW s \in Subscribers, HandleBilling(t, s) PROVE Calm'
    BY <2>1, <2>2, <2>4, <2>10, HandlerCalm, FlushCalm DEF HandleBilling, Calm
  <2> QED
    BY <1>2, <2>3, <2>5, <2>6, <2>7, <2>8, <2>9, <2>10 DEF BillingNext, BillingStep
<1> QED  BY <1>1, <1>2

LEMMA CalmInitially == Init /\ WatchInit("billing") /\ BillingInit => (~disturbed => Calm)
<1> SUFFICES ASSUME Init, BillingInit PROVE Calm
  OBVIOUS
<1>1. ~Overlapping
  BY DEF Init, Overlapping, Idle
<1>2. BillQueue
  BY NumbersFacts DEF Init, BillQueue, Waiting, BillTicksInOrder, InboxHeard, NotRepeated
<1>3. BillRow
  BY DEF Init, BillingInit, BillRow, FoundIsRow, RowKeepsUp
<1> QED  BY <1>1, <1>2, <1>3 DEF Calm

\* Where ticks do not overlap and no handler throws, once everything is
\* published the row shows the bill's status, whatever crashes and failed
\* outbox updates have had to be delivered again, and although the handler's
\* write does not commit with the mark.
THEOREM RowAlwaysCatchesUp ==
    ASSUME \A r, s \in Subscribers : r = s
    PROVE  BillingSpec => []RowCatchesUp
<1>1. Sound /\ (~disturbed => Calm) => RowCatchesUp
  <2> SUFFICES ASSUME Sound, Calm, bill # "cancelled",
                      \A m \in Messages : status[m] # "pending"
               PROVE  row = bill
    BY DEF RowCatchesUp
  <2>1. row \in Past(bill) /\ bill \in BillStatus /\ row \in BillStatus
    BY DEF Sound, RowInv, AllIsPast, RestTyped
  <2>2. CASE bill = "none"
    BY <2>1, <2>2 DEF Past
  <2>3. CASE bill # "none"
    <3>1. PICK m \in Messages : Reports(told[m]) = bill
      BY <2>3 DEF Sound, ToldAll
    <3>2. told[m] # "none"
      BY <2>3, <3>1, ReportsNone
    <3>3. status[m] = "published"
      BY <3>2 DEF Sound, Told, RowInv, TicksTyped
    <3>4. m \in inbox
      BY <3>3 DEF Calm, BillQueue, Waiting, Gone, Sound, ToldAll
    <3>5. bill \in Past(row)
      BY <3>1, <3>4 DEF Calm, BillRow, RowKeepsUp
    <3> QED  BY <2>1, <3>5, PastAntisymmetric
  <2> QED  BY <2>2, <2>3
<1>2. Sound /\ (~disturbed => Calm) /\ [BillingNext]_<<vars, watchVars, billingVars>>
        => (Sound /\ (~disturbed => Calm))'
  BY SoundStep, CalmStep
<1> QED  BY <1>1, <1>2, SoundInitially, CalmInitially, PTL DEF BillingSpec

\* Nor does the row ever go back, step by step: an event that is delivered
\* again does not undo a later one.
THEOREM RowNeverGoesBack ==
    ASSUME \A r, s \in Subscribers : r = s
    PROVE  BillingSpec => RowMovesForward
<1>1. Sound /\ (~disturbed => Calm) /\ [BillingNext]_<<vars, watchVars, billingVars>>
        => [disturbed' \/ row \in Past(row')]_<<row, disturbed>>
  <2> SUFFICES ASSUME Sound, ~disturbed => Calm, ~disturbed',
                      [BillingNext]_<<vars, watchVars, billingVars>>
               PROVE  row \in Past(row')
    OBVIOUS
  <2>1. row \in Past(row)
    BY PastGrows DEF Sound, RestTyped
  <2>2. Calm
    BY DEF BillingNext, Watch, watchVars
  <2>3. row' = row \/ \E t \in Ticks, s \in Subscribers : FlushRow(t, s)
    BY DEF BillingNext, BillingStep, CreateBilling, MarkAsPaid, MarkAsFailed,
       Refund, Cancel, Emit, PublishBilling, PublishUnheard, Carry, BreakOff,
       HandleBilling, FindRow, InsertRowRefused, billingVars
  <2> QED  BY <2>1, <2>2, <2>3, FlushFacts DEF Calm
<1>2. Sound /\ (~disturbed => Calm) /\ [BillingNext]_<<vars, watchVars, billingVars>>
        => (Sound /\ (~disturbed => Calm))'
  BY SoundStep, CalmStep
<1> QED
  BY <1>1, <1>2, SoundInitially, CalmInitially, PTL DEF BillingSpec, RowMovesForward

-----------------------------------------------------------------------------
(* The role assignments: the steps. *)

\* A refused insert is the only step that is none of Delivery's.
LEMMA RolesRideOnDelivery ==
    ASSUME RoleStep
    PROVE  \/ [Next]_vars
           \/ \E t \in Ticks, s \in Subscribers : InsertRoleRefused(t, s)
BY DEF RoleStep, CarryRole, CrashRole, RoleFails, HandleRole, DecideInsert, FlushInsert,
   CommitRole, Next, Handle

LEMMA RoleTypedStep ==
    ASSUME Typed, [RoleNext]_<<vars, watchVars, roleVars>>
    PROVE  Typed'
<1>1. ASSUME NEW t \in Ticks, NEW s \in Subscribers, InsertRoleRefused(t, s)
      PROVE  Typed'
  <2>1. /\ handling' \in [Ticks -> [Subscribers -> Phases]]
        /\ UNCHANGED <<outboxVars, tickVars, readVars, faults>>
    BY <1>1, GotoTyped DEF InsertRoleRefused, Phases
  <2> QED  BY <2>1 DEF outboxVars, tickVars, readVars, Typed, TypeOK, AttemptsBounded
<1>2. CASE [Next]_vars
  BY <1>2, TypedStep
<1> QED  BY <1>1, <1>2, RolesRideOnDelivery DEF RoleNext

\* A tick holds its decision from the search to the commit, and no longer.
Holds(t, s) ==
    /\ decision[t] # "open" => current[t] \in Messages /\ handling[t][s] \in Late
    /\ handling[t][s] \in {"written", "marked"} => decision[t] # "open"
    /\ decision[t] = "insert" => roleId[current[t]] # Nobody

InHand == \A t \in Ticks, s \in Subscribers : Holds(t, s)

RoleInv == RoleTypeOK /\ InHand

\* What a step does to the roles.
Settles(t) ==
    /\ decision' = [decision EXCEPT ![t] = "open"]
    /\ UNCHANGED <<roleId, assigned>>

LEMMA RoleCases ==
    ASSUME [RoleNext]_<<vars, watchVars, roleVars>>
    PROVE  \/ UNCHANGED roleVars
           \/ \E t \in Ticks, s \in Subscribers : DecideInsert(t, s)
           \/ \E t \in Ticks, s \in Subscribers : CommitRole(t, s)
           \/ \E t \in Ticks : CrashRole(t) /\ Settles(t)
           \/ \E t \in Ticks, s \in Subscribers :
                (RoleFails(t, s) \/ InsertRoleRefused(t, s)) /\ Settles(t) /\ lost' = lost
BY DEF RoleNext, RoleStep, CarryRole, CrashRole, RoleFails, HandleRole, FlushInsert,
   InsertRoleRefused, Settles, roleVars

\* The rows and the losses grow; ids stay.
LEMMA RolesGrow ==
    ASSUME [RoleNext]_<<vars, watchVars, roleVars>>
    PROVE  roleId' = roleId /\ assigned \subseteq assigned' /\ lost \subseteq lost'
BY RoleCases DEF roleVars, DecideInsert, CommitRole, CrashRole, Settles

LEMMA RoleTypeStep ==
    ASSUME Typed, RoleInv, [RoleNext]_<<vars, watchVars, roleVars>>
    PROVE  RoleTypeOK'
<1>1. CASE UNCHANGED roleVars
  BY <1>1 DEF RoleInv, RoleTypeOK, roleVars
<1>2. ASSUME NEW t \in Ticks, NEW s \in Subscribers, DecideInsert(t, s) PROVE RoleTypeOK'
  BY <1>2 DEF DecideInsert, RoleInv, RoleTypeOK
<1>3. ASSUME NEW t \in Ticks, NEW s \in Subscribers, CommitRole(t, s) PROVE RoleTypeOK'
  <2>1. decision[t] = "insert" => current[t] \in Messages /\ roleId[current[t]] # Nobody
    BY DEF RoleInv, InHand, Holds
  <2>2. UNCHANGED <<roleId, lost>> /\ assigned' \in {assigned, assigned \cup {current[t]}}
    BY <1>3 DEF CommitRole
  <2>3. assigned' \in SUBSET { m \in Messages : roleId[m] # Nobody }
    BY <1>3, <2>1 DEF CommitRole, RoleInv, RoleTypeOK
  <2>4. decision' \in [Ticks -> {"open", "insert", "skip"}]
    BY <1>3 DEF CommitRole, RoleInv, RoleTypeOK
  <2> QED  BY <2>2, <2>3, <2>4 DEF RoleInv, RoleTypeOK
<1>4. ASSUME NEW t \in Ticks, CrashRole(t), Settles(t) PROVE RoleTypeOK'
  <2>1. current[t] \in Messages \cup {Nothing}
    BY DEF Typed, TypeOK
  <2>2. lost' \in SUBSET Messages
    BY <1>4, <2>1 DEF CrashRole, At, RoleInv, RoleTypeOK
  <2> QED  BY <1>4, <2>2 DEF Settles, RoleInv, RoleTypeOK
<1>5. ASSUME NEW t \in Ticks, Settles(t), lost' = lost PROVE RoleTypeOK'
  BY <1>5 DEF Settles, RoleInv, RoleTypeOK
<1> QED  BY <1>1, <1>2, <1>3, <1>4, <1>5, RoleCases

\* The steps by what they do to a handler and to its tick's decision.
LEMMA InHandStep ==
    ASSUME \A r, s \in Subscribers : r = s, Typed, RoleInv,
           [RoleNext]_<<vars, watchVars, roleVars>>
    PROVE  InHand'
<1>0. /\ \A t \in Ticks, s \in Subscribers : Holds(t, s)
      /\ roleId' = roleId /\ decision \in [Ticks -> {"open", "insert", "skip"}]
  BY RolesGrow DEF RoleInv, InHand, RoleTypeOK
<1>1. CASE UNCHANGED <<current, handling, decision>>
  BY <1>0, <1>1 DEF InHand, Holds
<1>2. ASSUME NEW t \in Ticks, NEW s \in Subscribers, DecideInsert(t, s) PROVE InHand'
  <2>1. /\ current[t] \in Messages /\ handling[t][s] = "checked"
        /\ UNCHANGED <<current, handling>>
    BY <1>2 DEF DecideInsert, At, vars, tickVars, Typed, TypeOK
  <2>2. /\ \A u \in Ticks : u # t => decision'[u] = decision[u]
        /\ decision'[t] \in {"insert", "skip"}
        /\ decision'[t] = "insert" => roleId[current[t]] # Nobody
    BY <1>0, <1>2 DEF DecideInsert, Needed
  <2>3. \A u \in Ticks, r \in Subscribers : Holds(u, r)'
    BY <1>0, <2>1, <2>2 DEF Holds, Late
  <2> QED  BY <2>3 DEF InHand
<1>3. ASSUME NEW t \in Ticks, NEW s \in Subscribers, NEW p \in {"settled"},
             Goto(t, s, p), UNCHANGED current, decision' = [decision EXCEPT ![t] = "open"]
      PROVE  InHand'
  <2>1. \A u \in Ticks : decision'[u] = IF u = t THEN "open" ELSE decision[u]
    BY <1>0, <1>3
  <2>2. \A u \in Ticks, r \in Subscribers :
          handling'[u][r] = IF u = t /\ r = s THEN p ELSE handling[u][r]
    BY <1>3, GotoFacts
  <2>3. \A u \in Ticks, r \in Subscribers : Holds(u, r)'
    BY <1>0, <1>3, <2>1, <2>2 DEF Holds
  <2> QED  BY <2>3 DEF InHand
<1>4. ASSUME NEW t \in Ticks, NEW s \in Subscribers, NEW p \in Phases,
             Goto(t, s, p), UNCHANGED <<current, decision>>,
             \/ handling[t][s] \notin Late /\ p \notin {"written", "marked"}
             \/ handling[t][s] \in Late /\ p \in Late /\ decision[t] # "open"
      PROVE  InHand'
  <2>1. \A u \in Ticks, r \in Subscribers :
          handling'[u][r] = IF u = t /\ r = s THEN p ELSE handling[u][r]
    BY <1>4, GotoFacts
  <2>2. \A u \in Ticks, r \in Subscribers : Holds(u, r)'
    BY <1>0, <1>4, <2>1 DEF Holds
  <2> QED  BY <2>2 DEF InHand
<1>5. ASSUME NEW t \in Ticks, Publish(t) \/ MarkPublished(t) \/ MarkFailed(t),
             UNCHANGED roleVars
      PROVE  InHand'
  <2>1. decision[t] = "open" /\ UNCHANGED decision
    <3>1. /\ Publish(t) => current[t] = Nothing
          /\ ~Publish(t) => \A s \in Subscribers : handling[t][s] = "settled"
          /\ Nothing \notin Messages
      BY <1>5, MessagesAssumption DEF Publish, MarkPublished, MarkFailed, Delivered, Nothing
    <3> QED  BY <3>1, <1>0, <1>5, SubscribersAssumption DEF Holds, Late, roleVars
  <2>2. \A u \in Ticks, r \in Subscribers :
          u # t => current'[u] = current[u] /\ handling'[u][r] = handling[u][r]
    BY <1>5 DEF Publish, MarkPublished, MarkFailed, Typed, TypeOK
  <2>3. \A r \in Subscribers : handling'[t][r] \in {"called", "settled"}
    BY <1>5 DEF Publish, MarkPublished, MarkFailed, Delivered, Typed, TypeOK
  <2>4. \A u \in Ticks, r \in Subscribers : Holds(u, r)'
    BY <1>0, <2>1, <2>2, <2>3 DEF Holds
  <2> QED  BY <2>4 DEF InHand
<1>6. ASSUME NEW t \in Ticks, CrashRole(t) PROVE InHand'
  <2>1. \A u \in Ticks : decision'[u] = IF u = t THEN "open" ELSE decision[u]
    BY <1>0, <1>6 DEF CrashRole
  <2>2. \A u \in Ticks, r \in Subscribers :
          /\ handling'[u][r] = IF u = t THEN "settled" ELSE handling[u][r]
          /\ u # t => current'[u] = current[u]
    BY <1>6 DEF CrashRole, Crash, Typed, TypeOK
  <2>3. \A u \in Ticks, r \in Subscribers : Holds(u, r)'
    BY <1>0, <2>1, <2>2 DEF Holds
  <2> QED  BY <2>3 DEF InHand
<1>7. ASSUME NEW t \in Ticks, CarryRole(t) PROVE InHand'
  <2>1. ASSUME StartTick(t) PROVE InHand'
    BY <1>7, <1>1, <2>1 DEF CarryRole, StartTick, roleVars
  <2>2. ASSUME NEW s \in Subscribers, FastCheck(t, s) \/ Recheck(t, s) \/ Mark(t, s)
        PROVE  InHand'
    <3>1. UNCHANGED <<current, decision>>
      BY <1>7, <2>2 DEF CarryRole, FastCheck, Recheck, Mark, tickVars, roleVars
    <3>2. CASE FastCheck(t, s) \/ Recheck(t, s)
      BY <3>1, <3>2, <1>4 DEF FastCheck, Recheck, At, Phases, Late
    <3>3. CASE Mark(t, s)
      BY <3>1, <3>3, <1>0, <1>4 DEF Mark, At, Phases, Late, Holds
    <3> QED  BY <2>2, <3>2, <3>3
  <2> QED  BY <1>7, <1>5, <2>1, <2>2 DEF CarryRole
<1>8. ASSUME NEW t \in Ticks, NEW s \in Subscribers,
             HandleRole(t, s) \/ InsertRoleRefused(t, s) \/ RoleFails(t, s)
      PROVE  InHand'
  <2>1. CASE FlushInsert(t, s)
    BY <2>1, <1>4 DEF FlushInsert, Write, At, tickVars, roleVars, Phases, Late
  <2>2. CASE CommitRole(t, s)
    BY <2>2, <1>3 DEF CommitRole, Commit, tickVars
  <2>3. CASE InsertRoleRefused(t, s) \/ RoleFails(t, s)
    BY <2>3, <1>3 DEF InsertRoleRefused, RoleFails, HandlerFails, tickVars
  <2> QED  BY <1>8, <1>2, <2>1, <2>2, <2>3 DEF HandleRole
<1>9. ASSUME NEW m \in Messages, AppendMessage(m) \/ BackoffElapses(m), UNCHANGED roleVars
      PROVE  InHand'
  BY <1>9, <1>1 DEF AppendMessage, BackoffElapses, tickVars, roleVars
<1> QED
  BY <1>1, <1>6, <1>7, <1>8, <1>9 DEF RoleNext, RoleStep, vars, tickVars, roleVars

LEMMA RoleInvStep ==
    ASSUME \A r, s \in Subscribers : r = s, Typed, RoleInv,
           [RoleNext]_<<vars, watchVars, roleVars>>
    PROVE  RoleInv'
BY RoleTypeStep, InHandStep DEF RoleInv

LEMMA RoleInitially == Init /\ RoleInit => Typed /\ RoleInv
<1>1. Init /\ RoleInit => RoleInv
  BY RoleIdsAssumption DEF Init, RoleInit, RoleInv, RoleTypeOK, InHand, Holds
<1> QED  BY <1>1, TypedInitially

\* With one subscriber the rows are always those of messages that lead to one,
\* whatever is decided and left undecided; a tick commits no open decision.
THEOREM RoleTypeCorrect ==
    ASSUME \A r, s \in Subscribers : r = s
    PROVE  RoleSpec => []RoleTypeOK
<1>1. Typed /\ RoleInv /\ [RoleNext]_<<vars, watchVars, roleVars>> => (Typed /\ RoleInv)'
  BY RoleTypedStep, RoleInvStep
<1>2. RoleInv => RoleTypeOK
  BY DEF RoleInv
<1> QED  BY <1>1, <1>2, RoleInitially, PTL DEF RoleSpec

-----------------------------------------------------------------------------
(* Delivery that is not disturbed. *)

\* A message has left its role, or it is clear that it leaves none.
Dealt(m) == m \in assigned \/ Passed(m) \/ (m \in SignUps /\ Admins # {})

\* What a tick has decided still stands.
Decided ==
    \A t \in Ticks :
        /\ decision[t] = "insert" => Needed(current[t])
        /\ decision[t] = "skip" => Dealt(current[t])

\* A processed message is dealt with, but for one that waits for its commit.
AtCommit(m) == \E t \in Ticks, s \in Subscribers : current[t] = m /\ handling[t][s] = "marked"

InboxIsDealt == \A m \in inbox : Dealt(m) \/ AtCommit(m)

EndedIsDealt ==
    \A t \in Ticks, s \in Subscribers :
        current[t] # Nothing /\ handling[t][s] = "settled" => Dealt(current[t])

PublishedIsDealt == \A m \in Messages : status[m] = "published" => Dealt(m)

Undisturbed ==
    /\ ~Overlapping
    /\ EndedIsMarked
    /\ Decided
    /\ InboxIsDealt
    /\ EndedIsDealt
    /\ PublishedIsDealt

LEMMA NotNeeded == \A m \in Messages : roleId[m] # Nobody /\ ~Needed(m) => Dealt(m)
BY DEF Needed, Taken, Dealt, Passed

LEMMA DealtGrows ==
    ASSUME [RoleNext]_<<vars, watchVars, roleVars>>, NEW m, Dealt(m)
    PROVE  Dealt(m)'
<1>1. Passed(m) => Passed(m)'
  BY RolesGrow DEF Passed
<1> QED  BY <1>1, RolesGrow DEF Dealt, Admins

\* Nothing can be refused: the id a tick is about to insert nobody has inserted.
LEMMA NothingRefused ==
    ASSUME Decided, NEW t \in Ticks, NEW s \in Subscribers
    PROVE  ~InsertRoleRefused(t, s)
BY DEF InsertRoleRefused, Decided, Needed

\* An undisturbed step is one of Delivery in which no handler fails.
LEMMA UndisturbedStep ==
    ASSUME Typed, ~disturbed => Undisturbed, ~disturbed',
           [RoleNext]_<<vars, watchVars, roleVars>>
    PROVE  /\ ~disturbed /\ Undisturbed
           /\ ~Overlapping'
           /\ NobodyFails
           /\ [Next]_vars
<1>1. CASE UNCHANGED <<vars, watchVars, roleVars>>
  <2>1. ~disturbed /\ Undisturbed /\ [Next]_vars
    BY <1>1 DEF watchVars
  <2>2. ~Overlapping'
    BY <1>1, <2>1 DEF Undisturbed, Overlapping, Idle, vars, tickVars
  <2>3. NobodyFails
    <3>1. faults' = faults /\ faults \in Nat
      BY <1>1, FaultsAssumption DEF vars, Typed, TypeOK
    <3> QED  BY <3>1 DEF NobodyFails, HandlerFails, Fault
  <2> QED  BY <2>1, <2>2, <2>3
<1>2. CASE RoleNext
  <2>1. ~disturbed /\ Undisturbed /\ ~Overlapping' /\ NobodyFails
    BY <1>2 DEF RoleNext, Watch, NobodyFails
  <2>2. \A t \in Ticks, s \in Subscribers : ~InsertRoleRefused(t, s)
    BY <2>1, NothingRefused DEF Undisturbed
  <2> QED  BY <1>2, <2>1, <2>2, RolesRideOnDelivery DEF RoleNext
<1> QED  BY <1>1, <1>2

\* While a tick holds a decision, it stays at its message.
LEMMA HoldersStay ==
    ASSUME Typed, RoleInv, RoleInv', EndedIsMarked, NobodyFails, [Next]_vars,
           NEW t \in Ticks, decision[t] # "open", decision'[t] # "open"
    PROVE  current'[t] = current[t]
<1>1. /\ current[t] \in Messages /\ current'[t] \in Messages
      /\ Nothing \notin Messages
  BY SubscribersAssumption, MessagesAssumption DEF RoleInv, InHand, Holds, Nothing
<1> QED  BY <1>1, TickStep DEF TakesNext, EndsWith

LEMMA DecidedStep ==
    ASSUME Typed, RoleInv, RoleInv', Undisturbed, NobodyFails, [Next]_vars,
           [RoleNext]_<<vars, watchVars, roleVars>>
    PROVE  Decided'
<1> DEFINE Stands(t) == /\ decision[t] = "insert" => Needed(current[t])
                        /\ decision[t] = "skip" => Dealt(current[t])
<1> SUFFICES ASSUME NEW t \in Ticks, decision'[t] # "open"
             PROVE  Stands(t)'
  BY DEF Decided
<1>0. /\ RoleTypeOK /\ EndedIsMarked /\ Decided
      /\ roleId' = roleId /\ decision \in [Ticks -> {"open", "insert", "skip"}]
  BY RolesGrow DEF RoleInv, RoleTypeOK, Undisturbed
<1>1. ASSUME decision'[t] = decision[t], assigned' = assigned
      PROVE  Stands(t)'
  <2>1. current'[t] = current[t]
    BY <1>0, <1>1, HoldersStay
  <2>2. Needed(current[t]) => Needed(current[t])'
    BY <1>0, <1>1, <2>1 DEF Needed, Taken, Admins
  <2>3. Dealt(current[t]) => Dealt(current[t])'
    <3>1. ASSUME NEW m, m = current[t], Dealt(m) PROVE Dealt(current[t])'
      BY <2>1, <3>1, DealtGrows DEF Dealt, Passed
    <3> QED  BY <3>1
  <2> QED  BY <1>0, <1>1, <2>2, <2>3 DEF Decided
<1>2. ASSUME NEW u \in Ticks, NEW s \in Subscribers, DecideInsert(u, s)
      PROVE  Stands(t)'
  <2>1. /\ decision' = [decision EXCEPT ![u] = IF Needed(current[u]) THEN "insert" ELSE "skip"]
        /\ UNCHANGED <<current, assigned, lost>> /\ current[u] \in Messages
    BY <1>2 DEF DecideInsert, At, vars, tickVars, Typed, TypeOK
  <2>2. CASE u = t
    <3>1. /\ Needed(current[t]) => Needed(current[t])'
          /\ Dealt(current[t]) => Dealt(current[t])'
      BY <1>0, <2>1 DEF Needed, Taken, Admins, Dealt, Passed
    <3>2. Needed(current[t]) \/ Dealt(current[t])
      BY <2>1, <2>2, NotNeeded DEF Dealt, Passed
    <3> QED  BY <1>0, <2>1, <2>2, <3>1, <3>2
  <2>3. CASE u # t
    BY <1>0, <1>1, <2>1, <2>3
  <2> QED  BY <2>2, <2>3
<1>3. ASSUME NEW u \in Ticks, NEW s \in Subscribers, CommitRole(u, s)
      PROVE  FALSE
  <2>1. decision' = [decision EXCEPT ![u] = "open"] /\ current[u] # Nothing
    BY <1>3 DEF CommitRole, Commit, At
  <2>2. t # u /\ decision[t] # "open"
    BY <1>0, <2>1
  <2>3. current[t] # Nothing
    BY <2>2, SubscribersAssumption, MessagesAssumption DEF RoleInv, InHand, Holds, Nothing
  <2> QED  BY <2>1, <2>2, <2>3 DEF Undisturbed, Overlapping, Idle
<1>4. ASSUME NEW u \in Ticks, Settles(u) PROVE Stands(t)'
  BY <1>0, <1>1, <1>4 DEF Settles
<1>5. CASE UNCHANGED roleVars
  BY <1>1, <1>5 DEF roleVars
<1> QED  BY <1>2, <1>3, <1>4, <1>5, RoleCases

\* A commit and a death deal with the message of their tick.
LEMMA CommitDeals ==
    ASSUME RoleInv, Decided, NEW t \in Ticks, NEW s \in Subscribers, CommitRole(t, s),
           [RoleNext]_<<vars, watchVars, roleVars>>
    PROVE  Dealt(current[t])' /\ current'[t] = current[t]
<1>1. /\ handling[t][s] = "marked" /\ current' = current
      /\ decision[t] = "insert" => current[t] \in assigned'
  BY DEF CommitRole, Commit, At, tickVars
<1>2. decision[t] \in {"insert", "skip"}
  BY <1>1 DEF RoleInv, RoleTypeOK, InHand, Holds
<1>3. ASSUME decision[t] = "skip", NEW m, m = current[t] PROVE Dealt(current[t])'
  <2>1. Dealt(m)'
    BY <1>3, DealtGrows DEF Decided, Dealt, Passed
  <2> QED  BY <1>1, <1>3, <2>1 DEF Dealt, Passed
<1> QED  BY <1>1, <1>2, <1>3 DEF Dealt

LEMMA CrashDeals ==
    ASSUME NEW t \in Ticks, CrashRole(t), NEW s \in Subscribers, At(t, s, "marked"),
           NEW m, m = current[t]
    PROVE  Dealt(m)'
BY DEF CrashRole, Dealt, Passed

\* A step takes a handler out of the phase "marked" by one of the two alone.
LEMMA MarkedUntilDealt ==
    ASSUME \A r, s \in Subscribers : r = s, Typed, RoleInv, Decided, NobodyFails, [Next]_vars,
           [RoleNext]_<<vars, watchVars, roleVars>>,
           NEW m \in Messages, AtCommit(m)
    PROVE  Dealt(m)' \/ AtCommit(m)'
<1>1. PICK t \in Ticks, s \in Subscribers : current[t] = m /\ handling[t][s] = "marked"
  BY DEF AtCommit
<1>2. m # Nothing
  BY MessagesAssumption DEF Nothing
<1>3. CASE current'[t] = current[t] /\ handling'[t][s] = handling[t][s]
  BY <1>1, <1>3 DEF AtCommit
<1>4. ASSUME NEW u \in Ticks, Publish(u) \/ MarkPublished(u) \/ MarkFailed(u)
      PROVE  current'[t] = current[t] /\ handling'[t][s] = handling[t][s]
  <2>1. u # t
    BY <1>1, <1>2, <1>4 DEF Publish, MarkPublished, MarkFailed, Delivered
  <2> QED  BY <1>4, <2>1 DEF Publish, MarkPublished, MarkFailed, Typed, TypeOK
<1>5. ASSUME NEW u \in Ticks, CrashRole(u) PROVE Dealt(m)' \/ AtCommit(m)'
  <2>1. CASE u = t
    BY <1>1, <1>2, <1>5, <2>1, CrashDeals DEF At
  <2>2. CASE u # t
    BY <1>3, <1>5, <2>2 DEF CrashRole, Crash, Typed, TypeOK
  <2> QED  BY <2>1, <2>2
<1>6. ASSUME NEW u \in Ticks, NEW r \in Subscribers, CommitRole(u, r)
      PROVE  Dealt(m)' \/ AtCommit(m)'
  <2>1. CASE u = t
    <3>1. Dealt(current[t])' /\ current'[t] = current[t]
      BY <1>6, <2>1, CommitDeals
    <3> QED  BY <1>1, <3>1 DEF Dealt, Passed
  <2>2. CASE u # t
    BY <1>3, <1>6, <2>2, GotoFacts DEF CommitRole, Commit, tickVars
  <2> QED  BY <2>1, <2>2
<1>7. ASSUME NEW u \in Ticks, NEW r \in Subscribers,
             FastCheck(u, r) \/ Recheck(u, r) \/ Mark(u, r) \/ Write(u, r)
      PROVE  current'[t] = current[t] /\ handling'[t][s] = handling[t][s]
  <2>1. ~At(t, s, "called") /\ ~At(t, s, "open") /\ ~At(t, s, "checked") /\ ~At(t, s, "written")
    BY <1>1 DEF At
  <2>2. u # t \/ r # s
    BY <1>7, <2>1 DEF FastCheck, Recheck, Mark, Write
  <2> QED  BY <1>7, <2>2, GotoFacts DEF FastCheck, Recheck, Mark, Write, tickVars
<1>8. ASSUME NEW k \in Messages, AppendMessage(k) \/ BackoffElapses(k)
      PROVE  current'[t] = current[t] /\ handling'[t][s] = handling[t][s]
  BY <1>8 DEF AppendMessage, BackoffElapses, tickVars
<1>9. ASSUME NEW u \in Ticks, StartTick(u)
      PROVE  current'[t] = current[t] /\ handling'[t][s] = handling[t][s]
  BY <1>9 DEF StartTick
<1>10. ASSUME NEW u \in Ticks, NEW r \in Subscribers, DecideInsert(u, r)
       PROVE  current'[t] = current[t] /\ handling'[t][s] = handling[t][s]
  BY <1>10 DEF DecideInsert, vars, tickVars
<1>11. ASSUME NEW u \in Ticks, NEW r \in Subscribers, InsertRoleRefused(u, r)
       PROVE  Dealt(m)' \/ AtCommit(m)'
  BY <1>11, NothingRefused
<1>12. \A u \in Ticks, r \in Subscribers : ~RoleFails(u, r)
  BY DEF NobodyFails, RoleFails
<1>13. CASE UNCHANGED <<vars, watchVars, roleVars>>
  BY <1>3, <1>13 DEF vars, tickVars
<1> QED
  BY <1>3, <1>4, <1>5, <1>6, <1>7, <1>8, <1>9, <1>10, <1>11, <1>12, <1>13
     DEF RoleNext, RoleStep, CarryRole, HandleRole, FlushInsert

LEMMA InboxIsDealtStep ==
    ASSUME \A r, s \in Subscribers : r = s, Typed, RoleInv, Undisturbed, NobodyFails, [Next]_vars,
           [RoleNext]_<<vars, watchVars, roleVars>>
    PROVE  InboxIsDealt'
<1> SUFFICES ASSUME NEW m \in inbox', ~Dealt(m)' PROVE AtCommit(m)'
  BY DEF InboxIsDealt
<1>1. CASE m \in inbox
  <2>1. m \in Messages /\ ~Dealt(m)
    BY <1>1, DealtGrows DEF Typed, TypeOK
  <2> QED  BY <1>1, <2>1, MarkedUntilDealt DEF Undisturbed, InboxIsDealt
<1>2. CASE m \notin inbox
  <2>1. PICK t \in Ticks, s \in Subscribers : Mark(t, s) /\ m = current[t]
    BY <1>2, StepCases, ElsewhereKeeps
       DEF BreaksOff, NobodyFails, Handle, FastCheck, Recheck, Write, Mark, Commit, Crash,
           readVars
  <2>2. handling'[t][s] = "marked" /\ current'[t] = m
    BY <2>1, GotoFacts DEF Mark, tickVars
  <2> QED  BY <2>2 DEF AtCommit
<1> QED  BY <1>1, <1>2

\* A handler that ends has found its message dealt with, or deals with it.
LEMMA EndedIsDealtStep ==
    ASSUME \A r, s \in Subscribers : r = s, Typed, RoleInv, Undisturbed, ~Overlapping',
           NobodyFails, [Next]_vars, [RoleNext]_<<vars, watchVars, roleVars>>
    PROVE  EndedIsDealt'
<1> SUFFICES ASSUME NEW t \in Ticks, NEW s \in Subscribers,
                    current'[t] # Nothing, handling'[t][s] = "settled"
             PROVE  Dealt(current[t])'
  BY DEF EndedIsDealt
<1>0. EndedIsDealt /\ InboxIsDealt /\ Decided /\ ~Overlapping
  BY DEF Undisturbed
<1>1. ASSUME Dealt(current[t]), current'[t] = current[t] PROVE Dealt(current[t])'
  <2>1. ASSUME NEW m, m = current[t] PROVE Dealt(m)'
    BY <1>1, <2>1, DealtGrows DEF Dealt, Passed
  <2> QED  BY <1>1, <2>1 DEF Dealt, Passed
<1>2. CASE current'[t] = current[t] /\ handling'[t][s] = handling[t][s]
  BY <1>0, <1>1, <1>2 DEF EndedIsDealt
<1>3. CASE Handle(t, s) /\ current'[t] = current[t]
  <2>1. CASE FastCheck(t, s) \/ Recheck(t, s)
    <3>1. current[t] \in inbox /\ handling[t][s] \in {"called", "open"} /\ current[t] # Nothing
      BY <2>1, GotoFacts DEF FastCheck, Recheck, Processed, At
    <3>2. ~AtCommit(current[t])
      BY <1>0, <3>1 DEF AtCommit, Overlapping, Idle
    <3> QED  BY <1>0, <1>1, <1>3, <3>1, <3>2 DEF InboxIsDealt
  <2>2. CASE Write(t, s) \/ Mark(t, s)
    BY <2>2, GotoFacts DEF Write, Mark
  <2>3. CASE Commit(t, s)
    <3>1. AtCommit(current[t]) /\ handling'[t][s] # "marked" /\ current[t] \in Messages
      BY <2>3, GotoFacts DEF Commit, At, AtCommit, Typed, TypeOK
    <3>2. ASSUME NEW m, m = current[t], AtCommit(m)' PROVE FALSE
      <4>1. PICK u \in Ticks, r \in Subscribers : current'[u] = m /\ handling'[u][r] = "marked"
        BY <3>2 DEF AtCommit
      <4>2. u = t /\ r = s
        BY <1>3, <3>2, <4>1 DEF Overlapping, Idle
      <4> QED  BY <3>1, <4>1, <4>2
    <3>3. ASSUME NEW m, m = current[t] PROVE Dealt(m)'
      BY <1>0, <3>1, <3>2, <3>3, MarkedUntilDealt DEF AtCommit
    <3> QED  BY <1>3, <3>3 DEF Dealt, Passed
  <2> QED  BY <1>3, <2>1, <2>2, <2>3 DEF Handle
<1> QED  BY <1>2, <1>3, HandlerStep DEF NobodyFails

LEMMA PublishedIsDealtStep ==
    ASSUME Typed, Undisturbed, [Next]_vars, [RoleNext]_<<vars, watchVars, roleVars>>
    PROVE  PublishedIsDealt'
<1> SUFFICES ASSUME NEW m \in Messages, status'[m] = "published" PROVE Dealt(m)'
  BY DEF PublishedIsDealt
<1>1. CASE status[m] = "published"
  BY <1>1, DealtGrows DEF Undisturbed, PublishedIsDealt
<1>2. CASE status[m] # "published"
  <2>1. PICK t \in Ticks : MarkPublished(t) /\ current[t] = m
    BY <1>2 DEF Next, AppendMessage, BackoffElapses, StartTick, Publish, MarkPublished,
       MarkFailed, Crash, Handle, FastCheck, Recheck, Write, Mark, Commit, HandlerFails,
       outboxVars, vars, Typed, TypeOK
  <2>2. Dealt(m)
    BY <2>1, SubscribersAssumption DEF MarkPublished, Delivered, Undisturbed, EndedIsDealt
  <2> QED  BY <2>2, DealtGrows
<1> QED  BY <1>1, <1>2

LEMMA RolesUndisturbed ==
    ASSUME \A r, s \in Subscribers : r = s,
           Typed, RoleInv, ~disturbed => Undisturbed,
           [RoleNext]_<<vars, watchVars, roleVars>>
    PROVE  (~disturbed => Undisturbed)'
<1> SUFFICES ASSUME ~disturbed' PROVE Undisturbed'
  OBVIOUS
<1>1. ~disturbed /\ Undisturbed /\ ~Overlapping' /\ NobodyFails /\ [Next]_vars
  BY UndisturbedStep
<1>2. RoleInv' /\ EndedIsMarked'
  BY <1>1, RoleInvStep, EndedStep DEF Undisturbed
<1>3. Decided' /\ InboxIsDealt' /\ EndedIsDealt' /\ PublishedIsDealt'
  BY <1>1, <1>2, DecidedStep, InboxIsDealtStep, EndedIsDealtStep, PublishedIsDealtStep
<1> QED  BY <1>1, <1>2, <1>3 DEF Undisturbed

LEMMA UndisturbedInitially == Init /\ RoleInit => Undisturbed
BY DEF Init, RoleInit, Undisturbed, Overlapping, Idle, EndedIsMarked, Decided, InboxIsDealt,
   EndedIsDealt, PublishedIsDealt

\* Where ticks do not overlap and no handler throws: a sign-up that is
\* published leaves an administrator, and a new tenant that is published its
\* owner, unless it was passed, through any number of crashes and outbox updates
\* that fail, and although the mark is there before the row.
THEOREM PublishedAssigned ==
    ASSUME \A r, s \in Subscribers : r = s
    PROVE  RoleSpec => []PublishedIsAssigned
<1>1. Typed /\ RoleInv /\ (~disturbed => Undisturbed)
        /\ [RoleNext]_<<vars, watchVars, roleVars>>
        => (Typed /\ RoleInv /\ (~disturbed => Undisturbed))'
  BY RoleTypedStep, RoleInvStep, RolesUndisturbed
<1>2. (~disturbed => Undisturbed) => PublishedIsAssigned
  BY DEF Undisturbed, PublishedIsDealt, Dealt, PublishedIsAssigned
<1> QED  BY <1>1, <1>2, UndisturbedInitially, RoleInitially, PTL DEF RoleSpec

-----------------------------------------------------------------------------
(* The first user. *)

OnlyFirst == \A m \in Admins, k \in SignUps : k < m => k \notin Admins /\ Passed(k)

FirstInv == ~disturbed => QueueInOrder /\ OnlyFirst

LEMMA OnlyFirstStep ==
    ASSUME Typed, RoleInv, Undisturbed, QueueInOrder, OnlyFirst,
           [RoleNext]_<<vars, watchVars, roleVars>>
    PROVE  OnlyFirst'
<1>0. \A k : Passed(k) => Passed(k)'
  BY RolesGrow DEF Passed
<1>1. CASE Admins' = Admins
  BY <1>0, <1>1 DEF OnlyFirst
<1>2. CASE Admins' # Admins
  <2>1. PICK t \in Ticks, s \in Subscribers :
               /\ handling[t][s] = "marked" /\ current[t] \in SignUps
               /\ decision[t] = "insert" /\ Admins' = Admins \cup {current[t]}
    <3>1. ASSUME NEW t \in Ticks, NEW s \in Subscribers, CommitRole(t, s)
          PROVE  /\ handling[t][s] = "marked" /\ current[t] \in SignUps
                 /\ decision[t] = "insert" /\ Admins' = Admins \cup {current[t]}
      BY <1>2, <3>1 DEF CommitRole, Commit, At, Admins
    <3>2. assigned' # assigned
      BY <1>2 DEF Admins
    <3> QED  BY <3>1, <3>2, RoleCases DEF roleVars, DecideInsert, Settles
  <2>2. Admins = {} /\ current[t] # Nothing
    BY <2>1, SignUpsAssumption, MessagesAssumption
       DEF Undisturbed, Decided, Needed, Nothing
  <2> SUFFICES ASSUME NEW k \in SignUps, k < current[t]
               PROVE  k \notin Admins' /\ Passed(k)'
    BY <2>1, <2>2 DEF OnlyFirst
  <2>3. k # current[t] /\ k \in Messages
    BY SignUpsAssumption, MessagesAssumption
  <2>4. k \in inbox
    BY <2>3 DEF QueueInOrder, TicksInOrder
  <2>5. ~AtCommit(k)
    BY <2>2, <2>3, MessagesAssumption DEF AtCommit, Undisturbed, Overlapping, Idle, Nothing
  <2>6. Passed(k)
    BY <2>2, <2>4, <2>5 DEF Undisturbed, InboxIsDealt, Dealt, Admins
  <2> QED  BY <1>0, <2>1, <2>2, <2>3, <2>6
<1> QED  BY <1>1, <1>2

LEMMA FirstStep ==
    ASSUME OneAggregate, \A r, s \in Subscribers : r = s,
           Typed, RoleInv, ~disturbed => Undisturbed, FirstInv,
           [RoleNext]_<<vars, watchVars, roleVars>>
    PROVE  FirstInv'
<1> SUFFICES ASSUME ~disturbed' PROVE (QueueInOrder /\ OnlyFirst)'
  BY DEF FirstInv
<1>1. ~disturbed /\ Undisturbed /\ NobodyFails /\ [Next]_vars
  BY UndisturbedStep
<1>2. QueueInOrder /\ OnlyFirst /\ EndedIsMarked
  BY <1>1 DEF FirstInv, Undisturbed
<1>3. QueueInOrder'
  BY <1>1, <1>2, NoneSkippedStep, ListedStep, TicksInOrderStep, InboxInOrderStep
     DEF QueueInOrder
<1> QED  BY <1>1, <1>2, <1>3, OnlyFirstStep

\* Where ticks do not overlap and no handler throws, and the sign-ups' commands
\* commit in the order of their events: the user who signed up first becomes
\* administrator, of those whose messages were not passed, and nobody else,
\* whatever has to be delivered again after crashes and failed outbox updates.
THEOREM FirstAdmin ==
    ASSUME OneAggregate, \A r, s \in Subscribers : r = s
    PROVE  RoleSpec => []FirstUserIsAdmin
<1>1. Init /\ RoleInit => FirstInv
  BY MessagesAssumption
     DEF Init, RoleInit, FirstInv, QueueInOrder, NoneSkipped, Listed, TicksInOrder,
         InboxInOrder, OnlyFirst, Admins, Nothing
<1>2. Typed /\ RoleInv /\ (~disturbed => Undisturbed) /\ FirstInv
        /\ [RoleNext]_<<vars, watchVars, roleVars>>
        => (Typed /\ RoleInv /\ (~disturbed => Undisturbed) /\ FirstInv)'
  BY RoleTypedStep, RoleInvStep, RolesUndisturbed, FirstStep
<1>3. FirstInv => FirstUserIsAdmin
  BY DEF FirstInv, OnlyFirst, FirstUserIsAdmin
<1> QED  BY <1>1, <1>2, <1>3, UndisturbedInitially, RoleInitially, PTL DEF RoleSpec

\* What the run checks of the roles, for every instance: both of the above.
THEOREM AlwaysAssigned ==
    ASSUME OneAggregate, \A r, s \in Subscribers : r = s
    PROVE  RoleSpec => []RolesAssigned
<1>1. PublishedIsAssigned /\ FirstUserIsAdmin => RolesAssigned
  BY DEF RolesAssigned
<1> QED  BY <1>1, PublishedAssigned, FirstAdmin, PTL

-----------------------------------------------------------------------------
(* The codec. *)

LEMMA PathOneMore ==
    ASSUME NEW E, NEW p \in Seq(E), NEW k \in E
    PROVE  /\ Append(p, k) \in Seq(E) /\ Len(Append(p, k)) = Len(p) + 1
           /\ Front(Append(p, k)) = p /\ Last(Append(p, k)) = k
           /\ \A n \in 0 .. Len(p) : SubSeq(Append(p, k), 1, n) = SubSeq(p, 1, n)
           /\ SubSeq(p, 1, Len(p)) = p
<1>1. Append(p, k) \in Seq(E) /\ Len(Append(p, k)) = Len(p) + 1 /\ Append(p, k)[Len(p) + 1] = k
  OBVIOUS
<1>2. \A n \in 0 .. Len(p) : SubSeq(Append(p, k), 1, n) = SubSeq(p, 1, n)
  BY PrefixOfAppend
<1>3. SubSeq(p, 1, Len(p)) = p
  BY WholePrefix
<1>4. Len(Append(p, k)) - 1 = Len(p) /\ Len(p) \in 0 .. Len(p)
  BY <1>1
<1>5. SubSeq(Append(p, k), 1, Len(p)) = p
  BY <1>2, <1>3, <1>4
<1>6. Front(Append(p, k)) = p
  BY <1>4, <1>5 DEF Front
<1>7. Last(Append(p, k)) = k
  BY <1>1 DEF Last
<1> QED  BY <1>1, <1>2, <1>3, <1>6, <1>7

\* The nodes that stand for dates and buffers.
SpecialPaths(data) == {p \in DOMAIN data : data[p].kind \in Special}

\* Dates and buffers have nothing below them.
LEMMA NothingBelow ==
    ASSUME NEW data, IsEventData(data), NEW q \in SpecialPaths(data), NEW k \in DataStrings
    PROVE  Append(q, k) \notin DOMAIN data
<1> SUFFICES ASSUME Append(q, k) \in DOMAIN data PROVE FALSE
  OBVIOUS
<1>1. q \in Seq(DataStrings) /\ q \in DOMAIN data /\ data[q].kind \in Special
  BY DEF IsEventData, SpecialPaths
<1>2. Len(q) \in 0 .. Len(Append(q, k)) - 1 /\ SubSeq(Append(q, k), 1, Len(q)) = q
  BY <1>1, PathOneMore
<1>3. data[q].kind \in {"array", "object"}
  BY <1>2 DEF IsEventData
<1> QED  BY <1>1, <1>3 DEF Special

\* What becomes of a tree: its own nodes, and two more for each date and buffer.
WrittenAs(s, data) ==
    /\ DOMAIN s = DOMAIN data \cup {Append(q, k) : q \in SpecialPaths(data), k \in {"__type", "value"}}
    /\ \A p \in SpecialPaths(data) : s[p] = Object
    /\ \A p \in DOMAIN data \ SpecialPaths(data) : s[p] = data[p]
    /\ \A q \in SpecialPaths(data) : /\ s[Append(q, "__type")] = Text(data[q].kind)
                                     /\ s[Append(q, "value")] = Text(data[q].value)

LEMMA Serialized ==
    ASSUME NEW data, IsEventData(data) PROVE WrittenAs(serializeEventData(data), data)
<1> DEFINE s == serializeEventData(data)
<1>1. /\ DOMAIN s = DOMAIN data \cup {Append(q, k) : q \in SpecialPaths(data), k \in {"__type", "value"}}
      /\ \A p \in DOMAIN s : s[p] = IF p \in SpecialPaths(data) THEN Object
                                    ELSE IF p \in DOMAIN data THEN data[p]
                                    ELSE Marker(data[Front(p)], Last(p))
  BY DEF serializeEventData, SpecialPaths
<1> HIDE DEF s
<1>2. ASSUME NEW q \in SpecialPaths(data), NEW k \in {"__type", "value"}
      PROVE  s[Append(q, k)] = Marker(data[q], k)
  <2>1. Append(q, k) \notin DOMAIN data /\ Append(q, k) \notin SpecialPaths(data)
    BY NothingBelow, ArchiveAssumption DEF SpecialPaths
  <2>2. Append(q, k) \in DOMAIN s
    BY <1>1, <1>2
  <2>3. Front(Append(q, k)) = q /\ Last(Append(q, k)) = k
    <3>1. q \in Seq(DataStrings)
      BY DEF IsEventData, SpecialPaths
    <3> QED  BY <3>1, PathOneMore, ArchiveAssumption
  <2> QED  BY <1>1, <2>1, <2>2, <2>3
<1>3. \A q \in SpecialPaths(data) : /\ s[Append(q, "__type")] = Text(data[q].kind)
                                   /\ s[Append(q, "value")] = Text(data[q].value)
  BY <1>2 DEF Marker
<1>4. SpecialPaths(data) \subseteq DOMAIN data /\ DOMAIN data \subseteq DOMAIN s
  BY <1>1 DEF SpecialPaths
<1>5. WrittenAs(s, data)
  BY <1>1, <1>3, <1>4 DEF WrittenAs
<1> QED  BY <1>5 DEF s

\* Reading the JSON finds a marker exactly where a date or buffer was.
LEMMA MarkersFound ==
    ASSUME NEW data, IsEventData(data), ~HasMarker(data), NEW s, s = serializeEventData(data), NEW p
    PROVE  IsMarked(s, p) <=> p \in SpecialPaths(data)
<1> DEFINE type == Append(p, "__type")
           value == Append(p, "value")
<1>1. WrittenAs(s, data)
  BY Serialized
<1>2. ASSUME p \in SpecialPaths(data) PROVE IsMarked(s, p)
  <2>1. {p, type, value} \subseteq DOMAIN s
    BY <1>1, <1>2 DEF WrittenAs, SpecialPaths
  <2>2. s[p].kind = "object"
    BY <1>1, <1>2 DEF WrittenAs, Object
  <2>3. s[type] = Text(data[p].kind) /\ s[value] = Text(data[p].value) /\ data[p].kind \in Special
    BY <1>1, <1>2 DEF WrittenAs, SpecialPaths
  <2>4. s[type].kind = "text" /\ s[type].value \in Special /\ s[value].kind = "text"
    BY <2>3 DEF Text
  <2> QED  BY <2>1, <2>2, <2>4 DEF IsMarked
<1>3. ASSUME IsMarked(s, p), p \notin SpecialPaths(data) PROVE FALSE
  <2>1. /\ {p, type, value} \subseteq DOMAIN s
        /\ s[p].kind = "object"
        /\ s[type].kind = "text" /\ s[type].value \in Special /\ s[value].kind = "text"
    BY <1>3 DEF IsMarked
  <2>2. p \in DOMAIN data
    <3> SUFFICES ASSUME p \notin DOMAIN data PROVE FALSE
      OBVIOUS
    <3>1. PICK q \in SpecialPaths(data), k \in {"__type", "value"} : p = Append(q, k)
      BY <1>1, <2>1 DEF WrittenAs
    <3>2. s[p] = Text(data[q].kind) \/ s[p] = Text(data[q].value)
      BY <1>1, <3>1 DEF WrittenAs
    <3>3. s[p].kind = "text"
      BY <3>2 DEF Text
    <3> QED  BY <2>1, <3>3
  <2>3. ASSUME NEW k \in {"__type", "value"}, Append(p, k) \in DOMAIN s, s[Append(p, k)].kind = "text"
        PROVE  Append(p, k) \in DOMAIN data /\ s[Append(p, k)] = data[Append(p, k)]
    <3>1. Append(p, k) \in DOMAIN data
      <4> SUFFICES ASSUME Append(p, k) \notin DOMAIN data PROVE FALSE
        OBVIOUS
      <4>1. PICK q \in SpecialPaths(data), l \in {"__type", "value"} : Append(p, k) = Append(q, l)
        BY <1>1, <2>3 DEF WrittenAs
      <4>2. p \in Seq(DataStrings) /\ q \in Seq(DataStrings) /\ k \in DataStrings /\ l \in DataStrings
        BY <2>2, ArchiveAssumption DEF IsEventData, SpecialPaths
      <4>3. Front(Append(p, k)) = p /\ Front(Append(q, l)) = q
        BY <4>2, PathOneMore
      <4> QED  BY <1>3, <4>1, <4>3
    <3>2. Append(p, k) \notin SpecialPaths(data)
      <4>1. Object.kind = "object"
        BY DEF Object
      <4> QED  BY <1>1, <2>3, <4>1 DEF WrittenAs
    <3> QED  BY <1>1, <3>1, <3>2 DEF WrittenAs
  <2>4. /\ type \in DOMAIN data /\ s[type] = data[type]
        /\ value \in DOMAIN data /\ s[value] = data[value] /\ s[p] = data[p]
    BY <1>1, <1>3, <2>1, <2>2, <2>3 DEF WrittenAs
  <2>5. IsMarked(data, p)
    BY <2>1, <2>2, <2>4 DEF IsMarked
  <2> QED  BY <2>2, <2>5 DEF HasMarker
<1> QED  BY <1>2, <1>3

\* Whatever data is written, dates and buffers anywhere within it, is read back the
\* same, unless it holds an object that looks like one of the codec's own markers
\* (serializeEventData and deserializeEventData of event-serializer.ts).
THEOREM CodecInverse ==
    ASSUME NEW data, IsEventData(data), ~HasMarker(data)
    PROVE  deserializeEventData(serializeEventData(data)) = data
<1> DEFINE s == serializeEventData(data)
           t == deserializeEventData(s)
           Outside(p) == \A n \in 0 .. Len(p) - 1 : ~IsMarked(s, SubSeq(p, 1, n))
<1>1. WrittenAs(s, data)
  BY Serialized
<1>2. \A p : IsMarked(s, p) <=> p \in SpecialPaths(data)
  BY MarkersFound
<1>3. t = [p \in {q \in DOMAIN s : Outside(q)} |->
              IF IsMarked(s, p)
              THEN [kind |-> s[Append(p, "__type")].value, value |-> s[Append(p, "value")].value]
              ELSE s[p]]
  BY DEF deserializeEventData
<1> HIDE DEF s, t
<1>4. ASSUME NEW p \in DOMAIN data PROVE Outside(p)
  <2> SUFFICES ASSUME NEW n \in 0 .. Len(p) - 1, SubSeq(p, 1, n) \in SpecialPaths(data) PROVE FALSE
    BY <1>2
  <2>1. data[SubSeq(p, 1, n)].kind \in {"array", "object"}
    BY DEF IsEventData
  <2> QED  BY <2>1 DEF SpecialPaths, Special
<1>5. ASSUME NEW p \in DOMAIN s, p \notin DOMAIN data PROVE ~Outside(p)
  <2>1. PICK q \in SpecialPaths(data), k \in {"__type", "value"} : p = Append(q, k)
    BY <1>1, <1>5 DEF WrittenAs
  <2>2. q \in Seq(DataStrings) /\ k \in DataStrings
    BY ArchiveAssumption DEF IsEventData, SpecialPaths
  <2>3. Len(p) = Len(q) + 1 /\ Len(q) \in 0 .. Len(q) /\ SubSeq(p, 1, Len(q)) = q
    BY <2>1, <2>2, PathOneMore
  <2>4. Len(q) \in 0 .. Len(p) - 1
    BY <2>2, <2>3
  <2> QED  BY <1>2, <2>3, <2>4
<1> HIDE DEF Outside
<1>6. {q \in DOMAIN s : Outside(q)} = DOMAIN data
  <2>1. DOMAIN data \subseteq DOMAIN s
    BY <1>1 DEF WrittenAs
  <2> QED  BY <1>4, <1>5, <2>1
<1>7. DOMAIN t = DOMAIN data /\ \A p \in DOMAIN data :
        t[p] = IF IsMarked(s, p)
               THEN [kind |-> s[Append(p, "__type")].value, value |-> s[Append(p, "value")].value]
               ELSE s[p]
  BY <1>3, <1>6
<1>8. ASSUME NEW p \in DOMAIN data PROVE t[p] = data[p]
  <2>1. CASE p \in SpecialPaths(data)
    <3>1. t[p] = [kind |-> s[Append(p, "__type")].value, value |-> s[Append(p, "value")].value]
      BY <1>2, <1>7, <2>1
    <3>2. s[Append(p, "__type")].value = data[p].kind /\ s[Append(p, "value")].value = data[p].value
      <4>1. s[Append(p, "__type")] = Text(data[p].kind) /\ s[Append(p, "value")] = Text(data[p].value)
        BY <1>1, <2>1 DEF WrittenAs
      <4> QED  BY <4>1 DEF Text
    <3>3. data[p] \in Node /\ data[p].kind \in Special
      BY <2>1 DEF IsEventData, SpecialPaths
    <3>4. data[p] \in [kind : {"text", "Date", "Buffer"}, value : DataStrings]
      BY <3>3 DEF Node, Special
    <3>5. data[p] = [kind |-> data[p].kind, value |-> data[p].value]
      BY <3>4
    <3> QED  BY <3>1, <3>2, <3>5
  <2>2. CASE p \notin SpecialPaths(data)
    BY <1>1, <1>2, <1>7, <2>2 DEF WrittenAs
  <2> QED  BY <2>1, <2>2
<1>9. t = [p \in DOMAIN t |-> t[p]] /\ data = [p \in DOMAIN data |-> data[p]]
  BY <1>3 DEF IsEventData
<1>10. t = data
  BY <1>7, <1>8, <1>9
<1> QED  BY <1>10 DEF s, t

\* Data without dates and buffers is stored as it is.
LEMMA JsonbKeeps ==
    ASSUME NEW data, data = [p \in DOMAIN data |-> data[p]], ~HasSpecial(data)
    PROVE  Jsonb(data) = data
<1>1. {p \in DOMAIN data : data[p].kind = "Buffer"} = {} /\ \A p \in DOMAIN data : data[p].kind # "Date"
  BY DEF HasSpecial, Special
<1> DEFINE buffers == {p \in DOMAIN data : data[p].kind = "Buffer"}
           D == DOMAIN data \cup {Append(q, key) : q \in buffers, key \in {"type", "data"}}
           Member(key) == IF key = "type" THEN Text("Buffer") ELSE [kind |-> "array"]
           Value(p) == IF p \in buffers THEN Object
                       ELSE IF p \notin DOMAIN data THEN Member(Last(p))
                       ELSE IF data[p].kind = "Date" THEN Text(data[p].value) ELSE data[p]
<1>2. Jsonb(data) = [p \in D |-> Value(p)]
  BY DEF Jsonb
<1>3. buffers = {} /\ D = DOMAIN data
  <2>1. buffers = {}
    BY <1>1
  <2> HIDE DEF buffers
  <2> QED  BY <2>1
<1>4. \A p \in DOMAIN data : Value(p) = data[p]
  BY <1>1, <1>3
<1> HIDE DEF D, Value
<1>5. Jsonb(data) = [p \in DOMAIN data |-> data[p]]
  BY <1>2, <1>3, <1>4
<1> QED  BY <1>5

\* Encoded data has none left.
LEMMA NoneLeft ==
    ASSUME NEW data, IsEventData(data), NEW s, s = serializeEventData(data)
    PROVE  s = [p \in DOMAIN s |-> s[p]] /\ ~HasSpecial(s)
<1>1. WrittenAs(s, data)
  BY Serialized
<1>2. ASSUME NEW p \in DOMAIN s PROVE s[p].kind \notin Special
  <2>1. CASE p \in SpecialPaths(data)
    BY <1>1, <2>1 DEF WrittenAs, Object, Special
  <2>2. CASE p \in DOMAIN data \ SpecialPaths(data)
    BY <1>1, <2>2 DEF WrittenAs, SpecialPaths
  <2>3. ASSUME NEW q \in SpecialPaths(data), NEW k \in {"__type", "value"}, p = Append(q, k)
        PROVE  s[p].kind \notin Special
    <3>1. s[p] = Text(data[q].kind) \/ s[p] = Text(data[q].value)
      BY <1>1, <2>3 DEF WrittenAs
    <3>2. s[p].kind = "text"
      BY <3>1 DEF Text
    <3> QED  BY <3>2 DEF Special
  <2> QED  BY <1>1, <1>2, <2>1, <2>2, <2>3 DEF WrittenAs
<1>3. s = [p \in DOMAIN s |-> s[p]]
  BY DEF serializeEventData
<1> QED  BY <1>2, <1>3 DEF HasSpecial

\* There is nothing to encode in data without.
LEMMA NoneToEncode ==
    ASSUME NEW data, IsEventData(data), ~HasSpecial(data) PROVE serializeEventData(data) = data
<1> DEFINE s == serializeEventData(data)
<1>1. WrittenAs(s, data) /\ s = [p \in DOMAIN s |-> s[p]]
  BY Serialized, NoneLeft
<1>2. SpecialPaths(data) = {}
  BY DEF SpecialPaths, HasSpecial
<1> HIDE DEF s
<1>3. DOMAIN s = DOMAIN data /\ \A p \in DOMAIN data : s[p] = data[p]
  BY <1>1, <1>2 DEF WrittenAs
<1>4. s = [p \in DOMAIN data |-> data[p]]
  BY <1>1, <1>3
<1>5. s = data
  BY <1>4 DEF IsEventData
<1> QED  BY <1>5 DEF s

\* What is stored of an event.
Stored(e) == Jsonb(IF e.encoded THEN serializeEventData(e.eventData) ELSE e.eventData)

\* What is read back of it.
LEMMA StoredIsRead ==
    ASSUME NEW e \in NewEvents, ~HasMarker(e.eventData), e.encoded \/ ~HasSpecial(e.eventData)
    PROVE  deserializeEventData(Stored(e)) = e.eventData
<1> DEFINE data == e.eventData
<1>1. IsEventData(data)
  BY ArchiveAssumption
<1> HIDE DEF data
<1>2. Jsonb(serializeEventData(data)) = serializeEventData(data)
  BY <1>1, NoneLeft, JsonbKeeps
<1>3. Stored(e) = serializeEventData(data)
  <2>1. CASE e.encoded
    BY <1>2, <2>1 DEF Stored, data
  <2>2. CASE ~e.encoded
    <3>1. serializeEventData(data) = data
      BY <1>1, <2>2, NoneToEncode DEF data
    <3> QED  BY <1>2, <2>2, <3>1 DEF Stored, data
  <2> QED  BY <2>1, <2>2
<1>4. deserializeEventData(serializeEventData(data)) = data
  BY <1>1, CodecInverse DEF data
<1> QED  BY <1>3, <1>4 DEF data

-----------------------------------------------------------------------------
(* Batches. *)

\* Some rows from a place on, and as many as the limit lets through.
Cut(rows, offset, limit) ==
    LET last == offset + limit
    IN  SubSeq(rows, offset + 1, IF last < Len(rows) THEN last ELSE Len(rows))

\* How many those are.
CutLength(rows, offset, limit) ==
    IF Len(rows) <= offset THEN 0
    ELSE IF offset + limit < Len(rows) THEN limit ELSE Len(rows) - offset

LEMMA CutIs ==
    ASSUME NEW E, NEW rows \in Seq(E), NEW offset \in Nat, NEW limit \in Nat \ {0}
    PROVE  /\ Cut(rows, offset, limit) \in Seq(E)
           /\ Len(Cut(rows, offset, limit)) = CutLength(rows, offset, limit)
           /\ CutLength(rows, offset, limit) \in Nat
           /\ \A i \in 1 .. CutLength(rows, offset, limit) : Cut(rows, offset, limit)[i] = rows[offset + i]
<1> DEFINE last == offset + limit
           n == IF last < Len(rows) THEN last ELSE Len(rows)
           m == offset + 1
           cut == SubSeq(rows, m, n)
<1>1. Len(rows) \in Nat /\ m \in Int /\ n \in Int /\ m > 0 /\ n <= Len(rows)
  OBVIOUS
<1>2. \A i \in m .. n : rows[i] \in E
  BY <1>1
<1>3. /\ cut \in Seq(E) /\ Len(cut) = (IF m <= n THEN n - m + 1 ELSE 0)
      /\ \A i \in 1 .. n - m + 1 : cut[i] = rows[m + i - 1]
  <2> HIDE DEF m, n
  <2> QED  BY <1>1, <1>2, SubSeqProperties
<1>4. CutLength(rows, offset, limit) = (IF m <= n THEN n - m + 1 ELSE 0)
  BY <1>1 DEF CutLength
<1>5. CutLength(rows, offset, limit) \in Nat
  BY <1>1 DEF CutLength
<1>6. ASSUME NEW i \in 1 .. CutLength(rows, offset, limit) PROVE cut[i] = rows[offset + i]
  <2>1. CutLength(rows, offset, limit) <= n - m + 1 \/ CutLength(rows, offset, limit) = 0
    BY <1>1, <1>4
  <2>2. i \in 1 .. n - m + 1
    BY <1>1, <1>5, <2>1
  <2>3. cut[i] = rows[m + i - 1] /\ m + i - 1 = offset + i
    <3>1. m + i - 1 = offset + i
      BY <2>2
    <3> HIDE DEF m, n, cut
    <3> QED  BY <1>3, <2>2, <3>1
  <2> HIDE DEF cut, m, n
  <2> QED  BY <2>3
<1>7. Cut(rows, offset, limit) = cut
  BY DEF Cut
<1> HIDE DEF cut, m, n
<1> QED  BY <1>3, <1>4, <1>5, <1>6, <1>7

\* A batch continues what has been yielded of all that is asked for.
Continues(rows, offset, limit, size, k, E) ==
    LET all == Cut(rows, offset, limit)
        part == Cut(rows, offset + k, IF size < limit - k THEN size ELSE limit - k)
    IN  /\ part \in Seq(E)
        /\ Len(part) = IF size < Len(all) - k THEN size ELSE Len(all) - k
        /\ SubSeq(all, 1, k) \o part = SubSeq(all, 1, k + Len(part))

LEMMA BatchContinues ==
    ASSUME NEW E, NEW rows \in Seq(E), NEW offset \in Nat, NEW limit \in Nat \ {0},
           NEW size \in Nat \ {0}, NEW k \in 0 .. Len(Cut(rows, offset, limit)), k < limit
    PROVE  Continues(rows, offset, limit, size, k, E)
<1> DEFINE some == IF size < limit - k THEN size ELSE limit - k
           all == Cut(rows, offset, limit)
           part == Cut(rows, offset + k, some)
<1>0. k \in 0 .. Len(all)
  OBVIOUS
<1> HIDE DEF all
<1>1. /\ all \in Seq(E) /\ Len(all) = CutLength(rows, offset, limit) /\ Len(all) \in Nat
      /\ \A i \in 1 .. Len(all) : all[i] = rows[offset + i]
  <2>1. /\ Cut(rows, offset, limit) \in Seq(E)
        /\ Len(Cut(rows, offset, limit)) = CutLength(rows, offset, limit)
        /\ CutLength(rows, offset, limit) \in Nat
        /\ \A i \in 1 .. CutLength(rows, offset, limit) : Cut(rows, offset, limit)[i] = rows[offset + i]
    BY CutIs
  <2> QED  BY <2>1 DEF all
<1>2. k \in Nat /\ offset + k \in Nat /\ some \in Nat \ {0}
  BY <1>0, <1>1
<1>3. /\ part \in Seq(E) /\ Len(part) = CutLength(rows, offset + k, some) /\ Len(part) \in Nat
      /\ \A i \in 1 .. Len(part) : part[i] = rows[offset + k + i]
  <2> HIDE DEF some
  <2>2. /\ Cut(rows, offset + k, some) \in Seq(E)
        /\ Len(Cut(rows, offset + k, some)) = CutLength(rows, offset + k, some)
        /\ CutLength(rows, offset + k, some) \in Nat
        /\ \A i \in 1 .. CutLength(rows, offset + k, some) :
              Cut(rows, offset + k, some)[i] = rows[(offset + k) + i]
    BY <1>2, CutIs
  <2> QED  BY <2>2
<1> HIDE DEF part
<1>4. Len(part) = IF size < Len(all) - k THEN size ELSE Len(all) - k
  <2>1. Len(rows) \in Nat
    OBVIOUS
  <2>2. CutLength(rows, offset + k, some) = IF size < CutLength(rows, offset, limit) - k THEN size
                                            ELSE CutLength(rows, offset, limit) - k
    BY <1>0, <1>1, <2>1 DEF CutLength
  <2> QED  BY <1>0, <1>1, <1>3, <2>2
<1>5. SubSeq(all, 1, k) \o part = SubSeq(all, 1, k + Len(part))
  <2> DEFINE begin == SubSeq(all, 1, k)
             n == k + Len(part)
             both == SubSeq(all, 1, n)
  <2>1. n \in 0 .. Len(all) /\ n \in Nat
    BY <1>0, <1>1, <1>2, <1>3, <1>4
  <2>2. begin \in Seq(E) /\ Len(begin) = k /\ \A i \in 1 .. k : begin[i] = all[i]
    BY <1>0, <1>1, PrefixTyped
  <2> HIDE DEF begin, n
  <2>3. both \in Seq(E) /\ Len(both) = n /\ \A i \in 1 .. n : both[i] = all[i]
    BY <1>1, <2>1, PrefixTyped
  <2> HIDE DEF both
  <2>4. begin \o part \in Seq(E) /\ Len(begin \o part) = n
    <3>1. begin \o part \in Seq(E) /\ Len(begin \o part) = Len(begin) + Len(part)
      BY <1>3, <2>2, ConcatProperties
    <3> QED  BY <2>2, <3>1 DEF n
  <2>5. ASSUME NEW i \in 1 .. n PROVE (begin \o part)[i] = both[i]
    <3>1. CASE i <= k
      <4>1. i \in 1 .. k /\ (begin \o part)[i] = begin[i]
        BY <1>2, <1>3, <2>1, <2>2, <3>1
      <4> QED  BY <2>2, <2>3, <4>1
    <3>2. CASE i > k
      <4>1. i - k \in 1 .. Len(part) /\ i \in Nat /\ i \in 1 .. Len(all)
        <5>1. i \in Nat /\ i <= k + Len(part) /\ k + Len(part) <= Len(all)
          BY <1>1, <1>2, <1>3, <2>1 DEF n
        <5> QED  BY <1>1, <1>2, <1>3, <3>2, <5>1
      <4>2. (begin \o part)[i] = part[i - k]
        <5>1. i > Len(begin) /\ i <= Len(begin) + Len(part) /\ i - Len(begin) = i - k
          BY <1>2, <1>3, <2>2, <3>2, <4>1
        <5>2. begin \in Seq(E) /\ part \in Seq(E) /\ i \in Nat
          BY <1>3, <2>2, <4>1
        <5>3. \A j \in 1 .. Len(part) : (begin \o part)[Len(begin) + j] = part[j]
          BY <5>2, ConcatIs
        <5>4. Len(begin) + (i - k) = i
          BY <1>2, <2>2, <5>2
        <5> QED  BY <4>1, <5>3, <5>4
      <4>3. part[i - k] = rows[offset + k + (i - k)] /\ all[i] = rows[offset + i]
        BY <1>1, <1>3, <4>1
      <4>4. offset + k + (i - k) = offset + i
        BY <1>2, <4>1
      <4>5. all[i] = both[i]
        BY <2>3
      <4>6. part[i - k] = rows[offset + i]
        BY <4>3, <4>4
      <4>7. part[i - k] = both[i]
        BY <4>3, <4>5, <4>6
      <4> QED  BY <4>2, <4>7
    <3>3. i <= k \/ i > k
      BY <1>2, <2>1
    <3> QED  BY <3>1, <3>2, <3>3, Zenon
  <2>6. begin \o part = both
    BY <2>3, <2>4, <2>5, SeqEqual
  <2> QED  BY <2>6 DEF begin, both, n
<1> QED  BY <1>3, <1>4, <1>5 DEF Continues, all, part

-----------------------------------------------------------------------------
(* What the archive keeps. *)

StoredRow == [aggregateId : Streams, version : Nat \ {0}, occurredAt : Nat,
              eventType : {e.eventType : e \in NewEvents},
              schemaVersion : {e.schemaVersion : e \in NewEvents} \cup {1},
              eventData : {Stored(e) : e \in NewEvents}]

ArchiveRowsTyped ==
    /\ archive \in Seq(StoredRow) /\ emitted \in Seq(NewEvents)
    /\ Len(archive) = Len(emitted) /\ Len(archive) <= MaxArchived

\* A row has what is stored of its event.
RowsOfEvents == \A i \in DOMAIN archive : archive[i].eventData = Stored(emitted[i])

\* The versions of a stream are 1..n, each stored once.
Versions(a) == {r.version : r \in OfStream(a)}
Numbered == \A a \in Streams : /\ StreamLength(a) \in 0 .. Len(archive)
                               /\ Versions(a) = 1 .. StreamLength(a)
RowsDistinct ==
    \A i, j \in DOMAIN archive : archive[i].aggregateId = archive[j].aggregateId
                                   /\ archive[i].version = archive[j].version => i = j

RowsKept == ArchiveRowsTyped /\ RowsOfEvents /\ Numbered /\ RowsDistinct

\* What a command adds.
Adds(a, events) ==
    LET n == Len(archive) IN
    /\ archive' \in Seq(StoredRow) /\ Len(archive') = n + Len(events)
    /\ emitted' \in Seq(NewEvents) /\ Len(emitted') = n + Len(events)
    /\ n + Len(events) <= MaxArchived
    /\ \A i \in 1 .. n : archive'[i] = archive[i] /\ emitted'[i] = emitted[i]
    /\ \A i \in 1 .. Len(events) :
         /\ archive'[n + i].aggregateId = a
         /\ archive'[n + i].version = StreamLength(a) + i
         /\ archive'[n + i].eventData = Stored(events[i])
         /\ emitted'[n + i] = events[i]

LEMMA CommandAdds ==
    ASSUME RowsKept, NEW a \in Streams, NEW events \in ArchiveCommands, NEW time \in ArchiveTimes,
           AppendToStream(a, events, time)
    PROVE  Adds(a, events)
<1> DEFINE n == Len(archive)
           m == Len(events)
           Schema(e) == IF e.schemaVersion = 0 THEN 1 ELSE e.schemaVersion
           Row(i) == [aggregateId |-> a, version |-> StreamLength(a) + i, occurredAt |-> time,
                      eventType |-> events[i].eventType, schemaVersion |-> Schema(events[i]),
                      eventData |-> Stored(events[i])]
           rows == [i \in DOMAIN events |-> Row(i)]
<1>1. /\ events \in Seq(NewEvents) /\ m \in Nat
      /\ DOMAIN events = 1 .. m /\ \A i \in 1 .. m : events[i] \in NewEvents
  BY ArchiveAssumption
<1>2. ASSUME NEW e \in NewEvents
      PROVE  Stored(e) = Jsonb((IF e.encoded THEN serialize(e) ELSE e).eventData)
  <2>1. e = [eventType |-> e.eventType, schemaVersion |-> e.schemaVersion,
             eventData |-> e.eventData, encoded |-> e.encoded]
    BY ArchiveAssumption
  <2> DEFINE half == [e EXCEPT !.schemaVersion = Schema(e)]
  <2>2. serialize(e) = [half EXCEPT !.eventData = serializeEventData(e.eventData)]
    BY <2>1 DEF serialize
  <2>3. DOMAIN half = {"eventType", "schemaVersion", "eventData", "encoded"}
    BY <2>1
  <2> HIDE DEF half
  <2>4. serialize(e).eventData = serializeEventData(e.eventData)
    BY <2>2, <2>3
  <2> QED  BY <2>4 DEF Stored
<1>3. n + m <= MaxArchived /\ archive' = archive \o rows /\ emitted' = emitted \o events
  <2>1. \A i \in DOMAIN events :
          Stored(events[i]) = Jsonb((IF events[i].encoded THEN serialize(events[i]) ELSE events[i]).eventData)
    BY <1>1, <1>2
  <2> QED  BY <2>1 DEF AppendToStream
<1>4. StreamLength(a) \in Nat /\ n \in Nat
  BY DEF RowsKept, Numbered, ArchiveRowsTyped
<1>5. ASSUME NEW i \in 1 .. m PROVE Row(i) \in StoredRow
  <2>1. Schema(events[i]) \in {e.schemaVersion : e \in NewEvents} \cup {1}
    BY <1>1
  <2>2. /\ events[i].eventType \in {e.eventType : e \in NewEvents}
        /\ Stored(events[i]) \in {Stored(e) : e \in NewEvents}
    BY <1>1
  <2>3. StreamLength(a) + i \in Nat \ {0} /\ time \in Nat
    BY <1>1, <1>4, ArchiveAssumption
  <2> HIDE DEF Schema
  <2> QED  BY <2>1, <2>2, <2>3 DEF StoredRow
<1>6. \A i \in 1 .. m : /\ Row(i).aggregateId = a /\ Row(i).version = StreamLength(a) + i
                        /\ Row(i).eventData = Stored(events[i])
  OBVIOUS
<1> HIDE DEF Row
<1>7. rows \in Seq(StoredRow) /\ Len(rows) = m /\ \A i \in 1 .. m : rows[i] = Row(i)
  BY <1>1, <1>5
<1> HIDE DEF rows
<1>8. archive \in Seq(StoredRow) /\ emitted \in Seq(NewEvents) /\ Len(emitted) = n
  BY DEF RowsKept, ArchiveRowsTyped
<1>9. /\ archive' \in Seq(StoredRow) /\ Len(archive') = n + m
      /\ \A i \in 1 .. n : archive'[i] = archive[i]
      /\ \A i \in 1 .. m : archive'[n + i] = Row(i)
  <2>1. /\ archive \o rows \in Seq(StoredRow) /\ Len(archive \o rows) = Len(archive) + Len(rows)
        /\ \A i \in 1 .. Len(archive) : (archive \o rows)[i] = archive[i]
        /\ \A i \in 1 .. Len(rows) : (archive \o rows)[Len(archive) + i] = rows[i]
    <3> DEFINE S == StoredRow
    <3>1. archive \in Seq(S) /\ rows \in Seq(S)
      BY <1>7, <1>8
    <3> HIDE DEF S
    <3>2. /\ archive \o rows \in Seq(S) /\ Len(archive \o rows) = Len(archive) + Len(rows)
          /\ \A i \in 1 .. Len(archive) : (archive \o rows)[i] = archive[i]
          /\ \A i \in 1 .. Len(rows) : (archive \o rows)[Len(archive) + i] = rows[i]
      BY <3>1, ConcatIs
    <3> QED  BY <3>2 DEF S
  <2> HIDE DEF n, m
  <2>2. Len(archive) = n
    BY DEF n
  <2> QED  BY <1>3, <1>7, <2>1, <2>2
<1>10. /\ emitted' \in Seq(NewEvents) /\ Len(emitted') = n + m
       /\ \A i \in 1 .. n : emitted'[i] = emitted[i]
       /\ \A i \in 1 .. m : emitted'[n + i] = events[i]
  <2>1. /\ emitted \o events \in Seq(NewEvents) /\ Len(emitted \o events) = Len(emitted) + Len(events)
        /\ \A i \in 1 .. Len(emitted) : (emitted \o events)[i] = emitted[i]
        /\ \A i \in 1 .. Len(events) : (emitted \o events)[Len(emitted) + i] = events[i]
    BY <1>1, <1>8, ConcatIs
  <2> QED  BY <1>3, <1>8, <2>1
<1> QED  BY <1>3, <1>6, <1>9, <1>10 DEF Adds

\* The rows of a longer archive.
LEMMA RowsKeptByAppend ==
    ASSUME RowsKept, NEW a \in Streams, NEW events \in ArchiveCommands, NEW time \in ArchiveTimes,
           AppendToStream(a, events, time)
    PROVE  RowsKept' /\ \A b \in Streams : StreamLength(b) <= StreamLength(b)'
<1> DEFINE n == Len(archive)
           m == Len(events)
<1>0. Adds(a, events)
  BY CommandAdds
<1>1. events \in Seq(NewEvents) /\ m \in Nat /\ DOMAIN events = 1 .. m
  BY ArchiveAssumption
<1>2. n \in Nat /\ DOMAIN archive = 1 .. n /\ DOMAIN archive' = 1 .. n + m
  BY <1>0, <1>1 DEF RowsKept, ArchiveRowsTyped, Adds
<1>3. \A i \in 1 .. n + m : i \in 1 .. n \/ \E k \in 1 .. m : i = n + k
  <2> SUFFICES ASSUME NEW i \in 1 .. n + m, i \notin 1 .. n PROVE \E k \in 1 .. m : i = n + k
    OBVIOUS
  <2>1. i - n \in 1 .. m /\ i = n + (i - n)
    BY <1>1, <1>2
  <2> QED  BY <2>1
<1>4. /\ \A i \in 1 .. n : i \in 1 .. n + m
      /\ \A k \in 1 .. m : n + k \in 1 .. n + m
  BY <1>1, <1>2
<1>5. StreamLength(a) \in 0 .. n /\ \A b \in Streams : StreamLength(b) \in 0 .. n
  BY DEF RowsKept, Numbered
<1>6. ArchiveRowsTyped'
  BY <1>0 DEF Adds, ArchiveRowsTyped
<1>7. RowsOfEvents'
  <2> SUFFICES ASSUME NEW i \in 1 .. n + m PROVE archive'[i].eventData = Stored(emitted'[i])
    BY <1>2 DEF RowsOfEvents, Stored
  <2>1. CASE i \in 1 .. n
    BY <1>0, <1>2, <2>1 DEF Adds, RowsKept, RowsOfEvents
  <2>2. ASSUME NEW k \in 1 .. m, i = n + k PROVE archive'[i].eventData = Stored(emitted'[i])
    BY <1>0, <2>2 DEF Adds
  <2> QED  BY <1>3, <2>1, <2>2
<1>8. ASSUME NEW b \in Streams
      PROVE Versions(b)' = 1 .. IF b = a THEN StreamLength(a) + m ELSE StreamLength(b)
  <2>1. Versions(b) = {archive[i].version : i \in {j \in 1 .. n : archive[j].aggregateId = b}}
    BY <1>2 DEF Versions, OfStream, ToSet
  <2>2. Versions(b)' = {archive'[i].version : i \in {j \in 1 .. n + m : archive'[j].aggregateId = b}}
    BY <1>2 DEF Versions, OfStream, ToSet
  <2>3. Versions(b) = 1 .. StreamLength(b)
    BY DEF RowsKept, Numbered
  <2>4. ASSUME NEW v \in Versions(b) PROVE v \in Versions(b)'
    <3>1. PICK i \in 1 .. n : archive[i].aggregateId = b /\ archive[i].version = v
      BY <2>1
    <3>2. i \in 1 .. n + m /\ archive'[i] = archive[i]
      BY <1>0, <1>4 DEF Adds
    <3> QED  BY <2>2, <3>1, <3>2
  <2>5. ASSUME NEW v \in Versions(b)'
        PROVE  v \in Versions(b) \/ (b = a /\ \E k \in 1 .. m : v = StreamLength(a) + k)
    <3>1. PICK i \in 1 .. n + m : archive'[i].aggregateId = b /\ archive'[i].version = v
      BY <2>2
    <3>2. CASE i \in 1 .. n
      <4>1. archive'[i] = archive[i]
        BY <1>0, <3>2 DEF Adds
      <4> QED  BY <2>1, <3>1, <3>2, <4>1
    <3>3. ASSUME NEW k \in 1 .. m, i = n + k PROVE b = a /\ v = StreamLength(a) + k
      BY <1>0, <3>1, <3>3 DEF Adds
    <3> QED  BY <1>3, <3>2, <3>3
  <2>6. ASSUME NEW k \in 1 .. m, b = a PROVE StreamLength(a) + k \in Versions(b)'
    <3>1. /\ n + k \in 1 .. n + m
           /\ archive'[n + k].aggregateId = b /\ archive'[n + k].version = StreamLength(a) + k
      BY <1>0, <1>4, <2>6 DEF Adds
    <3> QED  BY <2>2, <3>1
  <2>7. CASE b # a
    <3>1. Versions(b)' = Versions(b)
      BY <2>4, <2>5, <2>7
    <3> QED  BY <2>3, <2>7, <3>1
  <2>8. CASE b = a
    <3> DEFINE l == StreamLength(a)
    <3>1. \A v : v \in Versions(b)' <=> (v \in 1 .. l \/ \E k \in 1 .. m : v = l + k)
      BY <2>3, <2>4, <2>5, <2>6, <2>8
    <3>2. \A v : v \in 1 .. l + m <=> (v \in 1 .. l \/ \E k \in 1 .. m : v = l + k)
      <4>1. l \in Nat
        BY <1>2, <1>5
      <4> HIDE DEF l
      <4>2. ASSUME NEW v \in 1 .. l + m, v \notin 1 .. l PROVE \E k \in 1 .. m : v = l + k
        <5>1. v - l \in 1 .. m /\ v = l + (v - l)
          BY <1>1, <4>1, <4>2
        <5> QED  BY <5>1
      <4>3. \A v \in 1 .. l : v \in 1 .. l + m
        BY <1>1, <4>1
      <4>4. \A k \in 1 .. m : l + k \in 1 .. l + m
        BY <1>1, <4>1
      <4> HIDE DEF m
      <4> QED  BY <4>2, <4>3, <4>4
    <3> HIDE DEF l, m
    <3>3. Versions(b)' = 1 .. l + m
      BY <3>1, <3>2
    <3> QED  BY <2>8, <3>3 DEF l
  <2> QED  BY <2>7, <2>8
<1>9. ASSUME NEW b \in Streams
      PROVE  StreamLength(b)' = IF b = a THEN StreamLength(a) + m ELSE StreamLength(b)
  <2> DEFINE l == IF b = a THEN StreamLength(a) + m ELSE StreamLength(b)
  <2>1. l \in Nat
    BY <1>1, <1>2, <1>5
  <2>2. StreamLength(b)' = Max({0} \cup Versions(b)') /\ Versions(b)' = 1 .. l
    BY <1>8 DEF StreamLength, Versions
  <2> HIDE DEF l
  <2>3. {0} \cup 1 .. l = 0 .. l
    BY <2>1
  <2>4. Max(0 .. l) = l
    BY <2>1 DEF Max
  <2> QED  BY <2>2, <2>3, <2>4 DEF l
<1>10. Numbered'
  <2> SUFFICES ASSUME NEW b \in Streams
               PROVE  StreamLength(b)' \in 0 .. Len(archive)' /\ Versions(b)' = 1 .. StreamLength(b)'
    BY DEF Numbered
  <2>1. StreamLength(b)' \in 0 .. n + m
    BY <1>1, <1>2, <1>5, <1>9
  <2>2. Len(archive)' = n + m
    BY <1>0 DEF Adds
  <2> QED  BY <1>8, <1>9, <2>1, <2>2
<1>11. \A b \in Streams : StreamLength(b) <= StreamLength(b)'
  BY <1>1, <1>2, <1>5, <1>9
<1>12. \A i \in 1 .. n : archive[i].version \in Nat /\ archive[i].aggregateId \in Streams
                            /\ archive[i].version <= StreamLength(archive[i].aggregateId)
  <2> SUFFICES ASSUME NEW i \in 1 .. n
               PROVE  archive[i].version \in Nat /\ archive[i].aggregateId \in Streams
                        /\ archive[i].version <= StreamLength(archive[i].aggregateId)
    OBVIOUS
  <2>1. archive[i] \in StoredRow
    BY <1>2 DEF RowsKept, ArchiveRowsTyped
  <2> DEFINE b == archive[i].aggregateId
  <2>2. b \in Streams /\ archive[i].version \in Nat
    BY <2>1 DEF StoredRow
  <2>3. archive[i] \in OfStream(b)
    BY <1>2 DEF OfStream, ToSet
  <2> HIDE DEF b
  <2>4. archive[i].version \in Versions(b)
    BY <2>3 DEF Versions
  <2>5. archive[i].version \in 1 .. StreamLength(b) /\ StreamLength(b) \in 0 .. n
    BY <2>2, <2>4 DEF RowsKept, Numbered
  <2> QED  BY <2>2, <2>5 DEF b
<1>13. RowsDistinct'
  <2> SUFFICES ASSUME NEW i \in 1 .. n + m, NEW j \in 1 .. n + m,
                      archive'[i].aggregateId = archive'[j].aggregateId,
                      archive'[i].version = archive'[j].version
               PROVE  i = j
    BY <1>2 DEF RowsDistinct
  <2>1. CASE i \in 1 .. n /\ j \in 1 .. n
    BY <1>0, <1>2, <2>1 DEF Adds, RowsKept, RowsDistinct
  <2>2. ASSUME NEW h \in 1 .. n, NEW k \in 1 .. m, archive'[h].aggregateId = archive'[n + k].aggregateId,
               archive'[h].version = archive'[n + k].version
        PROVE  FALSE
    <3>1. archive[h].aggregateId = a /\ archive[h].version = StreamLength(a) + k
      BY <1>0, <2>2 DEF Adds
    <3>2. archive[h].version <= StreamLength(a) /\ StreamLength(a) \in Nat
      BY <1>2, <1>5, <1>12, <3>1
    <3> QED  BY <1>1, <3>1, <3>2
  <2>3. ASSUME NEW h \in 1 .. m, NEW k \in 1 .. m, i = n + h, j = n + k PROVE i = j
    <3>1. StreamLength(a) + h = StreamLength(a) + k
      BY <1>0, <2>3 DEF Adds
    <3>2. h = k
      BY <1>1, <1>2, <1>5, <3>1
    <3> QED  BY <2>3, <3>2
  <2> QED  BY <1>3, <2>1, <2>2, <2>3
<1> QED  BY <1>6, <1>7, <1>10, <1>11, <1>13 DEF RowsKept

-----------------------------------------------------------------------------
(* Rows in order. *)

LEMMA SeqCovers ==
    ASSUME NEW E, NEW s \in Seq(E)
    PROVE  IsFiniteSet(ToSet(s)) /\ Cardinality(ToSet(s)) \in Nat /\ Cardinality(ToSet(s)) <= Len(s)
<1> DEFINE n == Len(s)
           R == {s[i] : i \in 1 .. n}
           f == [i \in 1 .. n |-> s[i]]
<1>1. n \in Nat /\ ToSet(s) = R
  BY DEF ToSet
<1> HIDE DEF n
<1>2. f \in Surjection(1 .. n, R)
  <2>1. f \in [1 .. n -> R] /\ \A r \in R : \E i \in 1 .. n : f[i] = r
    OBVIOUS
  <2> HIDE DEF f, R
  <2> QED  BY <2>1 DEF Surjection
<1>3. IsFiniteSet(1 .. n) /\ Cardinality(1 .. n) = n
  BY <1>1, FS_Interval
<1> HIDE DEF f, R
<1>4. IsFiniteSet(R) /\ Cardinality(R) <= Cardinality(1 .. n)
  BY <1>2, <1>3, FS_Surjection
<1> QED  BY <1>1, <1>3, <1>4, FS_CardinalityType DEF n

LEMMA RowsFinite ==
    ASSUME RowsKept, NEW rows \in SUBSET ToSet(archive)
    PROVE  IsFiniteSet(rows) /\ Cardinality(rows) \in Nat /\ Cardinality(rows) <= MaxArchived
<1>1. archive \in Seq(StoredRow) /\ Len(archive) <= MaxArchived /\ Len(archive) \in Nat /\ MaxArchived \in Nat
  BY ArchiveAssumption DEF RowsKept, ArchiveRowsTyped
<1>2. /\ IsFiniteSet(ToSet(archive)) /\ Cardinality(ToSet(archive)) \in Nat
      /\ Cardinality(ToSet(archive)) <= Len(archive)
  <2>1. archive \in Seq(StoredRow)
    BY <1>1
  <2> QED  BY <2>1, SeqCovers
<1>3. IsFiniteSet(rows) /\ Cardinality(rows) <= Cardinality(ToSet(archive))
  BY <1>2, FS_Subset
<1> QED  BY <1>1, <1>2, <1>3, FS_CardinalityType

LEMMA RowsAreStored ==
    ASSUME RowsKept, NEW r \in ToSet(archive)
    PROVE  /\ r.aggregateId \in Streams
           /\ r.version \in 1 .. StreamLength(r.aggregateId)
           /\ r.occurredAt \in Nat
<1>1. PICK i \in DOMAIN archive : r = archive[i]
  BY DEF ToSet
<1>2. r \in StoredRow
  BY <1>1 DEF RowsKept, ArchiveRowsTyped
<1>3. r.aggregateId \in Streams /\ r.occurredAt \in Nat
  BY <1>2 DEF StoredRow
<1>4. r.version \in Versions(r.aggregateId)
  BY DEF Versions, OfStream
<1> QED  BY <1>3, <1>4 DEF RowsKept, Numbered

\* A stream has no two rows of the same version.
LEMMA VersionTells ==
    ASSUME RowsKept, NEW r \in ToSet(archive), NEW s \in ToSet(archive),
           r.aggregateId = s.aggregateId, r.version = s.version
    PROVE  r = s
<1>1. PICK i \in DOMAIN archive, j \in DOMAIN archive : r = archive[i] /\ s = archive[j]
  BY DEF ToSet
<1> QED  BY <1>1 DEF RowsKept, RowsDistinct

\* What a stream is loaded from a version on: the versions after it, in order.
LEMMA StreamLoaded ==
    ASSUME RowsKept, NEW a \in Streams, NEW v \in 0 .. StreamLength(a)
    PROVE  LET rows == loadStream(a, v)
               n == StreamLength(a) - v
           IN  n \in Nat /\ rows \in [1 .. n -> OfStream(a)] /\ \A i \in 1 .. n : rows[i].version = v + i
<1> DEFINE W == {r \in OfStream(a) : r.version > v}
           n == StreamLength(a) - v
           T == {t \in W \X W : t[1].version < t[2].version}
           inOrder(s) == \A i, j \in DOMAIN s : i < j => s[i].version < s[j].version
           rows == CHOOSE s \in SetToSeqs(W) : inOrder(s)
<1>1. StreamLength(a) \in Nat /\ v \in Nat /\ n \in Nat /\ Versions(a) = 1 .. StreamLength(a)
  BY DEF RowsKept, ArchiveRowsTyped, Numbered
<1>2. W \subseteq ToSet(archive) /\ W \subseteq OfStream(a)
  BY DEF OfStream
<1>3. \A r \in W : r.aggregateId = a /\ r.version \in v + 1 .. v + n
  <2> SUFFICES ASSUME NEW r \in W PROVE r.aggregateId = a /\ r.version \in v + 1 .. v + n
    OBVIOUS
  <2>1. r.aggregateId = a /\ r.version > v
    BY DEF OfStream
  <2>2. r.version \in 1 .. StreamLength(a)
    BY <1>2, <2>1, RowsAreStored
  <2> QED  BY <1>1, <2>1, <2>2
<1>4. \A r, s \in W : r.version = s.version => r = s
  BY <1>2, <1>3, VersionTells
<1>5. \A k \in v + 1 .. v + n : \E r \in W : r.version = k
  <2> SUFFICES ASSUME NEW k \in v + 1 .. v + n PROVE \E r \in W : r.version = k
    OBVIOUS
  <2>1. k \in Versions(a) /\ k > v
    BY <1>1
  <2> QED  BY <2>1 DEF Versions
<1> HIDE DEF W, n
<1>6. IsFiniteSet(W)
  BY <1>2, RowsFinite
<1>7. Cardinality(W) = n
  <2> DEFINE f == [r \in W |-> r.version]
  <2>1. f \in [W -> v + 1 .. v + n] /\ \A r \in W : f[r] = r.version
    BY <1>3
  <2> HIDE DEF f
  <2>2. f \in Surjection(W, v + 1 .. v + n)
    BY <1>5, <2>1 DEF Surjection
  <2>3. f \in Injection(W, v + 1 .. v + n)
    BY <1>4, <2>1 DEF Injection, IsInjective
  <2>4. Cardinality(v + 1 .. v + n) = Cardinality(W)
    BY <1>6, <2>2, <2>3, FS_Surjection
  <2>5. Cardinality(v + 1 .. v + n) = n
    <3>1. v + 1 \in Int /\ v + n \in Int /\ (v + 1 > v + n <=> n = 0) /\ (v + n) - (v + 1) + 1 = n
      BY <1>1
    <3>2. Cardinality(v + 1 .. v + n) = IF v + 1 > v + n THEN 0 ELSE (v + n) - (v + 1) + 1
      BY <3>1, FS_Interval
    <3> QED  BY <3>1, <3>2
  <2> QED  BY <2>4, <2>5
<1>8. StrictOrder(W, T)
  <2>1. \A r \in W : r.version \in Int
    BY <1>1, <1>3
  <2>2. \A r, s \in W : <<r, s>> \in T <=> r.version < s.version
    OBVIOUS
  <2> HIDE DEF T
  <2> QED  BY <1>4, <2>1, <2>2 DEF StrictOrder
<1>9. \E s \in SetToSeqs(W) : inOrder(s)
  <2>1. PICK s \in SetToSeqs(W) : Ordered(s, T)
    BY <1>6, <1>8, CanBeOrdered
  <2>2. inOrder(s)
    BY <2>1 DEF Ordered
  <2> HIDE DEF inOrder
  <2> QED  BY <2>2
<1>10. rows \in SetToSeqs(W) /\ inOrder(rows)
  <2> HIDE DEF inOrder
  <2> QED  BY <1>9
<1>11. loadStream(a, v) = rows
  BY DEF loadStream, OrderBy, W
<1> HIDE DEF rows
<1>12. rows \in [1 .. n -> W] /\ \A i, j \in 1 .. n : i < j => rows[i].version < rows[j].version
  BY <1>7, <1>10 DEF SetToSeqs
<1>13. \A i \in 1 .. n : rows[i].version = v + i
  <2> DEFINE f == [i \in 1 .. n |-> rows[i].version]
  <2>1. f \in [1 .. n -> v + 1 .. v + n]
    BY <1>3, <1>12
  <2>2. \A i \in 1 .. n : f[i] = rows[i].version
    OBVIOUS
  <2>3. \A i, j \in 1 .. n : i < j => f[i] < f[j]
    BY <1>12, <2>2
  <2> HIDE DEF f
  <2>4. \A i \in 1 .. n : f[i] = v + i
    BY <1>1, <2>1, <2>3, IncreasingIsAll
  <2> QED  BY <2>2, <2>4
<1>14. rows \in [1 .. n -> OfStream(a)]
  BY <1>2, <1>12
<1> QED  BY <1>1, <1>11, <1>13, <1>14 DEF n

-----------------------------------------------------------------------------
(* Snapshots. *)

\* A state that the first events of a stream make.
Recorded(s) ==
    /\ s \in [aggregateId : Streams, version : Nat, state : Seq(Nat)]
    /\ s.version <= StreamLength(s.aggregateId)
    /\ s.state = [i \in 1 .. s.version |-> i]

LEMMA RebuiltIsRecorded ==
    ASSUME RowsKept, NEW s, Recorded(s)
    PROVE  /\ Recorded(Rebuilt(s))
           /\ Rebuilt(s).aggregateId = s.aggregateId
           /\ Rebuilt(s).version = StreamLength(s.aggregateId)
<1> DEFINE a == s.aggregateId
           v == s.version
           n == StreamLength(a) - v
           rows == loadStream(a, v)
           later == [i \in DOMAIN rows |-> rows[i].version]
           state == s.state \o later
<1>1. a \in Streams /\ v \in 0 .. StreamLength(a) /\ StreamLength(a) \in Nat
      /\ s \in [aggregateId : Streams, version : Nat, state : Seq(Nat)]
  BY DEF Recorded, RowsKept, Numbered, ArchiveRowsTyped
<1>2. n \in Nat /\ DOMAIN rows = 1 .. n /\ \A i \in 1 .. n : rows[i].version = v + i
  <2> HIDE DEF a, v
  <2> QED  BY <1>1, StreamLoaded
<1> HIDE DEF rows
<1>3. later \in Seq(Nat) /\ Len(later) = n /\ \A i \in 1 .. n : later[i] = v + i
  <2>1. later = [i \in 1 .. n |-> v + i]
    BY <1>2
  <2>2. \A i \in 1 .. n : v + i \in Nat
    BY <1>1, <1>2
  <2> HIDE DEF later, n, v
  <2> QED  BY <1>2, <2>1, <2>2
<1>4. s.state \in Seq(Nat) /\ Len(s.state) = v /\ \A i \in 1 .. v : s.state[i] = i
  <2>1. s.state = [i \in 1 .. v |-> i] /\ v \in Nat
    BY <1>1 DEF Recorded
  <2> HIDE DEF v
  <2> QED  BY <2>1
<1> HIDE DEF later
<1>5. /\ state \in Seq(Nat) /\ Len(state) = v + n
      /\ \A i \in 1 .. v : state[i] = i
      /\ \A i \in 1 .. n : state[v + i] = v + i
  <2>1. s.state \in Seq(Nat) /\ later \in Seq(Nat)
    BY <1>3, <1>4
  <2>2. /\ state \in Seq(Nat) /\ Len(state) = Len(s.state) + Len(later)
        /\ \A i \in 1 .. Len(s.state) : state[i] = s.state[i]
        /\ \A i \in 1 .. Len(later) : state[Len(s.state) + i] = later[i]
    BY <2>1, ConcatIs
  <2> HIDE DEF state, n, v
  <2> QED  BY <1>3, <1>4, <2>2
<1>6. v + n = StreamLength(a)
  BY <1>1
<1> HIDE DEF state
<1>7. \A i \in 1 .. v + n : state[i] = i
  <2> SUFFICES ASSUME NEW i \in 1 .. v + n PROVE state[i] = i
    OBVIOUS
  <2>1. CASE i \in 1 .. v
    BY <1>5, <2>1
  <2>2. CASE i \notin 1 .. v
    <3>1. i - v \in 1 .. n /\ v + (i - v) = i
      <4> HIDE DEF n, v
      <4> QED  BY <1>1, <1>2, <2>2 DEF v
    <3> HIDE DEF n, v
    <3> QED  BY <1>5, <3>1
  <2> QED  BY <2>1, <2>2
<1>8. state = [i \in 1 .. StreamLength(a) |-> i]
  <2>1. state = [i \in 1 .. v + n |-> state[i]]
    BY <1>5
  <2> QED  BY <1>6, <1>7, <2>1
<1>9. Rebuilt(s) = [aggregateId |-> a, version |-> StreamLength(a), state |-> state]
  <2>1. Rebuilt(s) = [s EXCEPT !.state = state, !.version = v + Len(state) - Len(s.state)]
    BY DEF Rebuilt, buildFromEvents, state, later, rows
  <2>2. v + Len(state) - Len(s.state) = StreamLength(a)
    BY <1>1, <1>2, <1>4, <1>5, <1>6
  <2>3. s = [aggregateId |-> a, version |-> v, state |-> s.state]
    BY <1>1
  <2> DEFINE half == [s EXCEPT !.state = state]
  <2>4. Rebuilt(s) = [half EXCEPT !.version = StreamLength(a)]
    BY <2>1, <2>2
  <2>5. half = [aggregateId |-> a, version |-> v, state |-> state]
    BY <2>3
  <2> HIDE DEF half
  <2> QED  BY <2>4, <2>5
<1>10. /\ Rebuilt(s).aggregateId = a /\ Rebuilt(s).version = StreamLength(a)
       /\ Rebuilt(s).state = state
       /\ Rebuilt(s) \in [aggregateId : Streams, version : Nat, state : Seq(Nat)]
  BY <1>1, <1>5, <1>9
<1> QED  BY <1>1, <1>8, <1>10 DEF Recorded

SnapshotsTrue ==
    /\ \A s \in snapshots : Recorded(s)
    /\ session = Nowhere \/ Recorded(session)

\* No snapshot is a state of the stream too.
LEMMA NoSnapshot ==
    ASSUME RowsKept, NEW a \in Streams
    PROVE  Recorded([Nowhere EXCEPT !.aggregateId = a]) /\ [Nowhere EXCEPT !.aggregateId = a].aggregateId = a
<1> DEFINE none == [Nowhere EXCEPT !.aggregateId = a]
<1>1. StreamLength(a) \in Nat
  BY DEF RowsKept, Numbered, ArchiveRowsTyped
<1>2. none = [aggregateId |-> a, version |-> 0, state |-> <<>>]
  BY DEF Nowhere
<1> HIDE DEF none
<1>3. <<>> \in Seq(Nat) /\ <<>> = [i \in 1 .. 0 |-> i]
  OBVIOUS
<1>4. none \in [aggregateId : Streams, version : Nat, state : Seq(Nat)]
  BY <1>2, <1>3
<1>5. Recorded(none) /\ none.aggregateId = a
  BY <1>1, <1>2, <1>3, <1>4 DEF Recorded
<1> QED  BY <1>5 DEF none

-----------------------------------------------------------------------------
(* Queries. *)

\* The rows a query is about, in the order it asks for.
QueryOrder(filter, ascending) ==
    OrderBy(Selected(filter),
            LAMBDA r, s : IF ascending THEN Earlier(r, s) ELSE Earlier(s, r))

LEMMA RowsInOrder ==
    ASSUME RowsKept, NEW filter, InStrictOrder(filter), NEW ascending \in BOOLEAN
    PROVE  /\ QueryOrder(filter, ascending) \in Seq(ToSet(archive))
           /\ Len(QueryOrder(filter, ascending)) <= MaxArchived
<1> DEFINE W == Selected(filter)
           before(r, s) == IF ascending THEN Earlier(r, s) ELSE Earlier(s, r)
           T == {t \in W \X W : before(t[1], t[2])}
           inOrder(s) == \A i, j \in DOMAIN s : i < j => before(s[i], s[j])
           rows == CHOOSE s \in SetToSeqs(W) : inOrder(s)
<1>1. W \in SUBSET ToSet(archive)
  BY DEF Selected
<1> HIDE DEF W
<1>2. IsFiniteSet(W) /\ Cardinality(W) \in Nat /\ Cardinality(W) <= MaxArchived
  BY <1>1, RowsFinite
<1>3. \A r \in W : r.aggregateId \in Streams /\ r.version \in Int /\ r.occurredAt \in Int
  <2> SUFFICES ASSUME NEW r \in W PROVE r.aggregateId \in Streams /\ r.version \in Int /\ r.occurredAt \in Int
    OBVIOUS
  <2>1. /\ r.aggregateId \in Streams
        /\ r.version \in 1 .. StreamLength(r.aggregateId) /\ r.occurredAt \in Nat
    BY <1>1, RowsAreStored
  <2> QED  BY <2>1
<1>4. \A r, s \in W : r.occurredAt = s.occurredAt /\ r.version = s.version => r = s
  BY DEF W, InStrictOrder
<1>5. StrictOrder(W, T)
  <2>1. \A r, s \in W : <<r, s>> \in T <=> before(r, s)
    OBVIOUS
  <2> HIDE DEF T
  <2>2. \A r \in W : ~Earlier(r, r)
    BY <1>3 DEF Earlier
  <2>3. \A r, s \in W : r # s => Earlier(r, s) \/ Earlier(s, r)
    BY <1>3, <1>4 DEF Earlier
  <2>4. \A r, s, t \in W : Earlier(r, s) /\ Earlier(s, t) => Earlier(r, t)
    BY <1>3 DEF Earlier
  <2> QED  BY <2>1, <2>2, <2>3, <2>4 DEF StrictOrder
<1>6. \E s \in SetToSeqs(W) : inOrder(s)
  <2>1. PICK s \in SetToSeqs(W) : Ordered(s, T)
    BY <1>2, <1>5, CanBeOrdered
  <2>2. inOrder(s)
    BY <2>1 DEF Ordered
  <2> HIDE DEF inOrder
  <2> QED  BY <2>2
<1>7. rows \in SetToSeqs(W)
  <2> HIDE DEF inOrder
  <2> QED  BY <1>6
<1>8. QueryOrder(filter, ascending) = rows
  BY DEF QueryOrder, OrderBy, W
<1> HIDE DEF rows
<1>9. rows \in [1 .. Cardinality(W) -> W]
  BY <1>7 DEF SetToSeqs
<1>10. rows \in Seq(ToSet(archive)) /\ Len(rows) = Cardinality(W)
  <2> DEFINE n == Cardinality(W)
             A == ToSet(archive)
  <2>1. n \in Nat /\ rows \in [1 .. n -> A]
    BY <1>1, <1>2, <1>9
  <2> HIDE DEF n, A
  <2>2. rows \in Seq(A) /\ Len(rows) = n
    BY <2>1
  <2> QED  BY <2>2 DEF n, A
<1> QED  BY <1>2, <1>8, <1>10

LEMMA QueryIsCut ==
    ASSUME NEW filter, NEW options \in QueryOptions
    PROVE  buildFilterQuery(filter, options) =
               Cut(QueryOrder(filter, options.ascending), options.offset, options.limit)
<1>1. options.limit # 0
  BY DEF QueryOptions
<1> QED  BY <1>1 DEF buildFilterQuery, Cut, QueryOrder

\* The loop, with what it has yielded and whether it has come to an end.
Loops(E) == [yielded : Seq(E), ended : BOOLEAN]

\* So far it has yielded a prefix of what one query yields, one row or more a turn.
Yields(loop, all, n) ==
    /\ \E k \in 0 .. Len(all) : /\ loop.yielded = SubSeq(all, 1, k)
                                /\ loop.ended => k = Len(all)
                                /\ n <= k \/ k = Len(all)

\* A batch is cut from the same rows, from where the last one ended.
LEMMA BatchIsCut ==
    ASSUME RowsKept, NEW filter, InStrictOrder(filter), NEW options \in QueryOptions, NEW size \in Nat \ {0},
           NEW yielded \in Seq(ToSet(archive)), Len(yielded) < options.limit
    PROVE  LET rest == options.limit - Len(yielded)
               part == nextBatch(filter, options, size, yielded)
           IN  /\ part = Cut(QueryOrder(filter, options.ascending), options.offset + Len(yielded),
                              IF size < rest THEN size ELSE rest)
               /\ part \in Seq(ToSet(archive))
<1> DEFINE k == Len(yielded)
           rest == options.limit - k
           limit == IF size < rest THEN size ELSE rest
           some == [options EXCEPT !.limit = limit, !.offset = @ + k]
           part == nextBatch(filter, options, size, yielded)
           cut == Cut(QueryOrder(filter, options.ascending), options.offset + k, limit)
<1>1. k \in Nat
  OBVIOUS
<1>2. /\ options.ascending \in BOOLEAN /\ options.limit \in Nat \ {0} /\ options.offset \in Nat
      /\ options = [ascending |-> options.ascending, limit |-> options.limit, offset |-> options.offset]
  BY DEF QueryOptions
<1>3. limit \in Nat \ {0}
  BY <1>1, <1>2
<1>4. some = [ascending |-> options.ascending, limit |-> limit, offset |-> options.offset + k]
  <2> HIDE DEF limit
  <2> DEFINE half == [options EXCEPT !.limit = limit]
  <2>1. half = [ascending |-> options.ascending, limit |-> limit, offset |-> options.offset]
    BY <1>2
  <2>2. some = [half EXCEPT !.offset = options.offset + k]
    OBVIOUS
  <2> HIDE DEF half, some
  <2> QED  BY <2>1, <2>2
<1>5. part = buildFilterQuery(filter, some)
  BY DEF nextBatch
<1> HIDE DEF part, some, limit
<1>6. some \in QueryOptions
  BY <1>1, <1>2, <1>3, <1>4 DEF QueryOptions
<1>7. buildFilterQuery(filter, some) = Cut(QueryOrder(filter, some.ascending), some.offset, some.limit)
  BY <1>6, QueryIsCut
<1>8. part = cut
  BY <1>4, <1>5, <1>7
<1>9. cut \in Seq(ToSet(archive))
  <2> DEFINE E == ToSet(archive)
             rows == QueryOrder(filter, options.ascending)
  <2>1. rows \in Seq(E)
    BY <1>2, RowsInOrder
  <2>2. options.offset + k \in Nat
    BY <1>1, <1>2
  <2> HIDE DEF E, rows
  <2>3. Cut(rows, options.offset + k, limit) \in Seq(E)
    BY <1>3, <2>1, <2>2, CutIs
  <2> QED  BY <2>3 DEF E, rows
<1> QED  BY <1>8, <1>9 DEF part, limit

LEMMA TurnTyped ==
    ASSUME RowsKept, NEW filter, InStrictOrder(filter), NEW options \in QueryOptions, NEW size \in Nat \ {0},
           NEW loop \in Loops(ToSet(archive))
    PROVE  turn(filter, options, size, loop) \in Loops(ToSet(archive))
<1> DEFINE E == ToSet(archive)
           rows == nextBatch(filter, options, size, loop.yielded)
<1>1. /\ loop.yielded \in Seq(E) /\ loop.ended \in BOOLEAN
      /\ loop = [yielded |-> loop.yielded, ended |-> loop.ended]
  BY DEF Loops
<1>2. Len(loop.yielded) \in Nat /\ options.limit \in Nat
  BY <1>1 DEF QueryOptions
<1>3. CASE loop.ended \/ Len(loop.yielded) >= options.limit \/ rows = <<>>
  <2>1. turn(filter, options, size, loop) = [loop EXCEPT !.ended = TRUE]
    BY <1>3 DEF turn
  <2> HIDE DEF E, rows
  <2>2. [loop EXCEPT !.ended = TRUE] \in Loops(E)
    BY DEF Loops, E
  <2> QED  BY <2>1, <2>2 DEF E
<1>4. CASE ~(loop.ended \/ Len(loop.yielded) >= options.limit \/ rows = <<>>)
  <2>1. Len(loop.yielded) < options.limit
    BY <1>2, <1>4
  <2>2. rows \in Seq(E)
    BY <1>1, <2>1, BatchIsCut
  <2>3. turn(filter, options, size, loop) = [yielded |-> loop.yielded \o rows, ended |-> Len(rows) < size]
    BY <1>4 DEF turn
  <2> HIDE DEF rows, E
  <2>4. loop.yielded \o rows \in Seq(E) /\ (Len(rows) < size) \in BOOLEAN
    BY <1>1, <2>2
  <2>5. [yielded |-> loop.yielded \o rows, ended |-> Len(rows) < size] \in Loops(E)
    BY <2>4 DEF Loops
  <2> QED  BY <2>3, <2>5 DEF E
<1> QED  BY <1>3, <1>4

\* Every turn yields more, or nothing is left.
LEMMA TurnYields ==
    ASSUME RowsKept, NEW filter, InStrictOrder(filter), NEW options \in QueryOptions, NEW size \in Nat \ {0},
           NEW loop \in Loops(ToSet(archive)), NEW n \in Nat,
           Yields(loop, buildFilterQuery(filter, options), n)
    PROVE  Yields(turn(filter, options, size, loop), buildFilterQuery(filter, options), n + 1)
<1> DEFINE E == ToSet(archive)
           rows == QueryOrder(filter, options.ascending)
           all == buildFilterQuery(filter, options)
           part == nextBatch(filter, options, size, loop.yielded)
           next == turn(filter, options, size, loop)
<1>1. /\ options.ascending \in BOOLEAN /\ options.limit \in Nat \ {0} /\ options.offset \in Nat
  BY DEF QueryOptions
<1>2. rows \in Seq(E) /\ all = Cut(rows, options.offset, options.limit)
  BY <1>1, RowsInOrder, QueryIsCut
<1>3. loop.yielded \in Seq(E) /\ loop = [yielded |-> loop.yielded, ended |-> loop.ended]
  BY DEF Loops
<1>4. PICK k \in 0 .. Len(all) : /\ loop.yielded = SubSeq(all, 1, k)
                                 /\ loop.ended => k = Len(all)
                                 /\ n <= k \/ k = Len(all)
  BY DEF Yields
<1>5. all \in Seq(E) /\ Len(all) = CutLength(rows, options.offset, options.limit)
  <2> HIDE DEF E, rows, all
  <2> QED  BY <1>1, <1>2, CutIs
<1>6. Len(all) \in Nat /\ k \in Nat /\ Len(all) <= options.limit
  <2>1. Len(rows) \in Nat
    <3> HIDE DEF E, rows
    <3> QED  BY <1>2
  <2> HIDE DEF E, rows, all
  <2> QED  BY <1>1, <1>5, <2>1 DEF CutLength
<1>7. Len(loop.yielded) = k
  <2> HIDE DEF E, rows, all
  <2> QED  BY <1>4, <1>5, PrefixTyped
<1> HIDE DEF all, rows
<1>8. CASE loop.ended \/ k >= options.limit
  <2>1. next = [loop EXCEPT !.ended = TRUE]
    BY <1>7, <1>8 DEF turn
  <2>2. next.yielded = loop.yielded
    BY <1>3, <2>1
  <2>3. k = Len(all)
    BY <1>1, <1>4, <1>6, <1>8
  <2> HIDE DEF next
  <2> QED  BY <1>4, <2>2, <2>3 DEF Yields, all, next
<1>9. CASE ~(loop.ended \/ k >= options.limit)
  <2> DEFINE rest == options.limit - k
  <2>0. k < options.limit
    BY <1>1, <1>6, <1>9
  <2>1. part = Cut(rows, options.offset + k, IF size < rest THEN size ELSE rest)
    BY <1>3, <1>7, <2>0, BatchIsCut DEF rows
  <2>8. part = Cut(rows, options.offset + k, IF size < options.limit - k THEN size ELSE options.limit - k)
    BY <2>1
  <2> HIDE DEF part, rest, E
  <2>2. /\ Len(part) = IF size < Len(all) - k THEN size ELSE Len(all) - k
        /\ SubSeq(all, 1, k) \o part = SubSeq(all, 1, k + Len(part))
        /\ part \in Seq(E)
    <3>1. options.offset \in Nat /\ options.limit \in Nat \ {0} /\ k \in 0 .. Len(all)
      BY <1>1
    <3>2. rows \in Seq(E) /\ all = Cut(rows, options.offset, options.limit)
      BY <1>2
    <3> DEFINE offset == options.offset
               limit == options.limit
    <3>3. /\ rows \in Seq(E) /\ offset \in Nat /\ limit \in Nat \ {0} /\ all = Cut(rows, offset, limit)
          /\ k \in 0 .. Len(all) /\ k < limit
          /\ part = Cut(rows, offset + k, IF size < limit - k THEN size ELSE limit - k)
      BY <3>1, <3>2, <2>0, <2>8
    <3> HIDE DEF offset, limit
    <3>4. Continues(rows, offset, limit, size, k, E)
      BY <3>3, BatchContinues
    <3> QED  BY <3>3, <3>4 DEF Continues
  <2>3. CASE part = <<>>
    <3>1. Len(part) = 0
      BY <2>3
    <3>2. k = Len(all)
      BY <1>4, <1>6, <2>2, <3>1
    <3>3. next.yielded = loop.yielded
      <4>1. next = [loop EXCEPT !.ended = TRUE]
        BY <2>3 DEF turn, part
      <4> QED  BY <1>3, <4>1
    <3> HIDE DEF next
    <3> QED  BY <1>4, <3>2, <3>3 DEF Yields, all, next
  <2>4. CASE part # <<>>
    <3>1. next = [yielded |-> loop.yielded \o part, ended |-> Len(part) < size]
      BY <1>7, <1>9, <2>4 DEF turn, part
    <3> DEFINE m == k + Len(part)
    <3>2. Len(part) \in Nat /\ Len(part) # 0
      BY <2>2, <2>4
    <3>3. m \in 0 .. Len(all) /\ (Len(part) < size => m = Len(all)) /\ (n + 1 <= m \/ m = Len(all))
      BY <1>4, <1>6, <2>2, <3>2
    <3>4. next.yielded = SubSeq(all, 1, m)
      BY <1>4, <2>2, <3>1
    <3>5. ASSUME next.ended PROVE m = Len(all)
      <4>1. Len(part) < size
        <5> DEFINE e == Len(part) < size
        <5>1. next = [yielded |-> loop.yielded \o part, ended |-> e]
          BY <3>1
        <5> HIDE DEF e, next
        <5>2. next.ended = e
          BY <5>1
        <5>3. e
          BY <3>5, <5>2
        <5> QED  BY <5>3 DEF e
      <4> QED  BY <3>3, <4>1
    <3> HIDE DEF m, next
    <3> QED  BY <3>3, <3>4, <3>5 DEF Yields, all, next
  <2> QED  BY <2>3, <2>4
<1> QED  BY <1>8, <1>9

\* Reading in batches, of whatever size, yields what reading at once does.
LEMMA StreamedIsAll ==
    ASSUME RowsKept, NEW filter, InStrictOrder(filter), NEW options \in QueryOptions, NEW size \in Nat \ {0}
    PROVE  streamAllEvents(filter, options, size) = loadAllEvents(filter, options)
<1> DEFINE A == Loops(ToSet(archive))
           all == buildFilterQuery(filter, options)
           base == [yielded |-> <<>>, ended |-> FALSE]
           g == [x \in A |-> turn(filter, options, size, x)]
           IsLoop(f) == f = [n \in Nat |-> IF n = 0 THEN base ELSE turn(filter, options, size, f[n - 1])]
           loop == CHOOSE f : IsLoop(f)
<1>1. streamAllEvents(filter, options, size) = loop[MaxArchived + 1].yielded
  BY DEF streamAllEvents
<1>2. base \in A /\ Yields(base, all, 0)
  <2>1. <<>> \in Seq(ToSet(archive)) /\ SubSeq(all, 1, 0) = <<>>
    OBVIOUS
  <2>2. base \in A
    BY <2>1 DEF Loops
  <2>3. Len(all) \in Nat
    OBVIOUS
  <2>4. 0 \in 0 .. Len(all)
    BY <2>3
  <2> HIDE DEF all
  <2>5. Yields(base, all, 0)
    BY <2>1, <2>4 DEF Yields
  <2> QED  BY <2>2, <2>5
<1>3. \A x \in A : turn(filter, options, size, x) \in A
  BY TurnTyped
<1> HIDE DEF A, base
<1>4. \E f : IsLoop(f)
  <2>1. g \in [A -> A] /\ \A x \in A : g[x] = turn(filter, options, size, x)
    BY <1>3
  <2> HIDE DEF g
  <2>2. PICK f \in [Nat -> A] : Repeats(g, base, f)
    BY <1>2, <2>1, RepeatExists
  <2>3. \A n \in Nat : n # 0 => g[f[n - 1]] = turn(filter, options, size, f[n - 1])
    BY <2>1, <2>2
  <2>4. IsLoop(f)
    BY <2>2, <2>3 DEF Repeats
  <2> HIDE DEF IsLoop
  <2> QED  BY <2>4
<1>5. IsLoop(loop)
  <2> HIDE DEF IsLoop
  <2> QED  BY <1>4
<1> HIDE DEF loop
<1>6. /\ loop[0] = base
      /\ \A n \in Nat : loop[n + 1] = turn(filter, options, size, loop[n])
  <2>1. \A n \in Nat : loop[n] = IF n = 0 THEN base ELSE turn(filter, options, size, loop[n - 1])
    BY <1>5
  <2>2. \A n \in Nat : n + 1 \in Nat /\ n + 1 # 0 /\ (n + 1) - 1 = n
    OBVIOUS
  <2> HIDE DEF IsLoop
  <2> QED  BY <2>1, <2>2
<1> DEFINE N == {n \in Nat : loop[n] \in A /\ Yields(loop[n], all, n)}
<1>7. \A n \in Nat : n \in N
  <2>1. 0 \in N
    BY <1>2, <1>6
  <2>2. ASSUME NEW n \in Nat, n \in N PROVE n + 1 \in N
    <3>1. loop[n] \in A /\ Yields(loop[n], all, n)
      BY <2>2
    <3>2. turn(filter, options, size, loop[n]) \in A
      BY <1>3, <3>1
    <3>3. Yields(turn(filter, options, size, loop[n]), all, n + 1)
      BY <3>1, TurnYields DEF A
    <3> QED  BY <1>6, <3>2, <3>3
  <2> HIDE DEF N
  <2> QED  BY <2>1, <2>2, Induction
<1>8. all \in Seq(ToSet(archive)) /\ Len(all) <= MaxArchived /\ Len(all) \in Nat
  <2> DEFINE rows == QueryOrder(filter, options.ascending)
             E == ToSet(archive)
  <2>1. /\ options.ascending \in BOOLEAN /\ options.limit \in Nat \ {0} /\ options.offset \in Nat
    BY DEF QueryOptions
  <2>2. rows \in Seq(E) /\ Len(rows) <= MaxArchived /\ all = Cut(rows, options.offset, options.limit)
    BY <2>1, RowsInOrder, QueryIsCut
  <2> HIDE DEF E, rows, all
  <2>3. all \in Seq(E) /\ Len(all) = CutLength(rows, options.offset, options.limit)
    BY <2>1, <2>2, CutIs
  <2>4. Len(rows) \in Nat
    BY <2>2
  <2>5. MaxArchived \in Nat
    BY ArchiveAssumption
  <2>6. Len(all) <= MaxArchived /\ Len(all) \in Nat
    BY <2>1, <2>2, <2>3, <2>4, <2>5 DEF CutLength
  <2> QED  BY <2>3, <2>6 DEF E
<1>9. MaxArchived + 1 \in Nat /\ Yields(loop[MaxArchived + 1], all, MaxArchived + 1)
  <2>1. MaxArchived + 1 \in Nat
    BY ArchiveAssumption
  <2> QED  BY <1>7, <2>1
<1> HIDE DEF all
<1>10. PICK k \in 0 .. Len(all) : /\ loop[MaxArchived + 1].yielded = SubSeq(all, 1, k)
                                  /\ MaxArchived + 1 <= k \/ k = Len(all)
  BY <1>9 DEF Yields
<1>11. k = Len(all)
  BY <1>8, <1>9, <1>10, ArchiveAssumption
<1>12. SubSeq(all, 1, Len(all)) = all
  BY <1>8, WholePrefix
<1> QED  BY <1>1, <1>10, <1>11, <1>12 DEF loadAllEvents, all

-----------------------------------------------------------------------------
(* The registry and the upgraders. *)

RegistryOK == /\ DOMAIN entries \subseteq EventTypes
              /\ \A type \in DOMAIN entries : entries[type] \in RegistryEntries

Increasing(s) == \A i, j \in 1 .. Len(s) : i < j => s[i] < s[j]

UpgradesInOrder ==
    /\ upgrading \in [eventType : EventTypes, version : (UpgradeTargets \cup {1}) \ {0}, applied : Seq(Nat)]
    /\ \A i \in 1 .. Len(upgrading.applied) : upgrading.applied[i] \in 1 .. upgrading.version - 1
    /\ Increasing(upgrading.applied)

LEMMA NumbersInOrder ==
    ASSUME NEW a \in Nat, NEW b \in Int, NEW S \in SUBSET (a .. b)
    PROVE  OrderBy(S, <) \in Seq(S) /\ Increasing(OrderBy(S, <))
<1> DEFINE T == {t \in S \X S : t[1] < t[2]}
           inOrder(s) == \A i, j \in DOMAIN s : i < j => s[i] < s[j]
           s == CHOOSE u \in SetToSeqs(S) : inOrder(u)
<1>1. IsFiniteSet(S) /\ Cardinality(S) \in Nat
  <2>1. IsFiniteSet(a .. b)
    BY FS_Interval
  <2> QED  BY <2>1, FS_Subset, FS_CardinalityType
<1>2. StrictOrder(S, T)
  <2>1. \A x, y \in S : <<x, y>> \in T <=> x < y
    OBVIOUS
  <2>2. \A x \in S : x \in Int
    OBVIOUS
  <2> HIDE DEF T
  <2> QED  BY <2>1, <2>2 DEF StrictOrder
<1>3. \E u \in SetToSeqs(S) : inOrder(u)
  <2>1. PICK u \in SetToSeqs(S) : Ordered(u, T)
    BY <1>1, <1>2, CanBeOrdered
  <2>2. inOrder(u)
    BY <2>1 DEF Ordered
  <2> HIDE DEF inOrder
  <2> QED  BY <2>2
<1>4. s \in SetToSeqs(S) /\ inOrder(s)
  <2> HIDE DEF inOrder
  <2> QED  BY <1>3
<1>5. OrderBy(S, <) = s
  BY DEF OrderBy
<1> HIDE DEF s
<1>6. s \in [1 .. Cardinality(S) -> S]
  BY <1>4 DEF SetToSeqs
<1>7. s \in Seq(S) /\ Len(s) = Cardinality(S)
  <2> DEFINE n == Cardinality(S)
  <2>1. n \in Nat /\ s \in [1 .. n -> S]
    BY <1>1, <1>6
  <2> HIDE DEF n
  <2>2. s \in Seq(S) /\ Len(s) = n
    BY <2>1
  <2> QED  BY <2>2 DEF n
<1>8. Increasing(s)
  BY <1>4, <1>6, <1>7 DEF Increasing
<1> QED  BY <1>5, <1>7, <1>8

\* Later numbers behind earlier ones.
LEMMA IncreasingConcat ==
    ASSUME NEW s \in Seq(Nat), NEW t \in Seq(Nat), NEW v \in Nat, NEW w \in Nat, v <= w, 1 <= v,
           \A i \in 1 .. Len(s) : s[i] \in 1 .. v - 1, Increasing(s),
           \A i \in 1 .. Len(t) : t[i] \in v .. w - 1, Increasing(t)
    PROVE  /\ s \o t \in Seq(Nat) /\ Increasing(s \o t)
           /\ \A i \in 1 .. Len(s \o t) : (s \o t)[i] \in 1 .. w - 1
<1> DEFINE u == s \o t
           n == Len(s)
           m == Len(t)
<1>1. /\ u \in Seq(Nat) /\ Len(u) = n + m /\ n \in Nat /\ m \in Nat
      /\ \A i \in 1 .. n : u[i] = s[i]
      /\ \A i \in 1 .. m : u[n + i] = t[i]
  BY ConcatIs
<1> HIDE DEF u
<1>2. ASSUME NEW i \in 1 .. n + m PROVE i \in 1 .. n \/ \E k \in 1 .. m : i = n + k
  <2> SUFFICES ASSUME i \notin 1 .. n PROVE \E k \in 1 .. m : i = n + k
    OBVIOUS
  <2>1. i - n \in 1 .. m /\ i = n + (i - n)
    BY <1>1
  <2> HIDE DEF n, m
  <2> QED  BY <2>1
<1> HIDE DEF n, m
<1>3. \A i \in 1 .. n : u[i] \in 1 .. v - 1
  BY <1>1 DEF n
<1>4. \A k \in 1 .. m : u[n + k] \in v .. w - 1
  BY <1>1 DEF m
<1>5. ASSUME NEW i \in 1 .. n + m PROVE u[i] \in 1 .. w - 1
  <2>1. CASE i \in 1 .. n
    BY <1>3, <2>1
  <2>2. ASSUME NEW k \in 1 .. m, i = n + k PROVE u[i] \in 1 .. w - 1
    <3>1. u[n + k] \in v .. w - 1
      BY <1>4
    <3> QED  BY <2>2, <3>1
  <2> QED  BY <1>2, <2>1, <2>2
<1>6. ASSUME NEW i \in 1 .. n + m, NEW j \in 1 .. n + m, i < j PROVE u[i] < u[j]
  <2>1. CASE i \in 1 .. n /\ j \in 1 .. n
    <3>1. s[i] < s[j]
      BY <1>6, <2>1 DEF Increasing, n
    <3> QED  BY <1>1, <2>1, <3>1
  <2>2. ASSUME i \in 1 .. n, NEW k \in 1 .. m, j = n + k PROVE u[i] < u[j]
    <3>1. u[i] \in 1 .. v - 1 /\ u[n + k] \in v .. w - 1
      BY <1>3, <1>4, <2>2
    <3> QED  BY <2>2, <3>1
  <2>3. ASSUME NEW h \in 1 .. m, NEW k \in 1 .. m, i = n + h, j = n + k PROVE u[i] < u[j]
    <3>1. h < k
      BY <1>1, <1>6, <2>3
    <3>2. t[h] < t[k]
      BY <3>1 DEF Increasing, m
    <3> QED  BY <1>1, <2>3, <3>2
  <2>4. ASSUME NEW h \in 1 .. m, i = n + h, j \in 1 .. n PROVE FALSE
    BY <1>1, <1>6, <2>4
  <2>5. i \in 1 .. n \/ \E k \in 1 .. m : i = n + k
    BY <1>2
  <2>6. j \in 1 .. n \/ \E k \in 1 .. m : j = n + k
    BY <1>2
  <2> QED  BY <2>1, <2>2, <2>3, <2>4, <2>5, <2>6
<1>7. Increasing(u)
  BY <1>1, <1>6 DEF Increasing
<1> QED  BY <1>1, <1>5, <1>7 DEF u

LEMMA UpgradeKeepsOrder ==
    ASSUME RegistryOK, UpgradesInOrder, NEW toVersion \in UpgradeTargets, Upgrade(toVersion)
    PROVE  UpgradesInOrder'
<1> DEFINE type == upgrading.eventType
           v == upgrading.version
           some == entries[type].upgraders \cap (v .. toVersion - 1)
           new == upgradeEventData(type, upgrading.applied, v, toVersion)
<1>1. /\ type \in EventTypes /\ v \in Nat /\ v >= 1 /\ v \in UpgradeTargets \cup {1}
      /\ upgrading.applied \in Seq(Nat)
      /\ upgrading = [eventType |-> type, version |-> v, applied |-> upgrading.applied]
  <2>1. upgrading \in [eventType : EventTypes, version : (UpgradeTargets \cup {1}) \ {0}, applied : Seq(Nat)]
    BY DEF UpgradesInOrder
  <2>2. v \in (UpgradeTargets \cup {1}) \ {0}
    BY <2>1
  <2> HIDE DEF v
  <2>3. v \in Nat /\ v >= 1
    BY <2>2, ArchiveAssumption
  <2> QED  BY <2>1, <2>2, <2>3 DEF v
<1>2. toVersion \in Nat /\ toVersion >= v
  BY ArchiveAssumption DEF Upgrade
<1>3. upgrading' = [eventType |-> type, version |-> toVersion, applied |-> new]
  <2> DEFINE half == [upgrading EXCEPT !.applied = new]
  <2>1. upgrading' = [half EXCEPT !.version = toVersion]
    BY DEF Upgrade
  <2> HIDE DEF new
  <2> DEFINE old == upgrading.applied
  <2>0. upgrading = [eventType |-> type, version |-> v, applied |-> old]
    BY <1>1
  <2> HIDE DEF type, v, old
  <2>2. half = [eventType |-> type, version |-> v, applied |-> new]
    BY <2>0
  <2> HIDE DEF half
  <2> QED  BY <2>1, <2>2
<1>4. /\ new \in Seq(Nat) /\ Increasing(new)
      /\ \A i \in 1 .. Len(new) : new[i] \in 1 .. toVersion - 1
  <2>1. CASE type \notin DOMAIN entries
    <3>1. new = upgrading.applied
      BY <2>1 DEF upgradeEventData
    <3>2. \A i \in 1 .. Len(upgrading.applied) : upgrading.applied[i] \in 1 .. v - 1
      BY DEF UpgradesInOrder
    <3>3. \A i \in 1 .. Len(upgrading.applied) : upgrading.applied[i] \in 1 .. toVersion - 1
      BY <1>1, <1>2, <3>2
    <3> QED  BY <1>1, <3>1, <3>3 DEF UpgradesInOrder
  <2>2. CASE type \in DOMAIN entries
    <3> DEFINE later == OrderBy(some, <)
    <3>1. new = upgrading.applied \o later
      BY <2>2 DEF upgradeEventData
    <3>2. some \in SUBSET (v .. toVersion - 1) /\ toVersion - 1 \in Int
      BY <1>2
    <3> HIDE DEF some
    <3>3. later \in Seq(some) /\ Increasing(later)
      BY <1>1, <3>2, NumbersInOrder
    <3> HIDE DEF later
    <3>4. \A i \in 1 .. Len(later) : later[i] \in some
      BY <3>3
    <3>9. \A i \in 1 .. Len(later) : later[i] \in v .. toVersion - 1
      BY <3>2, <3>4
    <3>5. later \in Seq(Nat)
      <4>1. \A i \in 1 .. Len(later) : later[i] \in Nat
        BY <1>1, <3>9
      <4>2. Len(later) \in Nat /\ later = [i \in 1 .. Len(later) |-> later[i]]
        BY <3>3
      <4>3. later \in [1 .. Len(later) -> Nat]
        BY <4>1, <4>2
      <4> QED  BY <4>2, <4>3
    <3>6. /\ \A i \in 1 .. Len(upgrading.applied) : upgrading.applied[i] \in 1 .. v - 1
          /\ Increasing(upgrading.applied)
      BY DEF UpgradesInOrder
    <3> DEFINE old == upgrading.applied
    <3>7. /\ old \in Seq(Nat) /\ \A i \in 1 .. Len(old) : old[i] \in 1 .. v - 1
          /\ Increasing(old)
      BY <1>1, <3>6
    <3> HIDE DEF old, v
    <3>8. /\ old \o later \in Seq(Nat) /\ Increasing(old \o later)
          /\ \A i \in 1 .. Len(old \o later) : (old \o later)[i] \in 1 .. toVersion - 1
      BY <1>1, <1>2, <3>3, <3>9, <3>5, <3>7, IncreasingConcat
    <3> QED  BY <3>1, <3>8 DEF old
  <2> QED  BY <2>1, <2>2
<1> HIDE DEF new
<1>5. toVersion \in (UpgradeTargets \cup {1}) \ {0}
  BY <1>1, <1>2
<1>6. upgrading' \in [eventType : EventTypes, version : (UpgradeTargets \cup {1}) \ {0}, applied : Seq(Nat)]
  BY <1>1, <1>3, <1>4, <1>5
<1>7. upgrading'.applied = new /\ upgrading'.version = toVersion
  BY <1>3
<1> QED  BY <1>4, <1>6, <1>7 DEF UpgradesInOrder

LEMMA Registered ==
    ASSUME RegistryOK, NEW es \in SUBSET RegistryEntries, entries' = register(entries, es)
    PROVE  RegistryOK'
<1>1. DOMAIN entries' = DOMAIN entries \cup {e.eventType : e \in es}
  BY DEF register
<1>2. ASSUME NEW type \in DOMAIN entries' PROVE type \in EventTypes /\ entries'[type] \in RegistryEntries
  <2>1. entries'[type] = IF type \in DOMAIN entries THEN entries[type]
                         ELSE CHOOSE e \in es : e.eventType = type
    BY <1>1 DEF register
  <2>2. CASE type \in DOMAIN entries
    BY <2>1, <2>2 DEF RegistryOK
  <2>3. CASE type \notin DOMAIN entries
    <3>1. \E e \in es : e.eventType = type
      BY <1>1, <2>3
    <3>2. entries'[type] \in es
      BY <2>1, <2>3, <3>1
    <3> QED  BY <3>1, <3>2 DEF EventTypes
  <2> QED  BY <2>2, <2>3
<1> QED  BY <1>2 DEF RegistryOK

-----------------------------------------------------------------------------
(* The archive. *)

ArchiveInv == RowsKept /\ SnapshotsTrue /\ RegistryOK /\ UpgradesInOrder

LEMMA ArchiveInvInit == ArchiveInit => ArchiveInv
<1> SUFFICES ASSUME ArchiveInit PROVE ArchiveInv
  OBVIOUS
<1>1. archive = <<>> /\ emitted = <<>> /\ snapshots = {} /\ session = Nowhere /\ entries = <<>>
  BY DEF ArchiveInit
<1>2. /\ <<>> \in Seq(StoredRow) /\ <<>> \in Seq(NewEvents) /\ Len(<<>>) = 0 /\ DOMAIN <<>> = {}
  OBVIOUS
<1>3. ArchiveRowsTyped /\ RowsOfEvents /\ RowsDistinct
  BY <1>1, <1>2, ArchiveAssumption DEF ArchiveRowsTyped, RowsOfEvents, RowsDistinct
<1>4. Numbered
  <2> SUFFICES ASSUME NEW a \in Streams
               PROVE  StreamLength(a) \in 0 .. Len(archive) /\ Versions(a) = 1 .. StreamLength(a)
    BY DEF Numbered
  <2>1. OfStream(a) = {} /\ Versions(a) = {}
    BY <1>1, <1>2 DEF OfStream, Versions, ToSet
  <2>2. StreamLength(a) = Max({0})
    BY <2>1 DEF StreamLength
  <2>3. Max({0}) = 0
    BY DEF Max
  <2> QED  BY <1>1, <1>2, <2>1, <2>2, <2>3
<1>5. SnapshotsTrue /\ RegistryOK
  BY <1>1, <1>2 DEF SnapshotsTrue, RegistryOK
<1>6. UpgradesInOrder
  <2>1. upgrading \in [eventType : EventTypes, version : {1}, applied : {<<>>}]
    BY DEF ArchiveInit
  <2>2. upgrading.applied = <<>> /\ upgrading.version = 1 /\ upgrading.eventType \in EventTypes
        /\ upgrading = [eventType |-> upgrading.eventType, version |-> 1, applied |-> <<>>]
    BY <2>1
  <2>3. <<>> \in Seq(Nat) /\ Len(<<>>) = 0
    OBVIOUS
  <2>4. /\ \A i \in 1 .. Len(upgrading.applied) : upgrading.applied[i] \in 1 .. upgrading.version - 1
        /\ Increasing(upgrading.applied)
    BY <2>2, <2>3 DEF Increasing
  <2>5. [eventType |-> upgrading.eventType, version |-> 1, applied |-> <<>>] \in
            [eventType : EventTypes, version : (UpgradeTargets \cup {1}) \ {0}, applied : Seq(Nat)]
    <3> DEFINE type == upgrading.eventType
    <3>1. type \in EventTypes /\ 1 \in (UpgradeTargets \cup {1}) \ {0}
      BY <2>2
    <3> HIDE DEF type
    <3>2. [eventType |-> type, version |-> 1, applied |-> <<>>] \in
            [eventType : EventTypes, version : (UpgradeTargets \cup {1}) \ {0}, applied : Seq(Nat)]
      BY <3>1, <2>3
    <3> QED  BY <3>2 DEF type
  <2>6. upgrading \in [eventType : EventTypes, version : (UpgradeTargets \cup {1}) \ {0}, applied : Seq(Nat)]
    BY <2>2, <2>5, Zenon
  <2> QED  BY <2>4, <2>6 DEF UpgradesInOrder
<1> QED  BY <1>3, <1>4, <1>5, <1>6 DEF ArchiveInv, RowsKept

LEMMA RowsUnchanged ==
    ASSUME RowsKept, UNCHANGED <<archive, emitted>>
    PROVE  RowsKept' /\ \A a : StreamLength(a)' = StreamLength(a)
<1>1. archive' = archive /\ emitted' = emitted
  OBVIOUS
<1>2. ArchiveRowsTyped' /\ RowsOfEvents' /\ RowsDistinct'
  BY <1>1 DEF RowsKept, ArchiveRowsTyped, RowsOfEvents, RowsDistinct
<1>3. \A a : OfStream(a)' = OfStream(a) /\ StreamLength(a)' = StreamLength(a) /\ Versions(a)' = Versions(a)
  BY <1>1 DEF OfStream, StreamLength, Versions
<1>4. Numbered'
  BY <1>1, <1>3 DEF RowsKept, Numbered
<1> QED  BY <1>2, <1>3, <1>4 DEF RowsKept

LEMMA ArchiveInvStep == ArchiveInv /\ [ArchiveNext]_archiveVars => ArchiveInv'
<1> SUFFICES ASSUME ArchiveInv, [ArchiveNext]_archiveVars PROVE ArchiveInv'
  OBVIOUS
<1> USE DEF ArchiveInv
\* What does not touch a variable leaves its part alone.
<1>1. ASSUME UNCHANGED <<archive, emitted>> PROVE RowsKept' /\ \A a : StreamLength(a)' = StreamLength(a)
  BY <1>1, RowsUnchanged
<1>2. ASSUME \A a \in Streams : StreamLength(a) <= StreamLength(a)',
             \A a \in Streams : StreamLength(a) \in Nat /\ StreamLength(a)' \in Nat,
             NEW s, Recorded(s)
      PROVE  Recorded(s)'
  <2>1. s.aggregateId \in Streams /\ s.version \in Nat /\ s.version <= StreamLength(s.aggregateId)
    BY <1>2 DEF Recorded
  <2>2. s.version <= StreamLength(s.aggregateId)'
    BY <1>2, <2>1
  <2> QED  BY <1>2, <2>2 DEF Recorded
<1>3. ASSUME RowsKept', \A a \in Streams : StreamLength(a) <= StreamLength(a)'
      PROVE  \A s : Recorded(s) => Recorded(s)'
  <2>1. \A a \in Streams : StreamLength(a) \in Nat
    BY DEF RowsKept, Numbered, ArchiveRowsTyped
  <2>2. \A a \in Streams : StreamLength(a)' \in Nat
    BY <1>3 DEF RowsKept, Numbered, ArchiveRowsTyped
  <2> QED  BY <1>2, <1>3, <2>1, <2>2
<1>4. ASSUME UNCHANGED <<archive, emitted>> PROVE \A s : Recorded(s) => Recorded(s)'
  <2>1. \A a \in Streams : StreamLength(a) <= StreamLength(a)'
    <3>1. \A a \in Streams : StreamLength(a) \in Nat
      BY DEF RowsKept, Numbered, ArchiveRowsTyped
    <3> QED  BY <1>1, <1>4, <3>1
  <2> QED  BY <1>1, <1>3, <1>4, <2>1
<1>5. ASSUME \A s : Recorded(s) => Recorded(s)', UNCHANGED <<snapshots, session>> PROVE SnapshotsTrue'
  BY <1>5 DEF SnapshotsTrue
<1>6. ASSUME UNCHANGED entries PROVE RegistryOK'
  BY <1>6 DEF RegistryOK
<1>7. ASSUME UNCHANGED upgrading PROVE UpgradesInOrder'
  BY <1>7 DEF UpgradesInOrder
<1>8. ASSUME UNCHANGED <<archive, emitted, snapshots, session, upgrading>>, RegistryOK' PROVE ArchiveInv'
  BY <1>1, <1>4, <1>5, <1>7, <1>8
<1>9. ASSUME NEW e \in RegistryEntries, RegisterEvent(e) PROVE ArchiveInv'
  <2>1. entries' = register(entries, {e}) /\ {e} \in SUBSET RegistryEntries
    BY <1>9 DEF RegisterEvent
  <2>2. RegistryOK'
    BY <2>1, Registered
  <2> QED  BY <1>8, <1>9, <2>2 DEF RegisterEvent
<1>10. ASSUME NEW e \in RegistryEntries, NEW f \in RegistryEntries, RegisterAll(<<e, f>>) PROVE ArchiveInv'
  <2>1. DOMAIN <<e, f>> = 1 .. 2 /\ <<e, f>>[1] = e /\ <<e, f>>[2] = f
    OBVIOUS
  <2>2. ASSUME NEW i \in DOMAIN <<e, f>> PROVE <<e, f>>[i] \in RegistryEntries
    <3>1. i = 1 \/ i = 2
      BY <2>1
    <3> QED  BY <2>1, <3>1
  <2>3. \E es \in SUBSET RegistryEntries : entries' = register(entries, es)
    <3> DEFINE Duplicate(i) == <<e, f>>[i].eventType \in
                   DOMAIN entries \cup {<<e, f>>[j].eventType : j \in 1 .. i - 1}
               accepted == {j \in DOMAIN <<e, f>> : \A k \in 1 .. j : ~Duplicate(k)}
               es == {<<e, f>>[i] : i \in accepted}
    <3>1. entries' = register(entries, es)
      BY <1>10 DEF RegisterAll
    <3>2. accepted \subseteq DOMAIN <<e, f>>
      OBVIOUS
    <3> HIDE DEF accepted
    <3>3. es \in SUBSET RegistryEntries
      BY <2>2, <3>2
    <3> HIDE DEF es
    <3> QED  BY <3>1, <3>3
  <2>4. RegistryOK'
    BY <2>3, Registered
  <2> QED  BY <1>8, <1>10, <2>4 DEF RegisterAll
<1>11. ASSUME ClearRegistry PROVE ArchiveInv'
  <2>1. entries' = <<>> /\ DOMAIN <<>> = {}
    BY <1>11 DEF ClearRegistry
  <2>2. RegistryOK'
    BY <2>1 DEF RegistryOK
  <2> QED  BY <1>8, <1>11, <2>2 DEF ClearRegistry
<1>12. ASSUME NEW v \in UpgradeTargets, Upgrade(v) PROVE ArchiveInv'
  <2>1. UpgradesInOrder'
    BY <1>12, UpgradeKeepsOrder
  <2>2. UNCHANGED <<entries, archive, emitted, snapshots, session>>
    BY <1>12 DEF Upgrade
  <2> QED  BY <1>1, <1>4, <1>5, <1>6, <2>1, <2>2
<1>13. ASSUME NEW a \in Streams, NEW events \in ArchiveCommands, NEW time \in ArchiveTimes,
              AppendToStream(a, events, time)
       PROVE  ArchiveInv'
  <2>1. RowsKept' /\ \A b \in Streams : StreamLength(b) <= StreamLength(b)'
    BY <1>13, RowsKeptByAppend
  <2>2. UNCHANGED <<entries, snapshots, session, upgrading>>
    BY <1>13 DEF AppendToStream
  <2>3. \A s : Recorded(s) => Recorded(s)'
    BY <1>3, <2>1
  <2> QED  BY <1>5, <1>6, <1>7, <2>1, <2>2, <2>3
<1>14. ASSUME NEW a \in Streams, RebuildAggregate(a) PROVE ArchiveInv'
  <2>1. PICK found \in loadLatestSnapshot(a) : session' = Rebuilt(found)
    BY <1>14 DEF RebuildAggregate
  <2>2. UNCHANGED <<entries, archive, emitted, snapshots, upgrading>>
    BY <1>14 DEF RebuildAggregate
  <2> DEFINE t == Rebuilt(found)
  <2>3. Recorded(t)
    <3>1. found = [Nowhere EXCEPT !.aggregateId = a]
      BY <2>1 DEF loadLatestSnapshot, loadSnapshotAtVersion
    <3>2. Recorded(found)
      BY <3>1, NoSnapshot
    <3> QED  BY <3>2, RebuiltIsRecorded
  <2>4. \A s : Recorded(s) => Recorded(s)'
    BY <1>4, <2>2
  <2>5. SnapshotsTrue'
    <3>1. session' = t
      BY <2>1
    <3> HIDE DEF t
    <3>2. Recorded(session)'
      BY <2>2, <2>3, <3>1 DEF Recorded, StreamLength, OfStream
    <3> QED  BY <2>2, <2>4, <3>2 DEF SnapshotsTrue
  <2> QED  BY <1>1, <1>6, <1>7, <2>2, <2>5
<1>15. ASSUME NEW a \in Streams, deleteSnapshots(a) PROVE ArchiveInv'
  <2>1. UNCHANGED <<entries, archive, emitted, session, upgrading>> /\ snapshots' \subseteq snapshots
    BY <1>15 DEF deleteSnapshots
  <2>2. \A s : Recorded(s) => Recorded(s)'
    BY <1>4, <2>1
  <2>3. SnapshotsTrue'
    BY <2>1, <2>2 DEF SnapshotsTrue
  <2> QED  BY <1>1, <1>6, <1>7, <2>1, <2>3
<1>16. ASSUME saveSnapshot PROVE ArchiveInv'
  <2>1. /\ UNCHANGED <<entries, archive, emitted, session, upgrading>>
        /\ snapshots' \subseteq snapshots \cup {session}
        /\ session # Nowhere
    BY <1>16 DEF saveSnapshot
  <2>2. \A s : Recorded(s) => Recorded(s)'
    BY <1>4, <2>1
  <2>3. SnapshotsTrue'
    BY <2>1, <2>2 DEF SnapshotsTrue
  <2> QED  BY <1>1, <1>6, <1>7, <2>1, <2>3
<1>17. CASE UNCHANGED archiveVars
  BY <1>6, <1>8, <1>17 DEF archiveVars
<1> QED  BY <1>9, <1>10, <1>11, <1>12, <1>13, <1>14, <1>15, <1>16, <1>17 DEF ArchiveNext

\* The invariant says that what is stored is read back.
LEMMA FaithfulInv == ArchiveInv => ArchiveFaithful
<1> SUFFICES ASSUME ArchiveInv PROVE ArchiveFaithful
  OBVIOUS
<1> USE DEF ArchiveInv
<1>1. ASSUME NEW s \in snapshots \cup {[Nowhere EXCEPT !.aggregateId = a] : a \in Streams}
      PROVE  Rebuilt(s).state = [i \in 1 .. StreamLength(s.aggregateId) |-> i]
  <2>1. Recorded(s)
    BY <1>1, NoSnapshot DEF SnapshotsTrue
  <2>2. /\ Recorded(Rebuilt(s))
        /\ Rebuilt(s).version = StreamLength(s.aggregateId)
    BY <2>1, RebuiltIsRecorded
  <2> QED  BY <2>2 DEF Recorded
<1>2. ASSUME NEW q \in ArchiveQueries, NEW batchSize \in 1 .. 2, InStrictOrder(q.filter)
      PROVE  streamAllEvents(q.filter, q.options, batchSize) = loadAllEvents(q.filter, q.options)
  <2>1. batchSize \in Nat \ {0} /\ q.options \in QueryOptions
    BY ArchiveAssumption
  <2> QED  BY <1>2, <2>1, StreamedIsAll
<1>3. ASSUME NEW i \in DOMAIN archive, NEW e \in deserialize(archive[i])
      PROVE  \/ e.eventData = emitted[i].eventData
             \/ HasMarker(emitted[i].eventData)
             \/ ~emitted[i].encoded /\ HasSpecial(emitted[i].eventData)
  <2>1. emitted[i] \in NewEvents /\ archive[i].eventData = Stored(emitted[i])
    BY DEF RowsKept, ArchiveRowsTyped, RowsOfEvents
  <2>2. e.eventData = deserializeEventData(archive[i].eventData)
    BY <1>3 DEF deserialize
  <2>3. \/ HasMarker(emitted[i].eventData)
        \/ ~emitted[i].encoded /\ HasSpecial(emitted[i].eventData)
        \/ deserializeEventData(Stored(emitted[i])) = emitted[i].eventData
    BY <2>1, StoredIsRead
  <2> QED  BY <2>1, <2>2, <2>3
<1>4. ASSUME NEW i \in DOMAIN upgrading.applied
      PROVE  /\ upgrading.applied[i] \in 1 .. upgrading.version - 1
             /\ \A j \in 1 .. i - 1 : upgrading.applied[j] < upgrading.applied[i]
  <2>1. upgrading.applied \in Seq(Nat)
    BY DEF UpgradesInOrder
  <2>2. DOMAIN upgrading.applied = 1 .. Len(upgrading.applied) /\ Len(upgrading.applied) \in Nat
    BY <2>1
  <2>3. \A j \in 1 .. i - 1 : j \in 1 .. Len(upgrading.applied) /\ j < i
    BY <2>2
  <2> QED  BY <2>2, <2>3 DEF UpgradesInOrder, Increasing
<1> QED  BY <1>1, <1>2, <1>3, <1>4 DEF ArchiveFaithful

\* The invariant gives the types.
LEMMA ArchiveTyped == ArchiveInv => ArchiveTypeOK
<1> SUFFICES ASSUME ArchiveInv PROVE ArchiveTypeOK
  OBVIOUS
<1> USE DEF ArchiveInv
<1> DEFINE Row == [aggregateId : Streams \cup {"none"}, version : 0 .. MaxArchived,
                      state : Seq(1 .. MaxArchived)]
<1>1. MaxArchived \in Nat /\ Len(archive) \in Nat /\ Len(archive) <= MaxArchived
  BY ArchiveAssumption DEF RowsKept, ArchiveRowsTyped
<1>2. ASSUME NEW s, Recorded(s) PROVE s \in Row
  <2>1. /\ s \in [aggregateId : Streams, version : Nat, state : Seq(Nat)]
        /\ s.version <= StreamLength(s.aggregateId) /\ s.state = [i \in 1 .. s.version |-> i]
    BY <1>2 DEF Recorded
  <2>2. StreamLength(s.aggregateId) \in 0 .. Len(archive)
    BY <2>1 DEF RowsKept, Numbered
  <2>3. s.version \in 0 .. MaxArchived
    BY <1>1, <2>1, <2>2
  <2> DEFINE v == s.version
  <2>4. s.state = [i \in 1 .. v |-> i] /\ v \in Nat /\ v <= MaxArchived
    BY <2>1, <2>3
  <2> HIDE DEF v
  <2>5. \A i \in 1 .. v : i \in 1 .. MaxArchived
    BY <1>1, <2>4
  <2>6. s.state \in Seq(1 .. MaxArchived)
    BY <2>4, <2>5
  <2> QED  BY <2>1, <2>3, <2>6
<1>3. Nowhere \in Row
  <2>1. <<>> \in Seq(1 .. MaxArchived) /\ 0 \in 0 .. MaxArchived
    BY <1>1
  <2> QED  BY <2>1 DEF Nowhere
<1>4. snapshots \cup {session} \subseteq Row
  <2> HIDE DEF Row
  <2> QED  BY <1>2, <1>3 DEF SnapshotsTrue
<1>5. upgrading.version \in UpgradeTargets \cup {1}
  BY DEF UpgradesInOrder
<1> QED  BY <1>4, <1>5 DEF ArchiveTypeOK, RegistryOK, RowsKept, ArchiveRowsTyped

\* A stored snapshot of any age, saved at any time, and the events after it make the
\* whole stream; where no rows tie, batches of one and of two yield what one query yields;
\* an event that decodes has its data back, unless it was not encoded and holds dates
\* or buffers, or looks encoded by itself; and no upgrader is applied twice, out of order,
\* or ahead of the version asked for (appendToStream, loadStream, streamAllEvents,
\* deserialize and upgradeEventData).
THEOREM ArchiveRead == ArchiveSpec => []ArchiveFaithful
<1>1. ArchiveSpec => []ArchiveInv
  BY ArchiveInvInit, ArchiveInvStep, PTL DEF ArchiveSpec
<1> QED  BY <1>1, FaithfulInv, PTL

\* Registry, rows, snapshots and the rebuilt aggregate have their types, and the store
\* never holds more rows than the bound.
THEOREM ArchiveTypeCorrect == ArchiveSpec => []ArchiveTypeOK
<1>1. ArchiveSpec => []ArchiveInv
  BY ArchiveInvInit, ArchiveInvStep, PTL DEF ArchiveSpec
<1> QED  BY <1>1, ArchiveTyped, PTL

-----------------------------------------------------------------------------
(* The read side.  Each part's steps are its own, or leave it alone; so what holds
   of the parts holds of them together. *)

allVars == <<vars, watchVars, billingVars, roleVars, otherVars>>

LEMMA PartsKept ==
    ASSUME [ReadModelNext]_allVars
    PROVE  /\ which' = which
           /\ which # "billing" => UNCHANGED billingVars
           /\ which # "roles" => UNCHANGED roleVars
           /\ which = "metadata" => UNCHANGED reportVars
<1>1. CASE UNCHANGED allVars
  BY <1>1 DEF allVars, otherVars, watchVars
<1>2. CASE which = "billing" /\ BillingNext /\ UNCHANGED <<roleVars, otherVars>>
  BY <1>2 DEF BillingNext, Watch
<1>3. CASE which = "roles" /\ RoleNext /\ UNCHANGED <<billingVars, otherVars>>
  BY <1>3 DEF RoleNext, Watch
<1>4. CASE /\ UNCHANGED <<vars, watchVars, billingVars, roleVars>>
           /\ \/ which = "metadata" /\ UNCHANGED reportVars
              \/ which \in {"reports", "quality", "archive", "analytics"}
  BY <1>4 DEF watchVars
<1> QED  BY <1>1, <1>2, <1>3, <1>4 DEF ReadModelNext

LEMMA BillingPart ==
    ASSUME [ReadModelNext]_allVars, which = "billing"
    PROVE  [BillingNext]_<<vars, watchVars, billingVars>>
  BY DEF ReadModelNext, allVars

LEMMA RolesPart ==
    ASSUME [ReadModelNext]_allVars, which = "roles"
    PROVE  [RoleNext]_<<vars, watchVars, roleVars>>
  BY DEF ReadModelNext, allVars

\* Importing a row and deleting one are steps of the table with and without reports.
LEMMA ReportsLeaveTable ==
    ASSUME ReportsNext PROVE [MetadataNext]_metadataVars
<1>1. CASE UNCHANGED metadataVars
  BY <1>1
<1>2. ASSUME NEW c \in Callers, NEW configs \in ReportBatches, GenerateReports(c, configs)
      PROVE  UNCHANGED metadataVars
  BY <1>2 DEF GenerateReports
<1>3. ASSUME NEW c \in Callers, GenerateReport(c) PROVE UNCHANGED metadataVars
  BY <1>3 DEF GenerateReport
<1>4. ASSUME NEW c \in Callers, SaveReportResult(c) PROVE UNCHANGED metadataVars
  BY <1>4 DEF SaveReportResult
<1>5. ASSUME NEW k \in MetadataKeys, NEW r \in MetadataRows, ImportRow(k, r) PROVE MetadataNext
  BY <1>5 DEF MetadataNext
<1>6. ASSUME NEW k \in MetadataKeys, SoftDelete(k) PROVE MetadataNext
  BY <1>6 DEF MetadataNext
<1> QED  BY <1>1, <1>2, <1>3, <1>4, <1>5, <1>6 DEF ReportsNext

LEMMA OtherParts ==
    ASSUME [ReadModelNext]_allVars
    PROVE  /\ [MetadataNext]_metadataVars
           /\ which # "metadata" => [ReportsNext]_<<metadataVars, reportVars>>
           /\ [QualityNext]_qualityVars
           /\ [ArchiveNext]_archiveVars
           /\ [AnalyticsNext]_analyticsVars
<1>1. CASE UNCHANGED otherVars
  BY <1>1 DEF otherVars
<1>2. CASE /\ which = "metadata" /\ MetadataNext
           /\ UNCHANGED <<reportVars, qualityVars, archiveVars, analyticsVars>>
  BY <1>2
<1>3. CASE which = "reports" /\ ReportsNext /\ UNCHANGED <<qualityVars, archiveVars, analyticsVars>>
  BY <1>3, ReportsLeaveTable
<1>4. CASE /\ which = "quality" /\ QualityNext
           /\ UNCHANGED <<metadataVars, reportVars, archiveVars, analyticsVars>>
  BY <1>4
<1>5. CASE /\ which = "archive" /\ ArchiveNext
           /\ UNCHANGED <<metadataVars, reportVars, qualityVars, analyticsVars>>
  BY <1>5
<1>6. CASE /\ which = "analytics" /\ AnalyticsNext
           /\ UNCHANGED <<metadataVars, reportVars, qualityVars, archiveVars>>
  BY <1>6
<1> QED  BY <1>1, <1>2, <1>3, <1>4, <1>5, <1>6 DEF ReadModelNext, allVars

\* The read models that no message is for, and the reports nobody makes, stay as they began.
Quiet ==
    /\ which # "billing" => BillingInit
    /\ which # "roles" => RoleInit
    /\ which = "metadata" => ReportsInit

LEMMA StaysQuiet ==
    ASSUME Quiet, [ReadModelNext]_allVars PROVE Quiet'
<1>1. /\ which' = which
      /\ which # "billing" => UNCHANGED billingVars
      /\ which # "roles" => UNCHANGED roleVars
      /\ which = "metadata" => UNCHANGED reportVars
  BY PartsKept
<1> QED  BY <1>1 DEF Quiet, BillingInit, billingVars, RoleInit, roleVars, ReportsInit, reportVars

\* The read side does what each of its parts does.
THEOREM ReadSideIsItsParts ==
    ReadModelSpec => /\ which = "billing" => BillingSpec
                     /\ which = "roles" => RoleSpec
                     /\ which # "metadata" => ReportsSpec
                     /\ MetadataSpec /\ QualitySpec /\ ArchiveSpec /\ AnalyticsSpec
<1>1. ReadModelInit => /\ Init /\ BillingInit /\ RoleInit /\ MetadataInit /\ ReportsInit
                       /\ AnalyticsInit /\ ArchiveInit /\ QualityInit
                       /\ which = "billing" => WatchInit("billing")
                       /\ which = "roles" => WatchInit("roles")
  BY DEF ReadModelInit, WatchInit
<1>2. [ReadModelNext]_allVars => /\ which' = which
                                 /\ which = "billing" => [BillingNext]_<<vars, watchVars, billingVars>>
                                 /\ which = "roles" => [RoleNext]_<<vars, watchVars, roleVars>>
                                 /\ which # "metadata" => [ReportsNext]_<<metadataVars, reportVars>>
                                 /\ [MetadataNext]_metadataVars /\ [QualityNext]_qualityVars
                                 /\ [ArchiveNext]_archiveVars /\ [AnalyticsNext]_analyticsVars
  BY PartsKept, BillingPart, RolesPart, OtherParts
<1>3. /\ which' = which /\ which = "billing" => (which = "billing")'
      /\ which' = which /\ which = "roles" => (which = "roles")'
      /\ which' = which /\ which # "metadata" => (which # "metadata")'
  OBVIOUS
<1>4. ReadModelSpec => MetadataSpec /\ QualitySpec /\ ArchiveSpec /\ AnalyticsSpec
  BY <1>1, <1>2, PTL DEF ReadModelSpec, allVars, MetadataSpec, QualitySpec, ArchiveSpec, AnalyticsSpec
<1>5. ReadModelSpec /\ which = "billing" => BillingSpec
  BY <1>1, <1>2, <1>3, PTL DEF ReadModelSpec, allVars, BillingSpec
<1>6. ReadModelSpec /\ which = "roles" => RoleSpec
  BY <1>1, <1>2, <1>3, PTL DEF ReadModelSpec, allVars, RoleSpec
<1>7. ReadModelSpec /\ which # "metadata" => ReportsSpec
  BY <1>1, <1>2, <1>3, PTL DEF ReadModelSpec, allVars, ReportsSpec
<1> QED  BY <1>4, <1>5, <1>6, <1>7, PTL

LEMMA AlwaysQuiet ==
    ReadModelSpec => /\ []Quiet
                     /\ which = "billing" \/ [](which # "billing")
                     /\ which = "roles" \/ [](which # "roles")
                     /\ which # "metadata" \/ [](which = "metadata")
<1>1. ReadModelInit => Quiet
  BY DEF ReadModelInit, Quiet
<1>2. Quiet /\ [ReadModelNext]_allVars
        => /\ Quiet'
           /\ which # "billing" => (which # "billing")'
           /\ which # "roles" => (which # "roles")'
           /\ which = "metadata" => (which = "metadata")'
  BY StaysQuiet, PartsKept
<1>3. /\ which = "billing" \/ which # "billing"
      /\ which = "roles" \/ which # "roles"
      /\ which = "metadata" \/ which # "metadata"
  OBVIOUS
<1> QED  BY <1>1, <1>2, <1>3, PTL DEF ReadModelSpec, allVars

\* What the archive promises of reading events back (ArchiveRead) it promises as a part
\* of the read side too, whoever else reads.
THEOREM EventsAreReadBack == ReadModelSpec => []EventsReadBack
<1>1. ArchiveFaithful => EventsReadBack
  BY DEF EventsReadBack
<1> QED  BY <1>1, ReadSideIsItsParts, ArchiveRead, PTL

\* The variables of all parts have their types, where one subscriber listens.
THEOREM ReadSideTypeCorrect ==
    ASSUME \A r, s \in Subscribers : r = s
    PROVE  ReadModelSpec => []ReadModelsTypeOK
<1>1. Quiet /\ which # "billing" => BillingTypeOK
  BY DEF Quiet, BillingInit, BillingTypeOK, BillStatus
<1>2. Quiet /\ which # "roles" => RoleTypeOK
  BY RoleIdsAssumption DEF Quiet, RoleInit, RoleTypeOK
<1>3. Quiet /\ which = "metadata" => ReportsTypeOK
  <2> SUFFICES ASSUME ReportsInit PROVE ReportsTypeOK
    BY DEF Quiet
  <2>1. <<>> \in Seq(AnalyticsReportConfig) /\ <<>> \in Seq(Results) /\ {} \in SUBSET Results
    OBVIOUS
  <2>2. [todo |-> <<>>, saving |-> {}, results |-> <<>>, failed |-> FALSE] \in
            [todo : Seq(AnalyticsReportConfig), saving : SUBSET Results,
             results : Seq(Results), failed : BOOLEAN]
    BY <2>1
  <2>3. DOMAIN analyticsReports = {}
    BY DEF ReportsInit
  <2> QED  BY <2>2, <2>3 DEF ReportsInit, ReportsTypeOK
<1>4. ReadModelSpec => []BillingTypeOK
  BY <1>1, AlwaysQuiet, ReadSideIsItsParts, BillingTypeCorrect, PTL
<1>5. ReadModelSpec => []RoleTypeOK
  BY <1>2, AlwaysQuiet, ReadSideIsItsParts, RoleTypeCorrect, PTL
<1>6. ReadModelSpec => []ReportsTypeOK
  BY <1>3, AlwaysQuiet, ReadSideIsItsParts, ReportTypeCorrect, PTL
<1>7. ReadModelSpec => [](MetadataTypeOK /\ QualityTypeOK /\ ArchiveTypeOK /\ AnalyticsTypeOK)
  BY ReadSideIsItsParts, MetadataTypeCorrect, QualityTypeCorrect, ArchiveTypeCorrect,
     AnalyticsTypeCorrect, PTL
<1>8. BillingTypeOK /\ RoleTypeOK /\ MetadataTypeOK /\ ReportsTypeOK /\ QualityTypeOK
        /\ ArchiveTypeOK /\ AnalyticsTypeOK => ReadModelsTypeOK
  BY DEF ReadModelsTypeOK
<1> QED  BY <1>4, <1>5, <1>6, <1>7, <1>8, PTL

\* What is proved of each part holds of the read side as a whole: the bill's row shows
\* a status the bill has or has had, never goes back and catches up, roles are
\* assigned, pages complete, reports, events and analytics true.
THEOREM ReadSideCorrect ==
    ASSUME OneAggregate, \A r, s \in Subscribers : r = s
    PROVE  ReadModelSpec =>
               /\ [](/\ RowIsPast /\ RowCatchesUp /\ RolesAssigned
                     /\ PagesComplete /\ ReportsTrue /\ EventsReadBack /\ AnalyticsTrue)
               /\ RowMovesForward /\ ScoreMonotone
<1>1. Quiet /\ which # "billing" => RowIsPast /\ RowCatchesUp
  BY DEF Quiet, BillingInit, RowIsPast, RowCatchesUp, Past
<1>2. which # "roles" => RolesAssigned
  BY DEF RolesAssigned
<1>3. Quiet /\ which = "metadata" => ReportsTrue
  <2> SUFFICES ASSUME ReportsInit PROVE ReportsTrue
    BY DEF Quiet
  <2>1. \A c \in Callers : calls[c].results = <<>>
    BY DEF ReportsInit
  <2>2. ToSet(<<>>) = {}
    BY DEF ToSet
  <2>3. DOMAIN analyticsReports = {}
    BY DEF ReportsInit
  <2>4. Made = {}
    BY <2>1, <2>2, <2>3 DEF Made
  <2> QED  BY <2>3, <2>4 DEF ReportsTrue
<1>4. ReadModelSpec => [](RowIsPast /\ RowCatchesUp)
  BY <1>1, AlwaysQuiet, ReadSideIsItsParts, RowAlwaysPast, RowAlwaysCatchesUp, PTL
<1>5. ReadModelSpec => []RolesAssigned
  BY <1>2, AlwaysQuiet, ReadSideIsItsParts, AlwaysAssigned, PTL
<1>6. ReadModelSpec => []ReportsTrue
  BY <1>3, AlwaysQuiet, ReadSideIsItsParts, ReportsAlwaysTrue, PTL
<1>7. ReadModelSpec => [](PagesComplete /\ EventsReadBack /\ AnalyticsTrue) /\ ScoreMonotone
  BY ReadSideIsItsParts, PagesAreComplete, EventsAreReadBack, AnalyticsAlwaysTrue,
     ScoresMonotone, PTL
<1>8. Quiet /\ which # "billing" /\ Quiet' /\ (which # "billing")'
        => [disturbed' \/ row \in Past(row')]_<<row, disturbed>>
  BY DEF Quiet, BillingInit, Past
<1>9. ReadModelSpec => RowMovesForward
  BY <1>8, AlwaysQuiet, ReadSideIsItsParts, RowNeverGoesBack, PTL DEF RowMovesForward
<1> QED  BY <1>4, <1>5, <1>6, <1>7, <1>9, PTL

=============================================================================

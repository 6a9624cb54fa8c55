--------------------------- MODULE BillingAggregate ---------------------------
(***************************************************************************)
(* The billing aggregate as an instance: what its methods change beside    *)
(* the status (module BillingReadModel follows the status to the read      *)
(* model), the analytics data it inherits, and what rehydrate makes of its *)
(* events.  Times are left out; an amount is one of three sizes.           *)
(***************************************************************************)
EXTENDS AggregateRoot, Integers, FiniteSets, SequencesExt

CONSTANTS
    BillTags,       \* tags a caller may add or remove
    MaxBillEvents   \* bound on the length of the stream

ASSUME MaxBillEventsAssumption == MaxBillEvents \in Nat \ {0}

VARIABLES
    billStream,  \* events of the bill in the event store
    billing      \* the instance a command holds

billingVars == <<billStream, billing>>

BillingStatus == {"pending", "paid", "failed", "refunded", "cancelled"}
BillingType == {"subscription", "usage", "one_time"}
Amounts == {"low", "middle", "high"}   \* below 100, from 1000 on, in between
Undefined == "undefined"

Tags == BillTags \cup {"high-value", "low-value", "paid"}
Categories == {"subscription", "one-time", Undefined}

BillingEvent ==
    [type : {"BillingCreated"}, amount : Amounts, billingType : BillingType]
    \cup [type : {"BillingFailed"}, retryCount : 1 .. MaxBillEvents]
    \cup [type : {"BillingRefunded"}, refundAmount : Amounts]
    \cup [type : {"BillingPaid", "BillingCancelled"}]

\* What the events are to preserve, and the analytics data, which they do not.
Bill ==
    [amount : Amounts, billingType : BillingType, status : BillingStatus,
     retryCount : 0 .. MaxBillEvents, refundAmount : Amounts \cup {Undefined}]
Analytics ==
    [tags : SUBSET Tags, category : Categories,
     statusDimension : BillingStatus \cup {Undefined},
     qualityScore : -1 .. 100, includeInAnalytics : BOOLEAN]

NoBill ==
    [amount |-> "low", billingType |-> "usage", status |-> "pending", retryCount |-> 0,
     refundAmount |-> Undefined]
NoAnalytics ==
    [tags |-> {}, category |-> Undefined, statusDimension |-> Undefined,
     qualityScore |-> -1, includeInAnalytics |-> TRUE]
NoBilling == [live |-> FALSE, bill |-> NoBill, analytics |-> NoAnalytics, root |-> Root]

BillingAggregateTypeOK ==
    /\ billStream \in Seq(BillingEvent)
    /\ billing \in [live : BOOLEAN, bill : Bill, analytics : Analytics,
                    root : RootType(BillingEvent, {}, {Never})]
    /\ RootConsistent(billing.root)

-----------------------------------------------------------------------------
(* Analytics data (AnalyzableAggregateRoot). *)

AddTag(a, tag) == [a EXCEPT !.tags = @ \cup {tag}]
HasTag(a, tag) == tag \in a.tags
RemoveTag(a, tag) == IF HasTag(a, tag) THEN [a EXCEPT !.tags = @ \ {tag}] ELSE a
SetTags(a, tags) == [a EXCEPT !.tags = tags]
ClearTags(a) == [a EXCEPT !.tags = {}]
SetCategory(a, category) == [a EXCEPT !.category = category]
ClearCategory(a) == [a EXCEPT !.category = Undefined]
SetStatusDimension(a, status) == [a EXCEPT !.statusDimension = status]
RemoveStatusDimension(a) == [a EXCEPT !.statusDimension = Undefined]
ClearAnalyticsDimensions(a) == [a EXCEPT !.statusDimension = Undefined]
SetQualityScore(a, score) == [a EXCEPT !.qualityScore = score]
SetIncludeInAnalytics(a, include) == [a EXCEPT !.includeInAnalytics = include]

InitialAnalytics(amount, billingType) ==
    [SetStatusDimension(NoAnalytics, "pending") EXCEPT
        !.category = CASE billingType = "subscription" -> "subscription"
                       [] billingType = "one_time" -> "one-time"
                       [] OTHER -> Undefined,
        !.tags = CASE amount = "high" -> {"high-value"}
                   [] amount = "low" -> {"low-value"}
                   [] OTHER -> {}]

-----------------------------------------------------------------------------
(* Rebuilding. *)

\* Faulty form: the refund's amount is not applied.
ApplyBillingNoAmount(b, e) ==
    CASE e.type = "BillingCreated" -> [b EXCEPT !.status = "pending"]
      [] e.type = "BillingPaid" -> [b EXCEPT !.status = "paid"]
      [] e.type = "BillingFailed" -> [b EXCEPT !.status = "failed", !.retryCount = e.retryCount]
      [] e.type = "BillingRefunded" -> [b EXCEPT !.status = "refunded"]
      [] e.type = "BillingCancelled" -> [b EXCEPT !.status = "cancelled"]

ApplyBilling(b, e) ==
    CASE e.type = "BillingCreated" -> [b EXCEPT !.status = "pending"]
      [] e.type = "BillingPaid" -> [b EXCEPT !.status = "paid"]
      [] e.type = "BillingFailed" -> [b EXCEPT !.status = "failed", !.retryCount = e.retryCount]
      [] e.type = "BillingRefunded" ->
            [b EXCEPT !.status = "refunded", !.refundAmount = e.refundAmount]
      [] e.type = "BillingCancelled" -> [b EXCEPT !.status = "cancelled"]

\* What the creating event says, and the others applied to it.
RehydratedBill(events) ==
    LET created == events[SelectInSeq(events, LAMBDA e : e.type = "BillingCreated")]
    IN  FoldLeft(ApplyBilling,
                 [NoBill EXCEPT !.amount = created.amount, !.billingType = created.billingType],
                 events)

\* Tags, category and the dimension of the status are not rebuilt.
RehydrateBilling(events) ==
    [live |-> TRUE, bill |-> RehydratedBill(events), analytics |-> NoAnalytics,
     root |-> ResetEventStateAfterRehydrate(Root, Len(events))]

-----------------------------------------------------------------------------
(* Methods. *)

BillingAggregateInit ==
    /\ billStream = <<>>
    /\ billing = NoBilling

CreateBill(amount, billingType) ==
    /\ ~billing.live
    /\ billStream = <<>>
    /\ billing' =
        [live |-> TRUE,
         bill |-> [NoBill EXCEPT !.amount = amount, !.billingType = billingType],
         analytics |-> InitialAnalytics(amount, billingType),
         root |-> AddDomainEvent(Root, [type |-> "BillingCreated", amount |-> amount,
                                        billingType |-> billingType])]
    /\ UNCHANGED billStream

Becomes(bill, analytics, event) ==
    /\ billing.root.version < MaxBillEvents
    /\ billing' = [billing EXCEPT !.bill = bill, !.analytics = analytics,
                                  !.root = AddDomainEvent(@, event)]
    /\ UNCHANGED billStream

CanBePaid(b) == b.status = "pending"
CanBeRefunded(b) == b.status = "paid"
CanBeCancelled(b) == b.status = "pending"
IsFinalStatus(b) == b.status \in {"paid", "refunded", "cancelled"}

PayBill ==
    LET b == billing.bill IN
    /\ billing.live
    /\ CanBePaid(b)
    /\ Becomes([b EXCEPT !.status = "paid"],
               AddTag(SetStatusDimension(billing.analytics, "paid"), "paid"),
               [type |-> "BillingPaid"])

\* The status dimension is left as it was, here and below.
FailBill ==
    LET b == billing.bill IN
    /\ billing.live
    /\ CanBePaid(b)
    /\ Becomes([b EXCEPT !.status = "failed", !.retryCount = @ + 1], billing.analytics,
               [type |-> "BillingFailed", retryCount |-> b.retryCount + 1])

RefundBill ==
    LET b == billing.bill IN
    /\ billing.live
    /\ CanBeRefunded(b)
    /\ Becomes([b EXCEPT !.status = "refunded", !.refundAmount = b.amount], billing.analytics,
               [type |-> "BillingRefunded", refundAmount |-> b.amount])

CancelBill ==
    LET b == billing.bill IN
    /\ billing.live
    /\ CanBeCancelled(b)
    /\ Becomes([b EXCEPT !.status = "cancelled"], billing.analytics,
               [type |-> "BillingCancelled"])

\* The public methods of the analytics extension; a score beyond 0 to 100 throws.
Annotate ==
    /\ billing.live
    /\ \E a \in {AddTag(billing.analytics, tag) : tag \in BillTags}
                \cup {RemoveTag(billing.analytics, tag) : tag \in Tags}
                \cup {SetTags(billing.analytics, BillTags),
                      ClearTags(billing.analytics),
                      SetCategory(billing.analytics, "one-time"),
                      ClearCategory(billing.analytics),
                      RemoveStatusDimension(billing.analytics),
                      ClearAnalyticsDimensions(billing.analytics),
                      SetQualityScore(billing.analytics, 100),
                      SetIncludeInAnalytics(billing.analytics, FALSE)} :
            billing' = [billing EXCEPT !.analytics = a]
    /\ UNCHANGED billStream

SaveBill ==
    /\ billing.root.buffer # <<>>
    /\ ExpectedVersion(billing.root) = Len(billStream)
    /\ billStream' = billStream \o billing.root.buffer
    /\ billing' = [billing EXCEPT !.root = CommitUncommittedEvents(@)]

LeaveBill ==
    /\ billing.live
    /\ billing' = NoBilling
    /\ UNCHANGED billStream

FindBill ==
    /\ ~billing.live
    /\ billStream # <<>>
    /\ billing' = RehydrateBilling(billStream)
    /\ UNCHANGED billStream

BillingAggregateNext ==
    \/ \E amount \in Amounts, t \in BillingType : CreateBill(amount, t)
    \/ PayBill
    \/ FailBill
    \/ RefundBill
    \/ CancelBill
    \/ Annotate
    \/ SaveBill
    \/ LeaveBill
    \/ FindBill

BillingAggregateSpec == BillingAggregateInit /\ [][BillingAggregateNext]_billingVars

-----------------------------------------------------------------------------
\* A bill survives a reload: amount, type, status, retries and refund of an
\* instance are those rehydrate would rebuild from the events it was built
\* from and those it has recorded since; a reload loses analytics data only.
\* What is final takes no event but a refund of what was paid.
BillSurvivesReload ==
    LET told == SubSeq(billStream, 1, billing.root.committed) \o billing.root.buffer IN
    billing.live =>
        /\ billing.bill = RehydratedBill(told)
        /\ \A i \in 2 .. Len(told) :
             IsFinalStatus(RehydratedBill(SubSeq(told, 1, i - 1))) =>
                 told[i].type = "BillingRefunded"
=============================================================================

----------------------------- MODULE Projection -----------------------------
(***************************************************************************)
(* ProjectionOrchestrator with one ProjectionBase: the rebuild from the    *)
(* event store, page by page, the live dispatch with its two levels of     *)
(* retries, and the life cycle.  The projection is TenantAnalytics, whose  *)
(* read model counts members: handling an event is one increment and one   *)
(* further update, each a statement of its own.                            *)
(***************************************************************************)
EXTENDS Integers, FiniteSets

CONSTANTS
    Events,            \* MemberAdded events, numbered by occurred_at
    Starters,          \* calls of startRealtimeSync
    Rebuilders,        \* calls of rebuildProjection
    AutoRebuild,       \* autoRebuildOnStart
    AppendInOrder,     \* do events commit in the order of their occurred_at?
    Batch,             \* batchSize of the event stream
    MaxRetries,        \* maxRetries of the projection
    DispatchRetries,   \* dispatchRetryCount of the orchestrator
    MaxFailures,       \* bound on failing statements
    Operated           \* do operators pause, resume and stop things?

ASSUME EventsAssumption == Events \subseteq Nat
ASSUME RetriesAssumption ==
    {Batch, MaxRetries, DispatchRetries} \subseteq Nat \ {0}
ASSUME FailuresAssumption == MaxFailures \in Nat

VARIABLES
    store,         \* events that have been committed
    model,         \* how often each event is counted in the read model
    status,        \* _status of the projection
    errors,        \* _errorCount
    call,          \* where each call is
    known,         \* events in the store when a call's rebuild started
    offset,        \* of its event stream
    page,          \* rows of the page it has not handled yet
    isRunning,     \* _isRunning of the orchestrator
    unsubscribe,   \* subscription that _unsubscribe ends, or Nobody
    subscribed,    \* calls whose subscription is in place
    live,          \* where the dispatch of an event by a subscription is
    attempts,      \* its failed calls of handleEvent
    failures       \* failed statements so far

streamVars == <<known, offset, page>>
syncVars == <<isRunning, unsubscribe, subscribed>>
liveVars == <<live, attempts>>
vars == <<store, model, status, errors, call, streamVars, syncVars, liveVars, failures>>

Calls == Starters \cup Rebuilders
Nobody == "nobody"

Statuses == {"NOT_INITIALIZED", "INITIALIZING", "RUNNING", "PAUSED", "STOPPED", "ERROR"}

TypeOK ==
    /\ store \in SUBSET Events
    /\ model \in [Events -> Nat]
    /\ status \in Statuses
    /\ errors \in Nat
    /\ call \in [Calls -> {"idle", "clear", "fetch", "rows", "touch", "subscribe", "done"}]
    /\ known \in [Calls -> SUBSET Events]
    /\ offset \in [Calls -> 0 .. Cardinality(store)]
    /\ page \in [Calls -> SUBSET Events]
    /\ isRunning \in BOOLEAN
    /\ unsubscribe \in Starters \cup {Nobody}
    /\ subscribed \in SUBSET Starters
    /\ live \in [Events -> [Starters -> {"none", "called", "handling", "touch", "retry",
                                          "done", "skipped", "abandoned"}]]
    /\ attempts \in [Events -> [Starters -> 0 .. MaxRetries * DispatchRetries]]
    /\ failures \in 0 .. MaxFailures

Init ==
    /\ store = {}
    /\ model = [e \in Events |-> 0]
    /\ status = "NOT_INITIALIZED"
    /\ errors = 0
    /\ call = [c \in Calls |-> "idle"]
    /\ known = [c \in Calls |-> {}]
    /\ offset = [c \in Calls |-> 0]
    /\ page = [c \in Calls |-> {}]
    /\ isRunning = FALSE
    /\ unsubscribe = Nobody
    /\ subscribed = {}
    /\ live = [e \in Events |-> [c \in Starters |-> "none"]]
    /\ attempts = [e \in Events |-> [c \in Starters |-> 0]]
    /\ failures = 0

Failure == failures < MaxFailures /\ failures' = failures + 1

\* An event commits; the store calls every subscriber.
AppendEvent(e) ==
    /\ e \notin store
    /\ AppendInOrder => \A k \in store : k < e
    /\ store' = store \cup {e}
    /\ live' = [live EXCEPT ![e] = [c \in Starters |->
                  IF c \in subscribed THEN "called" ELSE @[c]]]
    /\ UNCHANGED <<model, status, errors, call, streamVars, syncVars, attempts, failures>>

-----------------------------------------------------------------------------
(* Calls of the orchestrator. *)

At(c, pc) == call[c] = pc
Goto(c, pc) == call' = [call EXCEPT ![c] = pc]

\* The part of rebuild() before its first await.
BeginRebuild(c) ==
    /\ Goto(c, "clear")
    /\ known' = [known EXCEPT ![c] = store]
    /\ status' = "INITIALIZING"
    /\ errors' = 0
    /\ UNCHANGED <<offset, page>>

Rebuild(c) ==
    /\ c \in Rebuilders
    /\ At(c, "idle")
    /\ BeginRebuild(c)
    /\ UNCHANGED <<store, model, syncVars, liveVars, failures>>

\* eventStore.subscribe; _isRunning is set only now.
Subscribe(c) ==
    /\ subscribed' = subscribed \cup {c}
    /\ unsubscribe' = c
    /\ isRunning' = TRUE

\* startRealtimeSync returns at once when it is already running.
StartSync(c) ==
    /\ c \in Starters
    /\ At(c, "idle")
    /\ \/ isRunning /\ Goto(c, "done") /\ UNCHANGED <<syncVars, status, errors, streamVars>>
       \/ ~isRunning /\ AutoRebuild /\ BeginRebuild(c) /\ UNCHANGED syncVars
       \/ ~isRunning /\ ~AutoRebuild /\ Goto(c, "done") /\ Subscribe(c)
                     /\ UNCHANGED <<status, errors, streamVars>>
    /\ UNCHANGED <<store, model, liveVars, failures>>

SubscribeAfterRebuild(c) ==
    /\ At(c, "subscribe")
    /\ Goto(c, "done")
    /\ Subscribe(c)
    /\ UNCHANGED <<store, model, status, errors, streamVars, liveVars, failures>>

StopSync ==
    /\ Operated
    /\ isRunning
    /\ isRunning' = FALSE
    /\ subscribed' = subscribed \ {unsubscribe}
    /\ unsubscribe' = Nobody
    /\ UNCHANGED <<store, model, status, errors, call, streamVars, liveVars, failures>>

\* pause, resume and stop of the projection.
SetStatus(from, to) ==
    /\ Operated
    /\ status \in from
    /\ status' = to
    /\ UNCHANGED <<store, model, errors, call, streamVars, syncVars, liveVars, failures>>

Pause == SetStatus(Statuses, "PAUSED")
Resume == SetStatus({"PAUSED"}, "RUNNING")
Stop == SetStatus(Statuses, "STOPPED")

-----------------------------------------------------------------------------
(* The rebuild: clear the read model, then page through the event store. *)

\* order by occurred_at limit Batch offset ...
Position(e) == Cardinality({ k \in store : k < e })
Page(from) == { e \in store : Position(e) \in from .. from + Batch - 1 }

Clear(c) ==
    /\ At(c, "clear")
    /\ Goto(c, "fetch")
    /\ model' = [e \in Events |-> 0]
    /\ UNCHANGED <<store, status, errors, streamVars, syncVars, liveVars, failures>>

\* rebuildAll goes on with startRealtimeSync whether its rebuilds succeed or not.
AfterRebuild(c) == IF c \in Starters THEN "subscribe" ELSE "done"

\* Faulty forms: the offset is advanced twice; the next page starts with the
\* last row of this one.
FetchLate(c) ==
    LET rows == Page(offset[c]) IN
    /\ At(c, "fetch")
    /\ rows # {}
    /\ Goto(c, "rows")
    /\ page' = [page EXCEPT ![c] = rows]
    /\ offset' = [offset EXCEPT ![c] = @ + 2 * Batch]
    /\ UNCHANGED <<store, model, status, errors, known, syncVars, liveVars, failures>>

FetchOverlapping(c) ==
    LET rows == Page(offset[c]) IN
    /\ At(c, "fetch")
    /\ rows # {}
    /\ Goto(c, "rows")
    /\ page' = [page EXCEPT ![c] = rows]
    /\ offset' = [offset EXCEPT ![c] = @ + Cardinality(rows) - 1]
    /\ UNCHANGED <<store, model, status, errors, known, syncVars, liveVars, failures>>

Fetch(c) ==
    LET rows == Page(offset[c]) IN
    /\ At(c, "fetch")
    /\ rows # {}
    /\ Goto(c, "rows")
    /\ page' = [page EXCEPT ![c] = rows]
    /\ offset' = [offset EXCEPT ![c] = @ + Cardinality(rows)]
    /\ UNCHANGED <<store, model, status, errors, known, syncVars, liveVars, failures>>

\* The next row's event is counted ...
CountRow(c) ==
    /\ At(c, "rows")
    /\ \E e \in page[c] :
         /\ \A k \in page[c] : e <= k
         /\ model' = [model EXCEPT ![e] = @ + 1]
         /\ page' = [page EXCEPT ![c] = @ \ {e}]
    /\ Goto(c, "touch")
    /\ UNCHANGED <<store, status, errors, known, offset, syncVars, liveVars, failures>>

\* ... and the rest of it done; a page is followed by the next one if it was
\* full.
TouchRow(c) ==
    /\ At(c, "touch")
    /\ Goto(c, IF page[c] = {} /\ offset[c] % Batch = 0 THEN "fetch" ELSE "rows")
    /\ UNCHANGED <<store, model, status, errors, streamVars, syncVars, liveVars, failures>>

FinishRebuild(c) ==
    /\ \/ At(c, "fetch") /\ Page(offset[c]) = {}
       \/ At(c, "rows") /\ page[c] = {}
    /\ Goto(c, AfterRebuild(c))
    /\ status' = "RUNNING"
    /\ UNCHANGED <<store, model, errors, streamVars, syncVars, liveVars, failures>>

RebuildFails(c) ==
    /\ call[c] \in {"clear", "fetch", "rows", "touch"}
    /\ Failure
    /\ Goto(c, AfterRebuild(c))
    /\ status' = "ERROR"
    /\ UNCHANGED <<store, model, errors, streamVars, syncVars, liveVars>>

-----------------------------------------------------------------------------
(* Live dispatch of an event by a subscription. *)

LiveAt(e, c, pc) == live[e][c] = pc
LiveGoto(e, c, pc) == live' = [live EXCEPT ![e][c] = pc]

\* handle() drops the event when the projection is paused or stopped.
\* Faulty form: the dispatch does not come back after its delay.
HandleOnce(e, c) ==
    /\ live[e][c] = "called"
    /\ \/ status \in {"PAUSED", "STOPPED"} /\ LiveGoto(e, c, "skipped") /\ UNCHANGED status
       \/ status \notin {"PAUSED", "STOPPED"} /\ LiveGoto(e, c, "handling") /\ status' = "RUNNING"
    /\ UNCHANGED <<store, model, errors, call, streamVars, syncVars, attempts, failures>>

Handle(e, c) ==
    /\ live[e][c] \in {"called", "retry"}
    /\ \/ status \in {"PAUSED", "STOPPED"} /\ LiveGoto(e, c, "skipped") /\ UNCHANGED status
       \/ status \notin {"PAUSED", "STOPPED"} /\ LiveGoto(e, c, "handling") /\ status' = "RUNNING"
    /\ UNCHANGED <<store, model, errors, call, streamVars, syncVars, attempts, failures>>

Count(e, c) ==
    /\ LiveAt(e, c, "handling")
    /\ LiveGoto(e, c, "touch")
    /\ model' = [model EXCEPT ![e] = @ + 1]
    /\ UNCHANGED <<store, status, errors, call, streamVars, syncVars, attempts, failures>>

Touch(e, c) ==
    /\ LiveAt(e, c, "touch")
    /\ LiveGoto(e, c, "done")
    /\ UNCHANGED <<store, model, status, errors, call, streamVars, syncVars, attempts, failures>>

\* Faulty form: retries are not counted.
FailUncounted(e, c) ==
    /\ live[e][c] \in {"handling", "touch"}
    /\ LiveGoto(e, c, "handling")
    /\ UNCHANGED <<store, model, status, errors, call, streamVars, syncVars, attempts, failures>>

\* handleEvent throws: handleWithRetry tries again MaxRetries times in all, then
\* handle() counts an error, and the dispatch calls it DispatchRetries times in
\* all, then gives the event up.
Fail(e, c) ==
    LET n == attempts[e][c] + 1
        exhausted == n % MaxRetries = 0
    IN
    /\ live[e][c] \in {"handling", "touch"}
    /\ Failure
    /\ attempts' = [attempts EXCEPT ![e][c] = n]
    /\ errors' = IF exhausted THEN errors + 1 ELSE errors
    /\ status' = IF exhausted /\ errors + 1 >= MaxRetries * 3 THEN "ERROR" ELSE status
    /\ LiveGoto(e, c, IF ~exhausted THEN "handling"
                      ELSE IF n < MaxRetries * DispatchRetries THEN "retry" ELSE "abandoned")
    /\ UNCHANGED <<store, model, call, streamVars, syncVars>>

LiveStep(e, c) == Handle(e, c) \/ Count(e, c) \/ Touch(e, c)

-----------------------------------------------------------------------------
CallStep(c) ==
    \/ SubscribeAfterRebuild(c)
    \/ Clear(c)
    \/ Fetch(c)
    \/ CountRow(c)
    \/ TouchRow(c)
    \/ FinishRebuild(c)

Next ==
    \/ \E e \in Events : AppendEvent(e)
    \/ StopSync \/ Pause \/ Resume \/ Stop
    \/ \E c \in Calls : StartSync(c) \/ Rebuild(c) \/ CallStep(c) \/ RebuildFails(c)
    \/ \E e \in Events, c \in Starters : LiveStep(e, c) \/ Fail(e, c)

Spec == Init /\ [][Next]_vars

\* Awaited statements and timers return.
FairSpec ==
    /\ Spec
    /\ \A c \in Calls : WF_vars(CallStep(c))
    /\ \A e \in Events, c \in Starters : WF_vars(LiveStep(e, c))

-----------------------------------------------------------------------------
(* What the code must guarantee. *)

\* A rebuild replays the store (projection.base.ts:211, ARCHITECTURE 6.5.4):
\* when it has ended without a failure, every event it started with is counted
\* exactly once, although the store grew while it was paging through it.
RebuiltExactly ==
    \A c \in Calls : call[c] \in {"subscribe", "done"} /\ failures = 0 =>
        \A e \in known[c] : model[e] = 1

\* No event is counted twice, by the rebuild and the live dispatch together.
NeverTwice == \A e \in Events : model[e] <= 1

\* What an event can have been counted for: a rebuild that has read it, each attempt
\* of a dispatch that has failed, perhaps after its increment, and one that has not.
HasRead(c, e) == e \in store /\ Position(e) < offset[c] /\ e \notin page[c]
Attempts(c, e) == attempts[e][c] + IF live[e][c] \in {"touch", "done"} THEN 1 ELSE 0

Reasons(e) == {<<c, 0>> : c \in {d \in Calls : HasRead(d, e)}}
                  \cup UNION {{<<c, n>> : n \in 1 .. Attempts(c, e)} : c \in Starters}

\* Whatever rebuilds, subscriptions, operators and failures come together: each time an
\* event is counted has a reason of its own.
DuplicatesFromFailures == \A e \in Events : model[e] <= Cardinality(Reasons(e))

\* Every dispatch ends, whatever fails.
DispatchEnds ==
    \A e \in Events, c \in Starters :
        live[e][c] = "called" ~> live[e][c] \in {"done", "skipped", "abandoned"}

=============================================================================

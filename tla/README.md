# A formal model of the Oksai platform's core

TLA+ modules, TLC configurations and TLAPS proofs about the event-sourced core of
the Oksai SaaS platform: how commands write events and announce them, how the
announcements reach subscribers, how projections follow the event store, and what
the aggregates and read models built on this promise. Paths below are relative to
the repository root; `S` stands for `libs/shared`, `D` for `libs/domains`.

Contents: 1 the system, 2 the modules and the code, 3 what the runs check, 4 bounds,
5 fairness, 6 proofs, 7 findings, 8 what is not modelled, 9 what is left.

## 1. The system

A modular monolith in NestJS. One process, or several identical ones, share a
PostgreSQL database. Node runs one callback at a time, so code between two `await`s
is atomic; everything that waits for a statement, a timer or a handler interleaves.

| Part | State it keeps | Operations | Talks to |
|---|---|---|---|
| Event store (`S/event-store/.../pg-event-store.ts`) | table `event_store_events`, unique on (tenant, type, id, version) | `appendToStream` with an expected version, `loadStream` | the unit of work; repositories call it |
| Enhanced store (`pg-event-store-enhanced.ts`) | the same table, `event_store_snapshots` | filtered streaming in batches, snapshots | projections |
| Unit of work (`S/database/.../transaction`) | a database transaction, its entity manager in async-local storage | `transactional`; what does not go through that entity manager commits by itself | command handlers, subscribers |
| Aggregates (`aggregate-root.ts`, `D/*/domain/aggregates`) | instance state, buffer of uncommitted events, committed version | factories, business methods, `rehydrate`/`apply` | repositories |
| Command handlers (`create-tenant`, `register-user`, `create-billing`) | none | decide, save, append to the outbox | repository, outbox, unit of work |
| Outbox, inbox (`S/messaging-postgres`, in-memory twins in `S/messaging`) | `messaging_outbox` (status, attempts, next_attempt_at), `messaging_inbox` (unique message id) | append, listPending, markPublished, markFailed; isProcessed, markProcessed | handlers, publisher, subscribers |
| Outbox publisher (`outbox-publisher.service.ts`) | a timer; the batch of each tick | `tickOnce`, backoff | outbox, bus |
| Event bus (`in-memory-event-bus.ts`) | handlers by event type | publish to all handlers in parallel, subscribe | publisher, subscribers |
| Subscriber base (`S/eda/.../base-integration-event-subscriber.ts`) | none | check the inbox, open a unit of work, check again, handle, mark | bus, inbox, read models |
| Read models (tenant, identity roles, billing) | `tenant_read_model`, `identity_role_assignments`, `billing_read_model` | one handler per event type | subscriber base |
| Projections and orchestrator (`S/event-store/.../projections`) | status, error count, subscription, `_isRunning`; a read model | rebuild, handle with retries, pause, resume, stop, start and stop of the synchronisation | enhanced store |
| Aggregate metadata (`S/aggregate-metadata`) | `aggregate_metadata` | project, soft delete, restore; query by pages, lists | tenant repository, reports |
| Analytics (`S/analytics`) | `analytics_reports`, registry of templates | reports over the metadata, quality scores | metadata table |
| Serializers (`S/event-store/.../serializers`) | registry of decoders and upgraders | serialize, deserialize, upgrade | enhanced store |
| Request context, auth, authorization (`S/context`, `S/auth`, `S/authorization`) | a store per request; roles | middleware, guards, interceptor, abilities | controllers, handlers, outbox |
| CQRS buses and pipeline (`S/cqrs`) | handlers by type; registries | register, execute through the pipes | controllers |
| Plugins, config, logger, i18n, exceptions, redis, embedding clients, kernel | none, or external services | life-cycle hooks, I/O, formatting | all |

The path of a change: a request fills its context store from headers and session and
passes the guards; a controller dispatches a command through the pipes; the handler creates or loads
an aggregate, calls it, and saves its events and then appends one integration event per domain
event to the outbox, in a unit of work that neither of the two takes part in: event
store, outbox and inbox run `em.getConnection().execute(sql, params)`, whose statements, with
the locked ORM (6.1.1), commit one by one. The publisher polls the outbox,
puts each record on the bus and marks it published; the bus calls all handlers; each
subscriber guards its handler with the inbox. Independently of this, projections are
rebuilt from the event store and fed by a subscription to it.

What is hard here, and what makes each part correct:

* *Commands race.* The version check and the inserts are separate statements, so it
  takes the unique index as well to keep a stream gapless. Correct: gapless append-only
  streams, no lost update,
  conflicts reported only when somebody was first, no command waiting for ever.
* *Half of a command fails.* Its statements commit one by one, so what it has written
  stays. Correct, in view of that: nothing is announced before all of it is stored, and a
  command that succeeds has announced all of it. (That no event stays unannounced is the
  documents' promise, and finding 1.)
* *Ticks overlap, processes die, updates fail.* `setInterval` does not wait, and every
  step from publish to mark can be the last; the inbox mark commits by itself, before the
  unit of work it is made in. Correct: effects are repeated, and lost, no more often than
  overlaps and faults explain; an aggregate's events are applied in order; everything is
  published in the end.
* *Errors are swallowed.* The bus never rejects, which decides what "retry" can mean.
* *Read models are told late, twice, or not at all.* Correct: they show only states the
  aggregate has had, do not go back, and catch up.
* *A projection is rebuilt while the store grows*, events are dispatched, retried, or
  dropped because somebody paused it. Correct: every event counted exactly once, or
  at least no more often than failures explain.
* *A request's context is written and read at different times:* by the middleware, the
  session, a handler, guards and the outbox. Correct: a message, a role and an answer
  belong to the tenant and the user they were made for, whatever runs beside.
* *Workers take an aggregate's text or data, work, and report back* while it changes.
  Correct: SYNCED means that the latest is there, but for what changed on the way.
* *Readers page through tables and stores that grow*, and stored events have to be read
  back through filters, snapshots and a codec. Correct: all of it, once, as it was.
* *An aggregate lives twice:* the instance that decides and the one rebuilt from its
  events. Correct: they agree, and the events tell a legal life whichever instances
  of whatever age have written them.

The list of concrete hazards, each at its line and with the properties that would
notice it, is `hazards` in `PROJECT.json`.

## 2. The modules and the code

`PROJECT.json` maps each definition to the lines it stands for.

**`EventLog`** is the abstract write side: a log per aggregate, the announcements, what each
command has read, and how many entries it has written. `AppendNext` adds the next event of a
command only if the log is exactly what the command has read and written itself, and only
before its first announcement; `AnnounceNext` announces the entries in their order. A command
may stop anywhere. It is weaker than the atomic batch the documents speak of, since the
code has no such step, and strong enough for gapless streams without lost updates.

**`WriteSide`** is the code's: `rows` and `outbox` are the rows of the two tables,
`described` the streams with a metadata row, and per command `pc`, the `target` stream,
`base` (`getExpectedVersion()`), `events` (length of the buffer), `version` (the loop
variable of `appendToStream`) and `sent`. Actions:

| Action | Code |
|---|---|
| `Create`, `Load` | the handler's factory call; `findById`, which counts the events it applies |
| `CheckVersion` | `select max(version)` and its comparison |
| `Insert`, `InsertRefused` | one round of the insert loop, committed at once; refused by the unique index |
| `Stored` | `commitUncommittedEvents`, and the upsert of a tenant's metadata, which runs on the global entity manager |
| `AppendOutbox` | `outbox.append` of one envelope, committed at once |
| `Commit`, `Abort` | `DatabaseUnitOfWork.transactional` returns, or throws (failed statement, dead process): neither changes a row, since no statement was part of its transaction |

**`Delivery`** is the transport: the outbox columns `status`, `attempts` and `due`
(has `next_attempt_at` passed), per tick its `batch`, the `snapshot` of attempts taken
with the list, the record it is publishing (`current`) and the phase of each
subscriber's handler; `inbox`, and `applied`, which counts the effects a message has
had at each subscriber. Messages are numbers in the order `listPending` returns them.
Actions: `AppendMessage`, `StartTick` (listPending), `Publish`, `MarkPublished`,
`MarkFailed`, `BackoffElapses`, `Crash`, and of a handler `FastCheck`, `Recheck`,
`Write`, `Mark`, `Commit`, `HandlerFails`. Time is abstracted to the bit `due`.
`Mark` commits at once. Whether `Write` does depends on the subscriber's repository: the
subscribers in `InTransaction` go through the entity manager of the unit of work (the role
subscriber's injected repository), and their effect is counted at `Commit`; the others, which
work on a fork of the entity manager or with statements of the connection (billing, tenant),
have their effect at `Write`, before the mark. A crash in between repeats the latter's effect
and loses the former's.

**`AtLeastOnceQueue`** is what it promises a subscriber of an aggregate's events: each is
announced; taken, once its predecessors have been, and perhaps again before the next one is; and
finished after it was taken. Where one tick at a time serves one subscriber that does not
throw and writes beside its unit of work, `Delivery` implements it (`ImplementsQueue`): a
message is taken when the handler writes, finished when it is marked published.

**`ReadModel`** adds a history variable `disturbed` that remembers overlapping ticks and
swallowed errors. **`BillingReadModel`** and **`RoleReadModel`** extend it, each with an
upstream that produces the messages and with the real handler in place of `Write`:
the billing handler reads its row on a fork of the entity manager and flushes it on
its own; the role handler's inserts join the unit of work, and so become visible only after
the mark. A message leads to an assignment id, `roleId`: TLC chooses among `RoleIds`, in which
ids may collide, as hashes of 32 bits may, or be `Nobody`, for a message without user or tenant
and for a bootstrap that is switched off; such a message is marked processed all the same.
`lost` remembers whose process died between mark and commit. The messages are several
people's; that their commands commit in the order of their events is `OneAggregate` here.

**`Projection`** is one projection under the orchestrator. Events increment a counter and
then update a timestamp, as `TenantAnalyticsProjection` does for a new member; `model`
counts how often each event has been counted. A call (`Starters` call
`startRealtimeSync`, `Rebuilders` call `rebuildProjection`) goes through `clear`,
`fetch`, `rows`, `touch`; a live dispatch of an event through `called`, `handling`,
`touch` and, after `MaxRetries` failures, `retry` or `abandoned`.

**`UserAggregate`** is the user with its repository: a stream, and per session an instance
with its state, version and recorded events. `Apply` is what `apply()` makes of an
event; `Save` is one step, since `WriteSide` shows that appends to a stream serialize (that a
save which fails may leave the first events of its batch is shown there as well).

**`AggregateRoot`** has the audit trail, soft deletion, event buffer and versions every
aggregate inherits, as operators on a record. On it stand **`TenantAggregate`** (names,
limit and members, most of which live in the instance only; the rule of a name is
awaited between check and assignment), **`BillingAggregate`** (payments, retries, partial
refunds, analytics data, reload), **`DocumentAggregate`** (text and status, with a worker
that embeds the text step by step), **`SyncableAggregate`** (a datum that is sent to an
external system, with the audit trail) and **`TenantMembership`**.

**`CommandPipeline`** is the registration of handlers at start-up, on the bus of commands and
on that of queries, each with its own registry, and, per command, the
composed pipes down to the handler and up again: `EnterPipe`, `RunHandler`, `LeavePipe`,
`CollectorThrows`, `Return`, with each optional pipe switched on or off.

**`RequestContext`** composes what touches the context of a request: `http` is what each
request brings (route, tenant named in the header, session) and how far it has come,
`cls` its store, `sent` the outbox, `tenantRows` and `roles` what subscribers have made of
it. `Setup` is the middleware, `TenantRequiredGuard`, `AuthSessionGuard`, `PoliciesGuard` and
`AuthContextInterceptor` stand in the order Nest calls them, `ExecuteCreateTenant` moves the
request to the new tenant, `AppendWithContext` is the outbox. The id of a new tenant is
fresh, so it is named by the request that creates it.

**`AggregateMetadata`** is the metadata table with the projector, and a reader that counts
and selects in two statements, page by page. Since the upsert is refused (its keys are
bound one place off), rows come from outside (`ImportRow`); `WriteSide` takes the upsert as
successful, as the repository's tests mock it. **`AnalyticsReports`** makes reports over
this table and saves them, one after the other; a configuration that is refused ends the
call, whose results so far are lost to the caller and stay saved. Averages are counted in such
parts of a point that they are integers; **`QualityScores`** holds the three scorers over an aggregate
whose metadata is filled in and grows old.

**`EventArchive`** is the enhanced store as a reader sees it, with filters, batches,
snapshots, the codec for nested data and the upgraders of old events. `AppendToStream` stores
what it is given, as the column keeps it (`Jsonb`: a date becomes text, a buffer an object);
whether the caller has encoded the data first is part of the input (`encoded`), and so is the
time, which events of different aggregates may share. `loadSnapshotAtVersion` gives
nothing where a snapshot is stored: the column is `jsonb`, the driver has parsed it, and
`JSON.parse` of the result throws. The data of an event
is a tree, written as a function from paths to nodes: what the serializer's recursion does
to a value inside a value is what the codec does at a longer path, without a recursive
operator. A batch is `nextBatch`, a round of the streaming loop `turn`, and the loop a
recursive function of the number of rounds.
**`TenantAnalytics`** is what `TenantAnalyticsProjection` writes, statement by statement, for
live events side by side and for a rebuild.

`MC*` modules instantiate these for TLC; `MCAggregates` and `MCReadModels` let TLC choose
one of several parts that do not touch each other. `*_proofs` hold the theorems. Operators
introduced as "Faulty form" are variants of the operator below them with a plausible
mistake; replacing the one by the other must make a run fail, which shows that the
property in question depends on that piece of code. Nothing else refers to them.

## 3. What the runs check

| Run | Instance | Shows |
|---|---|---|
| `writeside` | 3 commands, 2 streams, up to 2 events each, every statement for itself, failing anywhere, fair; 381 284 states | `GapFree`, `Serialized`, `OutboxFollowsStore`, `ConflictMeansOvertaken`, `EventuallySettled`; `ImplementsLog`: `WriteSide` refines `EventLog` |
| `writeside_split` | 2 commands, 1 stream | finding: an event nobody announces |
| `delivery_once` | 3 messages of one aggregate, 1 tick at a time, 1 subscriber that writes beside its unit of work, limit 2, 3 faults; 7 830 states | `BatchIsFresh`, `InOrder`; `ImplementsQueue`: `Delivery` refines `AtLeastOnceQueue` |
| `delivery_overlap` | 2 messages, 2 subscribers, one that writes in its unit of work and one beside it, 2 overlapping ticks, failing handlers, fair; 809 347 states | `RepeatsExplained`, `InboxAgreesWithEffects`, `AllPublished` |
| `delivery_starved` | 1 message, 2 subscribers, no fault | finding: a subscriber that never sees the event |
| `delivery_swallowed` | 1 message, a handler that throws once | finding: published and never retried |
| `projection_sync` | start-up rebuild, 5 events, batches of 2, one failure, operators | `RebuiltExactly`, `NeverTwice`; 408 768 states |
| `projection_live` | 1 event, 2 starts, 1 rebuild, retries 2 x 6, 12 failures, operators, fair | `DuplicatesFromFailures`, `DispatchEnds`; 439 698 states |
| `projection_paging` | 3 events in any order, batches of 1 | finding: OFFSET over a growing table reads a row twice |
| `aggregates` | one of eight: a user under 2 sessions, a tenant, a document, a bill, a syncable aggregate, a membership, 2 commands under every choice of pipes, 2 requests of 2 people; 2 081 866 states | `LegalLife`, `InstanceFollowsEvents`, `WithinLimit`, `EmbeddingIsCurrent`, `ReloadAgrees`, `SyncedIsSent`, `AuditConsistent`, `AuditTellsCaller`, `ContextKept` |
| `user_roles` | 2 roles, streams of 2 events | finding: granted roles do not survive a reload |
| `read_models` | one of seven: the bill's or the roles' read model over 3 messages, 2 ticks, 2 faults; 4 metadata rows under a paging reader; reports over them; the scores of one aggregate; 3 stored events, encoded or not, at times that may be equal; the analytics of 2 tenants; 1 734 402 states | `RowIsPast`, `RowMovesForward`, `RowCatchesUp`, `RolesAssigned`, `PagesComplete`, `ReportsTrue`, `ScoreMonotone`, `EventsReadBack`, `AnalyticsTrue` |

Each passing run checks a type invariant of its module besides, except where another
run of the module does; that of a combined module is the conjunction of its parts'.

Reading the results:

* `OutboxFollowsStore` is what the order of a handler's statements gives without a
  transaction around them. What it does not give, and the documents promise, is
  `NoUnannouncedEvents` (finding 1).
* `BatchIsFresh` is about one tick at a time; with overlapping ticks a batch may hold what
  another tick has published. What is left then is `RepeatsExplained` (an effect is repeated
  by ticks that were past the check together, or by faults), `InboxAgreesWithEffects` (what
  is marked in vain a fault explains), the theorem `PublishedProcessed`, and progress.
* `InOrder` holds although records are retried with a backoff, because the publisher
  marks a record failed only when the outbox update fails, after the handlers. It is about a
  subscriber that writes beside its unit of work and does not throw: a handler that throws
  breaks it, since its record is published all the same, and so does a crash between mark and
  commit for one that writes in its unit of work.
* The conditions on `disturbed` in `ReadModel` are there for overlap and swallowed errors;
  `RowIsPast` needs none. A crash is no such condition: `RowCatchesUp` and `RowMovesForward`
  hold through any, since the row is flushed before the mark. A role's row is
  committed after it: `RolesAssigned` says that such a crash, a message that leads to nobody,
  or an id another row has (`Passed`) costs this message its role and no other.
* `LegalLife` includes that nobody becomes an administrator through the aggregate, and
  `RolesAssigned` that the first user to sign up is the platform's. `ReloadAgrees` is three
  statements on three aggregates: a reloaded bill and membership are what they were, and
  a document's events tell its title and status.
* `EmbeddingIsCurrent` and `SyncedIsSent` leave out what was changed while the worker was
  busy: with such a change both are false of this code, since the status is set without
  a look at what became of the aggregate.
* `PagesComplete` is about a table nobody changes between the first page and the last,
  without equal creation times; `ReportsTrue` compares averages where all rows have scores,
  and speaks of reports that somebody has or that are saved, those of a call that failed
  included.
* `EventsReadBack` compares batches where no rows tie (`InStrictOrder`), and data where it was
  encoded or holds neither dates nor buffers, without markers of its own. Of snapshots it says
  that what is stored and the events after it are the whole stream; this code can
  store them, but not load them (finding 6).
* `ContextKept` says that tenants are told only to those who created them, that ownership
  follows the request that created the tenant, and that its message carries its own
  tenant, whatever tenant the request's header names.
* `NeverTwice` is about the start-up rebuild followed by live dispatch. A rebuild
  beside a live subscription may count an event twice, as may a retry after a partial
  failure, or a second subscription. `DuplicatesFromFailures` bounds all of these: each time
  an event is counted has a reason of its own (`Reasons`), which is a rebuild that has read
  it, an attempt at it that has failed, or a dispatch that has got past its increment.

## 4. Bounds

Every bound is a constant or a set in a `.cfg`.

* `Commands`, `Streams`, `MaxEvents`: a race needs two commands on a stream, a third
  and a second stream make conflicts after conflicts and unrelated progress happen; a
  batch of two is cut in the middle by failures. The safety results are also proved
  for all values.
* `Messages`, `Limit`: three messages and a limit of two cut a batch; a failed record
  is overtaken. Two ticks are enough for every pairwise overlap.
* `RoleIds`: three sign-ups or tenants whose ids all differ, two of which share one, and one of
  which leads to nobody.
* `FollowedFurther`, the one CONSTRAINT, in `read_models`: of role behaviours that overlapping
  ticks have disturbed only those without faults are followed further, as `RolesAssigned`
  says nothing of them; and upgraders are called while no event is stored, as
  they do not look at the store.
* `MaxFaults`: in `delivery_once` three, so that a record can fail, be retried, and crash
  once more; in the runs with two ticks one or two.
* `Events`, `Batch`: five events by two give full pages, a partial one and events
  that arrive meanwhile. `MaxRetries = 2`, `DispatchRetries = 6`, `MaxFailures = 12` let
  a dispatch fail as often as it can, and the error count reach the status ERROR
  (`maxRetries * 3`).
* `MaxDocumentEvents`, `MaxBillEvents`, `MaxMembershipEvents`, `MaxSyncVersion`, `MaxClock`: a
  publication, an edit and an archive around an embedding; a payment that fails, is
  retried and refunded; a change while one is sent, a deletion and a restoration. The
  theorems on these aggregates hold for all values.
* `Limits` are counted in halves so that one of them is no whole number; 20001 is beyond
  what a tenant may have. Three `Members` exceed the smaller limits.
* `HttpRequests`, `People`: two requests of two people, one of which creates the tenant the
  other's header names; the theorem holds for any. `RequiredRoutes`, `DefaultRequired` and
  `IgnoredRoutes` are the application's.
* `MaxImports = 4` rows and `PageLimit = 2` make two full pages of one tenant beside a row of
  another, and `AverageParts = 12` parts of a point make averages of up to four rows exact;
  `MaxArchived = 3` events cross batches of two and snapshots taken late, and two
  `ArchiveTimes` let rows tie;
  `UpgradeTargets` lie behind a missing upgrader and before one.
* `MaxTenantEvents = 4`, `MaxHandleFailures = 1`: created, a member added and removed, a
  status, in any order of statements and with one repeated attempt. `MaxChanges = 6`
  steps fill in the weighted fields of a score.
* `MaxUserEvents`: four events let a user be registered, disabled, enabled and disabled
  again, by two instances of different age.

`CHECK_DEADLOCK FALSE` is set everywhere: commands, calls and appends are finite in
number, and a system that has handled them all rests.

## 5. Fairness

Only liveness runs assume any, and only what the runtime gives: a started command's
statement is answered (`WF(Progress(c))`), a tick's and a handler's awaited calls return
and the timer fires again (`WF` of `StartTick`, `Publish`, `MarkPublished`, `Handle`),
time passes (`WF(BackoffElapses)`), the calls and dispatches of the orchestrator
continue. Nothing is assumed of new commands, messages, crashes, failures or operators.
Weak fairness suffices because nothing waits for a lock that could be taken again and
again: a refused insert gives up, and a mark is a statement of its own.

## 6. Proofs

The theorems hold for every value of the constants that the modules' named ASSUMEs allow;
TLC evaluates the ASSUMEs in the runs. Hypotheses beyond these are written in the theorem.
Every property of the passing runs that is an invariant or an action property is stated
by a theorem; what remains with TLC is named at the end of this section.

| Module | Theorems about |
|---|---|
| `WriteSide_proofs` | commands, and their refinement of `EventLog` |
| `Delivery_proofs` | the transport, and its refinement of `AtLeastOnceQueue` |
| `ReadModels_proofs` | the bill's and the roles' read models, upon `Delivery_proofs`; the event archive; the read side as a whole |
| `Projection_proofs` | rebuild and live dispatch |
| `Aggregates_proofs` | tenant, document, syncable aggregate, request context, pipeline |
| `EventSourced_proofs` | user, membership, bill and document against their streams; all aggregates together |
| `Replay_proofs` | lemmas only: what folding a stream does, what sums over finite sets do, how a finite set is put in order |
| `Queries_proofs` | metadata pages, tenant analytics, scores, reports |

### Commands

`WriteSide_proofs` proves, for any sets of commands and streams and any `MaxEvents > 0`, and
without any other hypothesis: `TypeOK`, `GapFree`, `Serialized`, `AnnouncedIsStored`,
`OutboxFollowsStore`, `ConflictMeansOvertaken`, `AppendOnly` and `ImplementsLog`.

The invariants are not inductive. `GapFree`, for example, survives an insert only because
the inserting command's own position is known. The inductive invariant `IInv` adds to `TypeOK`:

* `Attribution`: which rows and messages in the tables are whose, by the command's
  counters, and that those of a command which has failed are still there;
* `OneRowPerVersion` and `Segments`: a stream holds `1 .. k`, one row each;
* `Counters`: `base`, `version`, `sent` against `pc`;
* `Known`: what a command was rebuilt from is still there.

`InsertFinds` is the heart of it: where the unique index accepts a row, the stream ends exactly
at what the inserting command has read and written.

There is one lemma per kind of step (`DecideStep`, `MoveStep` for steps that only
move on, `Commit` and `Abort` among them, `InsertStep`, `AppendOutboxStep`), each with one step
per conjunct; `Inductive` puts them together. Refinement: `InsertFinds` gives `AppendNext` its
guard and `Attribution` that of `AnnounceNext` (`LogAppends`, `LogAnnounces`); steps that
only move on stutter in `EventLog`.

### Delivery and the read models

`Delivery_proofs` proves, for any messages, subscribers and ticks unless stated:
`TypeOK`; `RepeatsExplained` and `InboxAgreesWithEffects`; `BatchIsFresh` for one tick at a
time; `PublishedIsProcessed` when handlers do not throw; `PublishedIsApplied` for one
subscriber besides, which writes beside its unit of work. `RepeatsExplained` counts: an
effect belongs to a tick that is at work on the message and was past the check before the
mark (`AtWork`), or to a fault (`Tallied`), and once a message is marked no tick gets past the
check any more. `InboxAgreesWithEffects` adds that every mark has its writer (`WritesThenMarks`)
and that what is marked in vain was lost by a fault of its own (`VainCounted`). For the others
the argument follows a delivery through its phases: `EndedIsMarked` (a handler that has settled
leaves its message marked), `MarkedIsApplied`, and `Fresh` (what a tick has listed is
pending, since no other tick could publish it).

`AppliedInOrder` is `InOrder` for one subscriber that does not throw and writes beside its
unit of work, and messages of one aggregate, with any number of overlapping ticks and any
limit. Its strengthening
`QueueInOrder` relates the table, the batches and the inbox: messages are appended in order,
and what the inbox lacks the next tick lists (`NoneSkipped`); what precedes a listed message
is listed with it or in the inbox, and what precedes the current one is in the inbox
(`TicksInOrder`); so the inbox holds a beginning of the messages (`InboxInOrder`). The
conditions of these theorems are hypotheses: findings 2 and 3 show what becomes of them
without a single subscriber and without error-free handlers, and section 3 what overlapping
ticks and writes within the unit of work do.

Under all of them at once, `DeliveryImplementsQueue` is the refinement of
`AtLeastOnceQueue`. The invariants above together give two steps their guards: what a handler
writes is pending, its predecessors have been taken and its successors have not; what a tick
marks published its subscriber has taken. Appending is announcing, and every other step, marks,
crashes and redeliveries among them, stutters.

`ReadModels_proofs` proves of the bill `BillingTypeOK`, and `RowIsPast` with overlapping
ticks, crashes and swallowed errors. The invariant speaks of the messages as well as of the
row: each reports what the bill is or has been (`AllIsPast`), those in the outbox or in a
tick's hands carry an event (`Announced`), and a handler at work handles one somebody
listens to (`Heard`). A later command can then only add to the bill's past (`PastGrows`).

`RowAlwaysCatchesUp` and `RowNeverGoesBack` are `RowCatchesUp` and `RowMovesForward`, for one
subscriber, whose write and whose mark are two commits. Their
invariant has the form "disturbed, or calm": until ticks overlap or an error is swallowed
(`Calm`), what has been told leads to the bill's status (`Told`, `ToldAll`); the row has got
as far as the messages in the inbox and no further than the first that is not
(`RowKeepsUp`); and a handler decides on the row as it is (`FoundIsRow`). So what is
delivered again the row has passed already, and the handler's own transitions refuse it.

Of the roles: `RoleTypeOK`; `PublishedIsAssigned` (the same form, `Undisturbed`: a message in
the inbox has left its row, was passed, or is about to be committed, `Decided`); and
`FirstUserIsAdmin`, which needs `QueueInOrder` and that the inbox holds a beginning of the
messages: the first administrator is the first in the table only because sign-ups are applied
in order, or passed (`OnlyFirst`). Both give `RolesAssigned`, for any assignment ids and without
a hypothesis on marks or transactions. Role theorems assume one subscriber; `RoleTypeOK` is
false with two, since two handlers of one tick would share the decision the model keeps for it.

### Projections

`CountsExplained` is `DuplicatesFromFailures` for any number of starts, rebuilds and
subscriptions at once, whatever fails and whatever operators do; the run takes two starts
that do not rebuild beside one rebuild, on one event. Its invariant, `Explained`, adds that
every rebuild knows its place (`Paging`): what it has paged through is a beginning of the
store, of as many events as its offset says, its page is among them, and it fetches from an
empty page only. Then an event that a rebuild counts is one it had not read (`PrefixIsFirst`
turns the offset into a position), a dispatch that counts has one attempt more than before,
reasons are never lost (`ReasonsGrow`), and so a count has a reason that was none before
(`CountedForNewReason`), which is one more in the cardinality (`OneMoreReason`). It needs
that events commit in the order of their times, without which one rebuild counts an event
twice (finding 4), and that calls are finitely many, for reasons to be counted.

`CountedAgainAfterFailure` is the sharper bound when nothing rebuilds
(`OnceAndPerFailure`), for any retries and any
interference of operators: at most one subscription is open (`OneSubscription`), so an event
is dispatched by one (`OneDispatch`), and every time it was counted but for the last an
attempt at it has failed (`Accounted`). `RebuildExact` and `CountedOnce` are `RebuiltExactly`
and `NeverTwice` for a single call, events that commit in the order of their times and, for
the latter, no failures (the run allows one). Their invariant `Replay` says that what has
been counted and what is on the page are the first events of the store, as many as the
offset says (`Replaying`). The lemma `NextPage` then gives that the rows behind this offset
are new, that they prolong the prefix, and that behind a page that is not full nothing is
left; positions are cardinalities, and that there is an earliest event left (`Earliest`)
comes from the well-founded order of finite subsets. Finding 4 shows what becomes of
`RebuiltExactly` without `AppendInOrder`. `TypeCorrect` needs neither hypothesis; it includes
that an offset never passes the number of events and that the retries of the handler and
of the dispatch make no more attempts than their product.

### Aggregates, requests and the pipeline

* **Tenant.** `TenantTypeOK`, with `TenantRecorded`: what is recorded carries an accepted
  name, and a tenant in the store records nothing more. `WithinLimit`, with
  `MembersCounted`: an instance has finitely many members and their number fits a limit
  which is itself in range; `OneMoreFits`, `OneLessFits` and `AnotherLimitFits` carry the
  arithmetic.
* **Document.** Types and `EmbeddingIsCurrent`. The strengthening, `Busy`, says what the
  worker holds: a vector that was stored, or a text that was taken, is the document's
  unless the text has changed since.
* **Syncable aggregate.** Types, `SyncedIsSent` (likewise, with what is on its way) and
  `AuditConsistent`, by a lemma that every method of the root keeps its trail
  (`MethodsKeepTrail`).
* **Pipeline.** `PipelineTypeOK` and `AuditTellsCaller`, for any pipes switched on and any
  number of commands. `PipelineInv` says of each command where it stands (`Passing`): on its
  way down every pipe behind it has admitted it and the handler has not run; after that
  the handler has run once at most, and the audit has its entry as soon as the command
  has left the audit's pipe. `OneHandlerEach`, which no run states apart: a started
  application has one handler for each type, on the bus of commands and on that of queries.
* **Requests.** Types and `ContextKept`. None of its three parts is inductive: `ContextInv`
  adds that a store knows nobody but its request's own user and, until a tenant is created,
  no tenant but the header's (`StoresRight`, `IdleUnknown`), that a row is about its own
  tenant (`RowsRight`), and that whoever has passed the policies owns the tenant
  (`AllowedRight`), since roles are never taken away. `Steady` (what a request is does not
  change once it has begun) keeps what is known of messages and owners over the steps of
  other requests.

What an aggregate's events are replayed to is a fold, and what a fold computes is a matter of
induction. The library's induction theorems take an operator and are of no use here, so
`Replay_proofs` has its own: `Induction` is about a *set* that contains 0 and successors,
proved from the well-founded order of the naturals, and with it `SameReplay`, `ReplayAppend`
(one more event is one more application of the fold's step) and `FoldByEvent` hold for the
folds of the community modules, whose recursive functions are shown to exist
(`ReplayExists`). On these stand, for streams of any length:

* **User.** `LegalLife` and `InstanceFollowsEvents`, for any sessions. `UserInv`: the stream
  is a legal story, and for every session the events before its version followed by those
  it has recorded are one as well, with whose outcome its state agrees but for the
  roles (finding 5). Two instances can tell different stories; that only one of them is
  continued in the stream is the version check.
* **Membership.** `MembershipSurvivesReload`. `MembershipInv`: a stream begins with the
  addition and never again has one; an instance's roles were granted in the part of the
  stream it was rebuilt from, and it has recorded no grant of one it has.
* **Bill.** `BillSurvivesReload`. `BillInv`: the stored and the recorded events are a bill's
  story, and the instance is what `rehydrate` makes of them.
* **Document.** `DocumentTellsAll`. `DocumentInv`: title and status are those the emitted
  events tell.

`EachAlone` says that a behaviour of `MCAggregates` is a behaviour of each part, chosen or
resting. So `AggregatesTypeOK`, `ReloadAgrees` and, all together, the nine safety invariants
the run checks of the combined module hold of it for every value of the constants
(`AggregatesCorrect`).

### What queries are answered from

* **Pages.** `MetadataTypeOK` and `PagesComplete`, for any rows, filters and page limit.
  `MetadataInv` follows the reader over a table that stays as it is (`Followed`): the count
  it was given is that of the filter's rows, and what it has read is the beginning of one
  order of them, as long as its offset. Without equal times there is one such order only
  (`OneOrder`), so that the pages, selected at different times, fit together; when `hasMore`
  is false the beginning is all of it.
* **Tenant analytics.** `AnalyticsTypeOK` and `AnalyticsTrue`, for any events, failures
  and rebuilds, and any order of the statements. `AnalyticsInv`: a tenant is created once
  (`CreatedOnce`), a rebuild takes the events in order (`TakenInOrder`), and a row that no
  update has missed is, at any time, what the events begun so far and the attempts at them
  make of it (`RowTrue`); a counter is a difference of cardinalities, so an update adds one
  element to one of two sets.
* **Scores.** `QualityTypeOK` (scores stay between 0 and 100, every amount has a range) and
  `ScoreMonotone`. The parts of a score are folds over sets of weighted conditions;
  `SumOfThree` and `Parts` give them a closed form, in which filling in a field
  (`FillingInGains`) and growing older (`GrowingOlderGainsNothing`) can be compared.
* **Reports.** `ReportsTypeOK` and `ReportsTrue`, for any configurations, rows and callers.
  The service's totals are folds over groups; `Replay_proofs` turns a sum over a finite
  set into the cardinality of its units (`SumIsTotal`, by induction on subsets), where what is
  counted in groups that share nothing is counted once (`TotalByGroups`). An average times
  the number of its rows is their sum (`AverageIsExact`), which gives that the weighted
  average is that of the rows (`ScoresAddUp`). `ReportsInv` keeps this of each result,
  waiting to be saved, given, or saved.

### What is stored is read back

`ArchiveRead` is `ArchiveFaithful`, for any streams, event data, registries, queries and
batch sizes, and any bound on the store; `EventsAreReadBack` is what the run states of
it. `ArchiveFaithful` has four parts, and none is inductive. `ArchiveInv` is the conjunction of

* `RowsKept`: the rows are typed, each is what the column makes of what was emitted, encoded
  or not, and the versions of every stream are `1 .. k`, each once;
* `SnapshotsTrue`: a snapshot, and the aggregate somebody holds in order to save it, has as
  its state the first events of its stream, up to its own version (`Recorded`). An append
  keeps this since it only adds behind: that is why a snapshot saved late is still right;
* `UpgradesInOrder`: the upgraders applied so far increase and lie below the version reached;
* `RegistryOK`: a type's entry is one of those that can be registered.

The parts of `ArchiveFaithful` follow from it:

* *Snapshots.* What is loaded behind a true snapshot is the rest of the stream in its order
  (`StreamLoaded`), so state and events join to all of it (`RebuiltIsRecorded`).
* *Batches.* A query is a piece cut out of one order of the rows (`QueryIsCut`), and so is
  every batch (`BatchIsCut`), if `(occurred_at, version)` orders the rows of the filter strictly
  (`InStrictOrder`); where rows tie two queries could see two orders. A batch
  continues where the last one ended (`BatchContinues`), and each round of the loop
  either yields more or ends it at the end of the cut (`TurnYields`), which gives
  `StreamedIsAll` by induction on the rounds.
* *Codec.* `CodecInverse`: the serializer puts markers below exactly those paths that hold a
  date or a buffer (`Serialized`), the deserializer finds markers exactly there
  (`MarkersFound`) unless the data has some of its own, and what it leaves out are the
  markers' two fields.
* *Upgraders.* An upgrade applies those at versions from the one reached on, in order, so
  they join the increasing sequence (`UpgradeKeepsOrder`, `IncreasingConcat`).

A finite set strictly ordered by a relation can be put in that order, each element once:
`CanBeOrdered` is the lemma of `Replay_proofs` behind every ORDER BY, by induction on
subsets.

### The read side as a whole

`ReadSideIsItsParts`: a behaviour of `MCReadModels` is one of each of its parts. Those of
metadata, scores, archive and analytics it always implements; those of bills, roles and reports
when they are the ones chosen, because what they share (the delivery, the metadata table) moves
for others as well. A part that is not chosen stays as it began (`AlwaysQuiet`), where its
invariants hold. So the run's properties hold of the combined module for every value of
the constants: `ReadSideTypeCorrect`, for one subscriber, and `ReadSideCorrect`, for one
subscriber and commands that commit in the order of their events (`OneAggregate`): the
hypotheses the run's configuration takes too.

### Assumed, and not proved

The ASSUMEs say no more than that names are distinct, that bounds are natural numbers or at
least 1, and that what a configuration lists is of its type: a message's number is positive,
the default limit of a tenant is a valid one, plain roles are not those of administrators,
keys of the metadata are finitely many, and a point has parts enough that averages over them
are exact (`AverageParts`: the model's integers for the database's numerics). Of the archive:
event data are trees whose keys and values are among `DataStrings`, which contain the two
keys of a marker; queries give a limit other than 0, since 0 means "no limit" to
`loadAllEvents` and "nothing" to `streamAllEvents`.

Proved without a passing run that states them: `StoreAppendOnly`,
`CountedAgainAfterFailure`, `PublishedProcessed`,
`PublishedApplied` (the runs of findings 2 and 3 drop one hypothesis each; without the third,
that the subscriber writes beside its unit of work, a crash between mark and commit is
enough),
`HandlersUnique`, and the types and statements of single parts of a combined property.
Model-checked only: liveness (`EventuallySettled`, `AllPublished`, `DispatchEnds`), which is
beyond the prover.

## 7. Findings

1. `writeside_split`. `PgEventStore`, `PgOutbox` and `PgInbox` call
   `em.getConnection().execute(sql, params)` and do not pass on the transaction's context.
   With the locked ORM version (6.1.1) such a statement runs outside the transaction, as
   it does when a handler has no unit of work. A failure in the middle then leaves an
   event without a message; and for the inbox, a crash between mark and commit leaves a
   message that is marked and has no effect. All modules take the statements as they are; the
   theorems on streams, the log and the delivery need no transaction.
2. `delivery_starved`. The inbox knows messages, not (message, subscriber). Two
   subscribers of `TenantCreated` exist; the later one finds the event processed.
3. `delivery_swallowed`. The bus drops handlers' errors, so a message whose handler threw
   is published and never retried.
4. `projection_paging`. `streamAllEvents` pages by OFFSET over rows ordered by time.
5. `user_roles`. `apply()` reads `roleKey`, the event carries `role`; `revokeRole()` records
   nothing.
6. Without a run, since nothing is left to interleave: `mapRowToSnapshot`
   (`pg-event-store-enhanced.ts:385`) applies `JSON.parse` to a column of type `jsonb`
   (`001_create_snapshots_table.sql:14`), which the driver gives parsed; it throws, and no
   snapshot that is stored is ever loaded. The unit test mocks the state as a string
   (`pg-event-store-enhanced.spec.ts:311`). In `EventArchive`, `loadSnapshotAtVersion` gives
   nothing where a snapshot is.

Further limits met while modelling are described with the hazards: the gap between a
rebuild and its subscription, two concurrent starts, a pause undone by a rebuild, two
administrators from overlapping sign-ups, a cancelled bill that stays pending in the
read model, metadata that survives a failed command, results of reports lost to the
caller of a batch, and a pool of connections that open units of work exhaust, since their
statements ask it for others.

## 8. Not modelled, and why

* No store of the repository implements `subscribe`; the subscription of `Projection`
  is external, taken from how the orchestrator uses it.
* Only `CreateBilling` has a command handler. Those of the bill's other operations are
  assumed to have its form. `BillingProjectionSubscriber` is not among the providers of
  `billing.module.ts`; the model shows it as if it were.
* Subscribers are taken as registered before the first tick.
* One event bus per database: with several processes each has its own bus with the
  same subscribers, which ticks of several instances cover.
* Event data with a field that looks like one of the codec's own markers is among the inputs of
  `EventArchive`, and left out by its property; so are ties of time and version in what batches
  are compared with. The codec, the event registry and the snapshots have no caller in the
  repository yet.
* Placeholders of the form `$n` are taken as PostgreSQL's. A limit or batch size of 0 is not
  among the inputs.
* No aggregate emits `TenantActivated`, `TenantSuspended`, `MemberAdded` or `MemberRemoved`;
  `TenantAnalytics` takes them as an event store may hold them. What a rebuild does beside
  live dispatch is in `Projection`.
* `getQualityScore` of the report service, the controllers' constant scores, the expiry of
  reports (never set) and dimension calculators by time have no state or no caller.
* The request id and the locale travel like the user and are left out of `RequestContext`, as
  are `RegisterUser`'s explicit envelope fields and contexts of background jobs.
  Sessions and sign-up are better-auth's, the request store is nestjs-cls's, abilities are
  CASL's: external, taken from how the code uses them. A session may also turn out empty.
* Several projections under one orchestrator differ from one by the order they are
  called in; plugins are registered and started once, in order, at start-up. Neither has
  a protocol that the other modules do not show.
* The in-memory outbox and inbox have the tables' interface and lose everything at a
  restart. ClickHouse and embedding clients, configuration, logging, translations,
  exception mapping, redis and the remaining controllers are I/O or formatting; the
  kernel is data structures.

## 9. What is left

Done: the write side, delivery, projections, the aggregates with their extensions, the
read models, metadata, reports and scores, the event archive, the pipeline and the
context of requests. What would come next:

1. Several projections in one orchestrator, with sequential and parallel dispatch, and
   the start and stop of plugins.
2. `RequestContext` over `Delivery`: messages there are handled in any order and any number
   of times, which covers what `Delivery` does, but not at what price.
3. Abstract specifications: a counter per event, for `Projection`'s rebuild.
4. Theorems: which events a rebuild overlooks when the store does not grow in the order of
   its times, or while another rebuild clears the table.

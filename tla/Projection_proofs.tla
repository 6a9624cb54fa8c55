-------------------------- MODULE Projection_proofs --------------------------
(* What TLAPS proves of the projection, for any events, calls, page sizes, retries
   and failures: the live dispatch by itself, a rebuild by itself, and both
   together, while operators interfere.  *)
EXTENDS Projection, FiniteSetTheorems, WellFoundedInduction, TLAPS

\* Nobody has called rebuildProjection.
Untouched == \A r \in Rebuilders : call[r] = "idle"

CountsTyped ==
    /\ model \in [Events -> Nat]
    /\ live \in [Events -> [Starters -> {"none", "called", "handling", "touch", "retry",
                                          "done", "skipped", "abandoned"}]]
    /\ attempts \in [Events -> [Starters -> Nat]]
    /\ call \in [Calls -> {"idle", "clear", "fetch", "rows", "touch", "subscribe", "done"}]

\* One subscription at a time, the one that stopping ends.
OneSubscription ==
    /\ \A c \in subscribed : isRunning /\ c = unsubscribe
    /\ subscribed \subseteq Starters

\* An event is dispatched after it has been stored, and by one subscription.
OneDispatch ==
    \A e \in Events : \A c, d \in Starters : live[e][c] # "none" =>
        /\ e \in store
        /\ live[e][d] # "none" => c = d

\* No rebuild is under way.
NoRebuild == \A c \in Calls : call[c] \in {"idle", "done"}

\* Each time an event was counted an attempt at it has failed since, but for
\* the last one.
Accounted ==
    \A e \in Events :
        /\ model[e] # 0 => \E c \in Starters : live[e][c] # "none"
        /\ \A c \in Starters : live[e][c] # "none" =>
               model[e] <= attempts[e][c] + (IF live[e][c] \in {"touch", "done"} THEN 1 ELSE 0)

Quiet == OneSubscription /\ OneDispatch /\ NoRebuild /\ Accounted

DispatchInv == CountsTyped /\ (Untouched => Quiet)

LEMMA InitialDispatch == Init => DispatchInv
<1> SUFFICES ASSUME Init PROVE DispatchInv
  OBVIOUS
<1>1. CountsTyped
  BY DEF Init, CountsTyped
<1>2. OneSubscription /\ OneDispatch
  BY DEF Init, OneSubscription, OneDispatch
<1>3. NoRebuild
  BY DEF Init, NoRebuild
<1>4. Accounted
  BY DEF Init, Accounted
<1> QED  BY <1>1, <1>2, <1>3, <1>4 DEF DispatchInv, Quiet

\* A call keeps to its steps, and once it has left "idle" it does not come back.
LEMMA CallsMove ==
    ASSUME CountsTyped, Next
    PROVE  /\ call' \in [Calls -> {"idle", "clear", "fetch", "rows", "touch", "subscribe", "done"}]
           /\ Untouched' => Untouched
<1> USE DEF CountsTyped, Untouched, At, Goto, Calls
<1>1. CASE \E e \in Events : AppendEvent(e)
  BY <1>1 DEF AppendEvent
<1>2. CASE StopSync \/ Pause \/ Resume \/ Stop
  BY <1>2 DEF StopSync, SetStatus, Pause, Resume, Stop
<1>3. ASSUME NEW c \in Calls, StartSync(c) \/ Rebuild(c)
      PROVE  /\ call' \in [Calls -> {"idle", "clear", "fetch", "rows", "touch", "subscribe", "done"}]
             /\ Untouched' => Untouched
  BY <1>3 DEF StartSync, Rebuild, BeginRebuild
<1>4. ASSUME NEW c \in Calls, CallStep(c) \/ RebuildFails(c)
      PROVE  /\ call' \in [Calls -> {"idle", "clear", "fetch", "rows", "touch", "subscribe", "done"}]
             /\ Untouched' => Untouched
  BY <1>4 DEF CallStep, RebuildFails, SubscribeAfterRebuild, Clear, Fetch, CountRow, TouchRow,
              FinishRebuild, AfterRebuild
<1>5. CASE \E e \in Events, c \in Starters : LiveStep(e, c) \/ Fail(e, c)
  BY <1>5 DEF LiveStep, Fail, Handle, Count, Touch
<1> QED  BY <1>1, <1>2, <1>3, <1>4, <1>5 DEF Next

\* An event that is stored is dispatched by the one subscription there is.
LEMMA AppendKeeps ==
    ASSUME CountsTyped, Quiet, NEW e \in Events, AppendEvent(e) PROVE CountsTyped' /\ Quiet'
<1> USE DEF AppendEvent, CountsTyped
<1>1. CountsTyped'
  OBVIOUS
<1>2. /\ \A k \in Events \ {e} : live'[k] = live[k]
      /\ \A c \in Starters : live'[e][c] = IF c \in subscribed THEN "called" ELSE live[e][c]
      /\ \A c \in Starters : live[e][c] = "none"
  BY DEF OneDispatch, Quiet
<1>3. OneSubscription' /\ OneDispatch' /\ NoRebuild'
  BY <1>2 DEF OneSubscription, OneDispatch, NoRebuild, Quiet, syncVars
<1>4. model[e] = 0
  BY <1>2 DEF Accounted, Quiet
<1>5. ASSUME NEW k \in Events
      PROVE  /\ model'[k] # 0 => \E c \in Starters : live'[k][c] # "none"
             /\ \A c \in Starters : live'[k][c] # "none" =>
                    model'[k] <= attempts'[k][c]
                                 + (IF live'[k][c] \in {"touch", "done"} THEN 1 ELSE 0)
  <2>1. CASE k = e
    BY <2>1, <1>4
  <2>2. CASE k # e
    BY <2>2, <1>2 DEF Accounted, Quiet
  <2> QED  BY <2>1, <2>2
<1> QED  BY <1>1, <1>3, <1>5 DEF Quiet, Accounted

\* Operators do not touch calls, counters and dispatches.
LEMMA OperatorsKeep ==
    ASSUME CountsTyped, Quiet, StopSync \/ Pause \/ Resume \/ Stop PROVE CountsTyped' /\ Quiet'
<1>1. UNCHANGED <<store, model, call, live, attempts>>
  BY DEF StopSync, Pause, Resume, Stop, SetStatus, liveVars
<1>2. OneSubscription'
  BY DEF Quiet, OneSubscription, StopSync, Pause, Resume, Stop, SetStatus, syncVars
<1> QED
  BY <1>1, <1>2 DEF Quiet, CountsTyped, OneDispatch, NoRebuild, Accounted

\* A start subscribes at once, and only if nobody is subscribed; nothing else is
\* under way.
LEMMA StartKeeps ==
    ASSUME CountsTyped, Quiet, ~AutoRebuild, NEW c \in Calls, StartSync(c)
    PROVE  CountsTyped' /\ Quiet'
<1>1. UNCHANGED <<store, model, live, attempts>> /\ c \in Starters
  BY DEF StartSync, liveVars
<1>2. call' = [call EXCEPT ![c] = "done"]
  BY DEF StartSync, Goto
<1>3. CountsTyped' /\ NoRebuild'
  BY <1>1, <1>2 DEF CountsTyped, NoRebuild, Quiet
<1>4. OneSubscription'
  BY <1>1 DEF StartSync, Subscribe, syncVars, OneSubscription, Quiet
<1> QED
  BY <1>1, <1>3, <1>4 DEF Quiet, OneDispatch, Accounted

LEMMA NothingToRebuild ==
    ASSUME Quiet, NEW c \in Calls PROVE ~CallStep(c) /\ ~RebuildFails(c)
  BY DEF Quiet, NoRebuild, CallStep, RebuildFails, SubscribeAfterRebuild, Clear, Fetch,
         CountRow, TouchRow, FinishRebuild, At

\* A step of a dispatch changes what belongs to its event and subscription.
LEMMA DispatchTyped ==
    ASSUME CountsTyped, NEW e \in Events, NEW c \in Starters, LiveStep(e, c) \/ Fail(e, c)
    PROVE  /\ CountsTyped'
           /\ live'[e][c] # "none"
           /\ \A k \in Events, d \in Starters : k # e \/ d # c =>
                  live'[k][d] = live[k][d] /\ attempts'[k][d] = attempts[k][d]
           /\ \A k \in Events \ {e} : model'[k] = model[k]
<1> USE DEF CountsTyped, LiveAt, LiveGoto
<1>1. CASE Handle(e, c)
  <2>1. \E pc \in {"skipped", "handling"} : live' = [live EXCEPT ![e][c] = pc]
    BY <1>1 DEF Handle
  <2>2. UNCHANGED <<model, attempts, call>>
    BY <1>1 DEF Handle
  <2> QED  BY <2>1, <2>2
<1>2. CASE Count(e, c)
  BY <1>2 DEF Count
<1>3. CASE Touch(e, c)
  BY <1>3 DEF Touch
<1>4. CASE Fail(e, c)
  <2>1. \E pc \in {"handling", "retry", "abandoned"} : live' = [live EXCEPT ![e][c] = pc]
    BY <1>4 DEF Fail
  <2>2. attempts' = [attempts EXCEPT ![e][c] = attempts[e][c] + 1] /\ UNCHANGED <<model, call>>
    BY <1>4 DEF Fail
  <2> QED  BY <2>1, <2>2
<1> QED  BY <1>1, <1>2, <1>3, <1>4 DEF LiveStep

\* A dispatch counts its event once for every attempt, and the last attempt has
\* not failed.
LEMMA DispatchKeeps ==
    ASSUME CountsTyped, Quiet, NEW e \in Events, NEW c \in Starters, LiveStep(e, c) \/ Fail(e, c)
    PROVE  CountsTyped' /\ Quiet'
<1>1. live[e][c] # "none" /\ UNCHANGED <<store, call, syncVars>>
  BY DEF CountsTyped, LiveStep, Handle, Count, Touch, Fail, LiveAt
<1>2. /\ CountsTyped'
      /\ live'[e][c] # "none"
      /\ \A k \in Events, d \in Starters : k # e \/ d # c =>
             live'[k][d] = live[k][d] /\ attempts'[k][d] = attempts[k][d]
      /\ \A k \in Events \ {e} : model'[k] = model[k]
  BY DispatchTyped
<1>3. OneSubscription' /\ NoRebuild'
  BY <1>1 DEF Quiet, OneSubscription, NoRebuild, syncVars
<1>4. OneDispatch'
  BY <1>1, <1>2 DEF Quiet, OneDispatch
<1>5. model'[e] <= attempts'[e][c] + (IF live'[e][c] \in {"touch", "done"} THEN 1 ELSE 0)
  <2> USE DEF CountsTyped, LiveAt, LiveGoto
  <2>1. model[e] <= attempts[e][c] + (IF live[e][c] \in {"touch", "done"} THEN 1 ELSE 0)
    BY <1>1 DEF Quiet, Accounted
  <2>2. CASE Handle(e, c)
    <3>1. \E pc \in {"skipped", "handling"} : live' = [live EXCEPT ![e][c] = pc]
      BY <2>2 DEF Handle
    <3>2. live[e][c] \notin {"touch", "done"} /\ UNCHANGED <<model, attempts>>
      BY <2>2 DEF Handle
    <3> QED  BY <2>1, <3>1, <3>2
  <2>3. CASE Count(e, c)
    BY <2>1, <2>3 DEF Count
  <2>4. CASE Touch(e, c)
    BY <2>1, <2>4 DEF Touch
  <2>5. CASE Fail(e, c)
    <3>1. \E pc \in {"handling", "retry", "abandoned"} : live' = [live EXCEPT ![e][c] = pc]
      BY <2>5 DEF Fail
    <3>2. attempts' = [attempts EXCEPT ![e][c] = attempts[e][c] + 1] /\ UNCHANGED <<model, call>>
      BY <2>5 DEF Fail
    <3> QED  BY <2>1, <3>1, <3>2
  <2> QED  BY <2>2, <2>3, <2>4, <2>5 DEF LiveStep
<1>6. ASSUME NEW k \in Events
      PROVE  /\ model'[k] # 0 => \E d \in Starters : live'[k][d] # "none"
             /\ \A d \in Starters : live'[k][d] # "none" =>
                    model'[k] <= attempts'[k][d]
                                 + (IF live'[k][d] \in {"touch", "done"} THEN 1 ELSE 0)
  <2>1. CASE k = e
    BY <1>2, <1>4, <1>5, <2>1 DEF OneDispatch
  <2>2. CASE k # e
    BY <1>2, <2>2 DEF Quiet, Accounted
  <2> QED  BY <2>1, <2>2
<1> QED  BY <1>2, <1>3, <1>4, <1>6 DEF Quiet, Accounted

\* A rebuild keeps the types.
LEMMA RebuildTyped ==
    ASSUME CountsTyped, Next, NEW c \in Calls,
           StartSync(c) \/ Rebuild(c) \/ CallStep(c) \/ RebuildFails(c)
    PROVE  CountsTyped'
<1>1. UNCHANGED <<live, attempts>>
  BY DEF StartSync, Rebuild, CallStep, RebuildFails, SubscribeAfterRebuild, Clear, Fetch,
         CountRow, TouchRow, FinishRebuild, liveVars
<1>2. model' \in [Events -> Nat]
  <2>1. CASE CountRow(c)
    <3>1. PICK e : model' = [model EXCEPT ![e] = @ + 1]
      BY <2>1 DEF CountRow
    <3>2. CASE e \in Events
      BY <3>1, <3>2 DEF CountsTyped
    <3>3. CASE e \notin Events
      BY <3>1, <3>3 DEF CountsTyped
    <3> QED  BY <3>2, <3>3
  <2>2. CASE Clear(c)
    BY <2>2 DEF Clear
  <2>3. CASE model' = model
    BY <2>3 DEF CountsTyped
  <2> QED
    BY <2>1, <2>2, <2>3 DEF StartSync, Rebuild, CallStep, RebuildFails, SubscribeAfterRebuild,
                            Fetch, TouchRow, FinishRebuild
<1> QED  BY <1>1, <1>2, CallsMove DEF CountsTyped

LEMMA DispatchStep == ~AutoRebuild /\ DispatchInv /\ [Next]_vars => DispatchInv'
<1> SUFFICES ASSUME ~AutoRebuild, DispatchInv, [Next]_vars PROVE DispatchInv'
  OBVIOUS
<1>1. CASE UNCHANGED vars
  BY <1>1 DEF vars, syncVars, liveVars, DispatchInv, CountsTyped, Untouched, Quiet,
              OneSubscription, OneDispatch, NoRebuild, Accounted
<1>2. CASE Next /\ Quiet
  <2>1. ASSUME NEW e \in Events, AppendEvent(e) PROVE DispatchInv'
    BY <1>2, <2>1, AppendKeeps DEF DispatchInv
  <2>2. CASE StopSync \/ Pause \/ Resume \/ Stop
    BY <1>2, <2>2, OperatorsKeep DEF DispatchInv
  <2>3. ASSUME NEW c \in Calls, StartSync(c) PROVE DispatchInv'
    BY <1>2, <2>3, StartKeeps DEF DispatchInv
  <2>4. ASSUME NEW c \in Calls, Rebuild(c) PROVE DispatchInv'
    <3>1. CountsTyped'
      BY <1>2, <2>4, RebuildTyped DEF DispatchInv
    <3>2. ~Untouched'
      BY <2>4 DEF DispatchInv, CountsTyped, Rebuild, BeginRebuild, Goto, Untouched
    <3> QED  BY <3>1, <3>2 DEF DispatchInv
  <2>5. ASSUME NEW c \in Calls, CallStep(c) \/ RebuildFails(c) PROVE DispatchInv'
    BY <1>2, <2>5, NothingToRebuild
  <2>6. ASSUME NEW e \in Events, NEW c \in Starters, LiveStep(e, c) \/ Fail(e, c)
        PROVE  DispatchInv'
    BY <1>2, <2>6, DispatchKeeps DEF DispatchInv
  <2> QED  BY <1>2, <2>1, <2>2, <2>3, <2>4, <2>5, <2>6 DEF Next
<1>3. CASE Next /\ ~Quiet
  <2>1. ~Untouched'
    BY <1>3, CallsMove DEF DispatchInv
  <2>2. CountsTyped'
    <3>1. ASSUME NEW e \in Events, AppendEvent(e) PROVE CountsTyped'
      BY <3>1 DEF DispatchInv, AppendEvent, CountsTyped
    <3>2. CASE StopSync \/ Pause \/ Resume \/ Stop
      BY <3>2 DEF DispatchInv, CountsTyped, StopSync, Pause, Resume, Stop, SetStatus, liveVars
    <3>3. ASSUME NEW c \in Calls, StartSync(c) \/ Rebuild(c) \/ CallStep(c) \/ RebuildFails(c)
          PROVE  CountsTyped'
      BY <1>3, <3>3, RebuildTyped DEF DispatchInv
    <3>4. ASSUME NEW e \in Events, NEW c \in Starters, LiveStep(e, c) \/ Fail(e, c)
          PROVE  CountsTyped'
      BY <3>4, DispatchTyped DEF DispatchInv
    <3> QED  BY <1>3, <3>1, <3>2, <3>3, <3>4 DEF Next
  <2> QED  BY <2>1, <2>2 DEF DispatchInv
<1> QED  BY <1>1, <1>2, <1>3

\* The bound that a subscription of its own gives.
OnceAndPerFailure ==
    Untouched => \A e \in Events, c \in Starters :
                     live[e][c] # "none" => model[e] <= 1 + attempts[e][c]

\* Until somebody rebuilds, an event is counted once more only after an attempt
\* at it has failed, however often operators stop, start and pause (dispatch and
\* handleWithRetry, projection-orchestrator.ts and projection.base.ts).
THEOREM CountedAgainAfterFailure ==
    ASSUME ~AutoRebuild PROVE Spec => []OnceAndPerFailure
<1>1. DispatchInv => OnceAndPerFailure
  <2> SUFFICES ASSUME CountsTyped, Quiet, NEW e \in Events, NEW c \in Starters,
                      live[e][c] # "none"
               PROVE  model[e] <= 1 + attempts[e][c]
    BY DEF DispatchInv, OnceAndPerFailure
  <2>1. model[e] <= attempts[e][c] + (IF live[e][c] \in {"touch", "done"} THEN 1 ELSE 0)
    BY DEF Quiet, Accounted
  <2> QED  BY <2>1 DEF CountsTyped
<1>2. DispatchInv /\ [Next]_vars => DispatchInv'
  BY DispatchStep
<1> QED  BY <1>1, <1>2, InitialDispatch, PTL DEF Spec

-----------------------------------------------------------------------------
(* Numbers and pages. *)

LEMMA DivMod ==
    ASSUME NEW a \in Nat, NEW b \in Nat \ {0} PROVE a = (b * (a \div b)) + (a % b)
  OBVIOUS

LEMMA SmallMultiple ==
    ASSUME NEW b \in Nat \ {0}, NEW q \in Int, NEW r \in 0 .. b - 1, b * q = r PROVE r = 0
<1>1. CASE q <= 0
  BY <1>1
<1>2. CASE q >= 1
  BY <1>2
<1> QED  BY <1>1, <1>2

\* The offset behind a full page is again a multiple of the page's size.
LEMMA FullPage ==
    ASSUME NEW a \in Nat, NEW b \in Nat \ {0}, a % b = 0 PROVE (a + b) % b = 0
<1> DEFINE p == a \div b
           q == (a + b) \div b
           r == (a + b) % b
<1>1. p \in Int /\ q \in Int /\ r \in 0 .. b - 1
  OBVIOUS
<1>2. a = b * p
  BY DivMod
<1>3. a + b = (b * q) + r
  <2>1. a + b \in Nat
    OBVIOUS
  <2> QED  BY <2>1, DivMod
<1> HIDE DEF p, q, r
<1>4. b * (p + 1 - q) = r /\ p + 1 - q \in Int
  BY <1>1, <1>2, <1>3
<1>5. r = 0
  BY <1>1, <1>4, SmallMultiple
<1> QED  BY <1>5 DEF r

\* A finite set of stored events that is not empty has an earliest one.
LEMMA Earliest ==
    ASSUME IsFiniteSet(store), store \subseteq Nat, NEW rest \in SUBSET store, rest # {}
    PROVE  \E m \in rest : \A k \in rest : m <= k
<1> DEFINE before(e) == { k \in store : k < e }
           all == { before(e) : e \in rest }
<1>1. all \subseteq FiniteSubsetsOf(store) /\ all # {}
  <2>1. ASSUME NEW e \in rest PROVE before(e) \in FiniteSubsetsOf(store)
    <3>1. before(e) \in SUBSET store
      OBVIOUS
    <3> QED  BY <3>1, FS_Subset DEF FiniteSubsetsOf
  <2> QED  BY <2>1
<1>2. \E x \in all : \A y \in all : ~(<<y, x>> \in StrictSubsetOrdering(store))
  BY <1>1, FS_StrictSubsetOrderingWellFounded, WFMin
<1>3. PICK m \in rest : \A y \in all : ~(<<y, before(m)>> \in StrictSubsetOrdering(store))
  BY <1>2
<1>4. ASSUME NEW k \in rest PROVE m <= k
  <2> SUFFICES ASSUME k < m PROVE FALSE
    BY k \in Nat, m \in Nat
  <2>1. before(k) \subseteq before(m) /\ k \in before(m) /\ k \notin before(k)
    <3>1. ASSUME NEW j \in store, j < k PROVE j < m
      BY <3>1, j \in Nat, k \in Nat, m \in Nat
    <3>2. k \in before(m) /\ k \notin before(k)
      BY k \in Nat
    <3>3. before(k) \subseteq before(m)
      BY <3>1
    <3> QED  BY <3>2, <3>3
  <2>2. <<before(k), before(m)>> \in StrictSubsetOrdering(store)
    BY <2>1 DEF StrictSubsetOrdering
  <2> QED  BY <1>3, <2>2
<1> QED  BY <1>4

LEMMA PositionGrows ==
    ASSUME IsFiniteSet(store), store \subseteq Nat, NEW e \in store
    PROVE  /\ Position(e) \in Nat
           /\ \A k \in store : k < e => Position(k) < Position(e)
<1>1. ASSUME NEW k \in store
      PROVE  IsFiniteSet({ j \in store : j < k }) /\ Position(k) \in Nat
  BY FS_Subset, FS_CardinalityType DEF Position
<1>2. ASSUME NEW k \in store, k < e PROVE Position(k) < Position(e)
  <2>1. { j \in store : j < k } \in SUBSET { j \in store : j < e }
    <3>1. ASSUME NEW j \in store, j < k PROVE j < e
      BY <1>2, <3>1, j \in Nat, k \in Nat, e \in Nat
    <3> QED  BY <3>1
  <2>2. { j \in store : j < k } # { j \in store : j < e }
    <3>1. k \in { j \in store : j < e } /\ k \notin { j \in store : j < k }
      BY <1>2, k \in Nat
    <3> QED  BY <3>1
  <2>3. Position(k) <= Position(e) /\ Position(k) # Position(e)
    <3>1. IsFiniteSet({ j \in store : j < e })
      BY <1>1
    <3> QED  BY <2>1, <2>2, <3>1, FS_Subset DEF Position
  <2>4. Position(k) \in Nat /\ Position(e) \in Nat
    BY <1>1
  <2> QED  BY <2>3, <2>4
<1> QED  BY <1>1, <1>2

\* The events that have been read: the first ones of the store.
IsPrefix(read) ==
    /\ read \subseteq store
    /\ \A e \in read, k \in store : k < e => k \in read

\* A page that is read behind a prefix makes a longer prefix; a page that is not
\* full is the last.
LEMMA NextPage ==
    ASSUME IsFiniteSet(store), store \subseteq Nat, NEW read, IsPrefix(read),
           Batch \in Nat \ {0}
    PROVE  LET rows == Page(Cardinality(read)) IN
           /\ Cardinality(read) \in Nat
           /\ rows \cap read = {}
           /\ IsPrefix(read \cup rows)
           /\ IsFiniteSet(rows)
           /\ Cardinality(read \cup rows) = Cardinality(read) + Cardinality(rows)
           /\ Cardinality(rows) \in 0 .. Batch
           /\ Cardinality(rows) < Batch => read \cup rows = store
<1> DEFINE n == Cardinality(read)
           rows == Page(n)
<1>1. IsFiniteSet(read) /\ n \in Nat
  BY FS_Subset, FS_CardinalityType DEF IsPrefix
<1>2. rows \subseteq store /\ IsFiniteSet(rows) /\ Cardinality(rows) \in Nat
  BY FS_Subset, FS_CardinalityType DEF Page
<1>3. ASSUME NEW e \in read PROVE Position(e) < n
  <2>1. { k \in store : k < e } \in SUBSET read /\ e \in read /\ e \in Nat
    BY DEF IsPrefix
  <2>2. { k \in store : k < e } # read
    BY <2>1
  <2>3. Position(e) <= n /\ Position(e) # n /\ Position(e) \in Nat
    BY <1>1, <2>1, <2>2, FS_Subset, FS_CardinalityType DEF Position
  <2> QED  BY <1>1, <2>3
<1>4. ASSUME NEW e \in store \ read PROVE Position(e) >= n
  <2>1. read \in SUBSET { k \in store : k < e }
    <3>1. ASSUME NEW b \in read PROVE b < e
      BY b \in store, e \in Nat, b \in Nat, b # e DEF IsPrefix
    <3> QED  BY <3>1 DEF IsPrefix
  <2>2. IsFiniteSet({ k \in store : k < e })
    BY FS_Subset
  <2> QED  BY <2>1, <2>2, FS_Subset DEF Position
<1>5. rows \cap read = {}
  <2> SUFFICES ASSUME NEW e \in read, e \in rows PROVE FALSE
    OBVIOUS
  <2>1. Position(e) \in n .. n + Batch - 1
    BY DEF Page
  <2> QED  BY <1>1, <1>3, <2>1
<1>6. IsPrefix(read \cup rows)
  <2>1. ASSUME NEW e \in rows, NEW k \in store \ read, k < e PROVE k \in rows
    <3>1. Position(k) \in Nat /\ Position(e) \in Nat /\ Position(k) < Position(e)
      BY <1>2, <2>1, PositionGrows
    <3>2. Position(k) >= n /\ Position(e) <= n + Batch - 1
      BY <1>4, <2>1 DEF Page
    <3> QED  BY <1>1, <3>1, <3>2 DEF Page
  <2> QED  BY <1>2, <2>1 DEF IsPrefix
<1>7. Cardinality(read \cup rows) = n + Cardinality(rows)
  <2>1. Cardinality(read \cup rows) = n + Cardinality(rows) - Cardinality(read \cap rows)
    BY <1>1, <1>2, FS_Union
  <2>2. Cardinality(read \cap rows) = 0
    BY <1>5, FS_EmptySet
  <2> QED  BY <1>1, <1>2, <2>1, <2>2
<1>8. Cardinality(rows) <= Batch
  <2> DEFINE f == [e \in rows |-> Position(e)]
  <2>1. f \in Injection(rows, n .. n + Batch - 1)
    <3>1. f \in [rows -> n .. n + Batch - 1]
      BY DEF Page
    <3>2. ASSUME NEW a \in rows, NEW b \in rows, f[a] = f[b] PROVE a = b
      <4>1. a \in Nat /\ b \in Nat /\ a \in store /\ b \in store
        BY <1>2
      <4>2. Position(a) = Position(b) /\ Position(a) \in Nat
        BY <3>2, <4>1, PositionGrows
      <4>3. ~(a < b) /\ ~(b < a)
        BY <4>1, <4>2, PositionGrows
      <4> QED  BY <4>1, <4>3
    <3> QED  BY <3>1, <3>2 DEF Injection, IsInjective
  <2>2. IsFiniteSet(n .. n + Batch - 1) /\ Cardinality(n .. n + Batch - 1) = Batch
    BY <1>1, FS_Interval
  <2> QED  BY <2>1, <2>2, FS_Injection
<1>9. ASSUME Cardinality(rows) < Batch PROVE read \cup rows = store
  <2> SUFFICES ASSUME store \ (read \cup rows) # {} PROVE FALSE
    BY <1>2 DEF IsPrefix
  <2>1. PICK m \in store \ (read \cup rows) : \A k \in store \ (read \cup rows) : m <= k
    BY Earliest
  <2>2. { k \in store : k < m } = read \cup rows
    <3>1. ASSUME NEW k \in store, k < m PROVE k \in read \cup rows
      BY <2>1, <3>1, k \in Nat, m \in Nat
    <3>2. ASSUME NEW k \in read \cup rows PROVE k \in store /\ k < m
      BY <1>2, <1>6, <2>1, k \in Nat, m \in Nat, k # m DEF IsPrefix
    <3> QED  BY <3>1, <3>2
  <2>3. Position(m) = n + Cardinality(rows)
    BY <1>7, <2>2 DEF Position
  <2>4. m \in rows
    BY <1>1, <1>2, <1>9, <2>3 DEF Page
  <2> QED  BY <2>1, <2>4
<1> QED  BY <1>1, <1>2, <1>5, <1>6, <1>7, <1>8, <1>9

-----------------------------------------------------------------------------
(* A single rebuild, alone or at the start of the synchronisation. *)

ReplayTyped ==
    /\ CountsTyped
    /\ store \subseteq Events /\ IsFiniteSet(store)
    /\ offset \in [Calls -> Nat]
    /\ page \in [Calls -> SUBSET Events]
    /\ known \in [Calls -> SUBSET Events]
    /\ failures \in 0 .. MaxFailures

Read(c) == { e \in Events : model[e] # 0 } \cup page[c]

\* Before the read model has been cleared nothing has been read, and before the
\* call nothing has happened.
NothingRead(c) ==
    /\ call[c] \in {"idle", "clear"} => offset[c] = 0 /\ page[c] = {}
    /\ call[c] = "idle" => known[c] = {}

\* What has been counted and what is on the page are the first events of the
\* store, as many as the offset says; behind a page that was not full there is
\* nothing left of what the rebuild started with.
Replaying(c) ==
    call[c] \in {"fetch", "rows", "touch"} =>
        /\ IsPrefix(Read(c))
        /\ Cardinality(Read(c)) = offset[c]
        /\ \A e \in page[c] : model[e] = 0
        /\ call[c] = "fetch" => page[c] = {} /\ offset[c] % Batch = 0
        /\ call[c] = "rows" /\ page[c] = {} => offset[c] % Batch # 0
        /\ offset[c] % Batch # 0 => known[c] \subseteq Read(c)

Replayed(c) ==
    call[c] \in {"subscribe", "done"} => \A e \in known[c] : model[e] = 1

\* The live dispatch handles later events only, none of them counted before.
LiveAfter(c) ==
    /\ subscribed # {} => call[c] = "done"
    /\ \A e \in Events, s \in Starters : live[e][s] # "none" =>
           call[c] = "done" /\ e \in store \ known[c] /\ live[e][s] # "retry"
    /\ \A e \in Events, s \in Starters : live[e][s] \in {"called", "handling"} => model[e] = 0

Counted ==
    \A e \in Events : model[e] \in {0, 1} /\ (model[e] # 0 => e \in store)

Replay(c) ==
    /\ known[c] \subseteq store
    /\ NothingRead(c)
    /\ Replaying(c)
    /\ Replayed(c)
    /\ LiveAfter(c)
    /\ Counted

ReplayInv == ReplayTyped /\ (failures = 0 => \A c \in Calls : Replay(c))

LEMMA InitialReplay == Init => ReplayInv
<1> SUFFICES ASSUME Init PROVE ReplayInv
  OBVIOUS
<1>1. ReplayTyped
  BY FS_EmptySet, FailuresAssumption DEF Init, ReplayTyped, CountsTyped
<1>2. ASSUME NEW c \in Calls PROVE Replay(c)
  BY DEF Init, Replay, NothingRead, Replaying, Replayed, LiveAfter, Counted
<1> QED  BY <1>1, <1>2 DEF ReplayInv

\* Types of all steps.
LEMMA ReplayTypes == ReplayTyped /\ Next => ReplayTyped'
<1> SUFFICES ASSUME ReplayTyped, Next PROVE ReplayTyped'
  OBVIOUS
<1>1. ASSUME NEW e \in Events, AppendEvent(e) PROVE ReplayTyped'
  <2>1. CountsTyped'
    BY <1>1 DEF AppendEvent, ReplayTyped, CountsTyped
  <2>2. store' \subseteq Events /\ IsFiniteSet(store')
    BY <1>1, FS_AddElement DEF AppendEvent, ReplayTyped
  <2> QED  BY <1>1, <2>1, <2>2 DEF AppendEvent, ReplayTyped, streamVars, syncVars
<1>2. CASE StopSync \/ Pause \/ Resume \/ Stop
  BY <1>2 DEF ReplayTyped, CountsTyped, StopSync, SetStatus, Pause, Resume, Stop, streamVars,
              syncVars, liveVars
<1>3. ASSUME NEW c \in Calls, StartSync(c) \/ Rebuild(c) \/ CallStep(c) \/ RebuildFails(c)
      PROVE  ReplayTyped'
  <2>1. CountsTyped'
    BY <1>3, RebuildTyped DEF ReplayTyped
  <2>2. CASE StartSync(c) \/ Rebuild(c)
    <3>1. UNCHANGED <<store, failures, offset, page>>
      BY <2>2 DEF StartSync, Rebuild, BeginRebuild, streamVars
    <3>2. known' \in [Calls -> SUBSET Events]
      BY <2>2 DEF StartSync, Rebuild, BeginRebuild, streamVars, ReplayTyped
    <3> QED  BY <2>1, <3>1, <3>2 DEF ReplayTyped
  <2>3. CASE Fetch(c)
    <3>1. Page(offset[c]) \subseteq Events /\ Cardinality(Page(offset[c])) \in Nat
      BY FS_Subset, FS_CardinalityType DEF ReplayTyped, Page
    <3> QED  BY <2>1, <2>3, <3>1 DEF Fetch, ReplayTyped, syncVars
  <2>4. CASE CountRow(c)
    BY <2>1, <2>4 DEF CountRow, ReplayTyped, syncVars
  <2>5. CASE RebuildFails(c)
    BY <2>1, <2>5, FailuresAssumption DEF RebuildFails, Failure, ReplayTyped, streamVars, syncVars
  <2>6. CASE SubscribeAfterRebuild(c)
    BY <2>1, <2>6 DEF SubscribeAfterRebuild, Subscribe, ReplayTyped, streamVars
  <2>7. CASE Clear(c) \/ TouchRow(c) \/ FinishRebuild(c)
    BY <2>1, <2>7 DEF Clear, TouchRow, FinishRebuild, ReplayTyped, streamVars, syncVars
  <2> QED  BY <1>3, <2>2, <2>3, <2>4, <2>5, <2>6, <2>7 DEF CallStep
<1>4. ASSUME NEW e \in Events, NEW c \in Starters, LiveStep(e, c) \/ Fail(e, c)
      PROVE  ReplayTyped'
  <2>1. CountsTyped'
    BY <1>4, DispatchTyped DEF ReplayTyped
  <2>2. UNCHANGED <<store, streamVars, syncVars>> /\ failures' \in 0 .. MaxFailures
    BY <1>4, FailuresAssumption DEF LiveStep, Handle, Count, Touch, Fail, Failure, ReplayTyped
  <2> QED  BY <2>1, <2>2 DEF ReplayTyped, streamVars, syncVars
<1> QED  BY <1>1, <1>2, <1>3, <1>4 DEF Next

Single == \E c : Calls = {c}

\* An event that is stored comes after all others.
LEMMA AppendReplay ==
    ASSUME AppendInOrder, ReplayTyped, NEW c \in Calls, Replay(c),
           NEW e \in Events, AppendEvent(e)
    PROVE  Replay(c)'
<1>1. /\ e \notin store /\ store' = store \cup {e} /\ \A k \in store : k < e
      /\ UNCHANGED <<model, call, known, offset, page, subscribed>>
  BY DEF AppendEvent, streamVars, syncVars
<1>2. /\ \A k \in Events \ {e} : live'[k] = live[k]
      /\ \A s \in Starters : live'[e][s] # "none" => subscribed # {} /\ live'[e][s] = "called"
  <2>1. \A s \in Starters : live[e][s] = "none"
    BY <1>1 DEF Replay, LiveAfter
  <2> QED  BY <2>1 DEF AppendEvent, ReplayTyped, CountsTyped
<1>3. Replaying(c)'
  <2>1. Read(c)' = Read(c)
    BY <1>1 DEF Read
  <2>2. IsPrefix(Read(c)) => IsPrefix(Read(c))'
    <3> SUFFICES ASSUME IsPrefix(Read(c)), NEW a \in Read(c), NEW k \in store', k < a
                 PROVE  k \in Read(c)
      BY <1>1, <2>1 DEF IsPrefix
    <3>1. a \in store /\ a \in Nat /\ e \in Nat /\ a < e
      BY <1>1, EventsAssumption DEF IsPrefix, ReplayTyped
    <3>2. k # e
      BY <3>1
    <3> QED  BY <1>1, <3>2 DEF IsPrefix
  <2> QED  BY <1>1, <2>1, <2>2 DEF Replay, Replaying
<1>4. LiveAfter(c)'
  <2>1. model[e] = 0
    BY <1>1 DEF Replay, Counted
  <2> QED  BY <1>1, <1>2, <2>1 DEF Replay, LiveAfter
<1> QED
  BY <1>1, <1>3, <1>4 DEF Replay, NothingRead, Replayed, Counted

\* Operators end a subscription, and change nothing else that matters here.
LEMMA OperatorsReplay ==
    ASSUME NEW c \in Calls, Replay(c), StopSync \/ Pause \/ Resume \/ Stop PROVE Replay(c)'
<1>1. UNCHANGED <<store, model, call, known, offset, page, live>>
  BY DEF StopSync, SetStatus, Pause, Resume, Stop, streamVars, liveVars
<1>2. subscribed' \subseteq subscribed
  BY DEF StopSync, SetStatus, Pause, Resume, Stop, syncVars
<1> QED
  BY <1>1, <1>2 DEF Replay, NothingRead, Replaying, Read, IsPrefix, Replayed, LiveAfter, Counted

LEMMA CallReplay ==
    ASSUME ReplayTyped, NEW c \in Calls, Replay(c), StartSync(c) \/ Rebuild(c)
    PROVE  Replay(c)'
<1>1. call[c] = "idle" /\ UNCHANGED <<store, model, live, offset, page>>
  BY DEF StartSync, Rebuild, At, liveVars, streamVars, BeginRebuild
<1>2. \/ call' = [call EXCEPT ![c] = "clear"] /\ known' = [known EXCEPT ![c] = store]
         /\ subscribed' = subscribed
      \/ call' = [call EXCEPT ![c] = "done"] /\ known' = known
  BY DEF StartSync, Rebuild, BeginRebuild, Goto, streamVars, syncVars
<1>3. known'[c] \subseteq store /\ call'[c] \in {"clear", "done"}
  BY <1>1, <1>2 DEF Replay, ReplayTyped, CountsTyped
<1>4. \A e \in Events, s \in Starters : live[e][s] = "none"
  BY <1>1 DEF Replay, LiveAfter
<1>5. call'[c] = "done" => known'[c] = {}
  BY <1>1, <1>2 DEF Replay, NothingRead, ReplayTyped, CountsTyped
<1>6. subscribed' # {} => call'[c] = "done"
  BY <1>1, <1>2 DEF Replay, LiveAfter, ReplayTyped, CountsTyped
<1>7. NothingRead(c)' /\ Replaying(c)' /\ Replayed(c)'
  BY <1>1, <1>3, <1>5 DEF Replay, NothingRead, Replaying, Replayed
<1> QED
  BY <1>1, <1>3, <1>4, <1>6, <1>7 DEF Replay, LiveAfter, Counted

\* The page is read behind what has been counted.
LEMMA FetchReplay ==
    ASSUME ReplayTyped, NEW c \in Calls, Replay(c), Fetch(c) PROVE Replay(c)'
<1> DEFINE rows == Page(offset[c])
<1>1. /\ call[c] = "fetch" /\ call' = [call EXCEPT ![c] = "rows"] /\ rows # {}
      /\ page' = [page EXCEPT ![c] = rows]
      /\ offset' = [offset EXCEPT ![c] = offset[c] + Cardinality(rows)]
      /\ UNCHANGED <<store, model, known, subscribed, live>>
  BY DEF Fetch, At, Goto, syncVars, liveVars
<1>2. /\ IsPrefix(Read(c)) /\ Cardinality(Read(c)) = offset[c]
      /\ page[c] = {} /\ offset[c] % Batch = 0
  BY <1>1 DEF Replay, Replaying
<1>3. /\ rows \cap Read(c) = {}
      /\ IsPrefix(Read(c) \cup rows)
      /\ Cardinality(Read(c) \cup rows) = offset[c] + Cardinality(rows)
      /\ Cardinality(rows) \in 0 .. Batch
      /\ Cardinality(rows) < Batch => Read(c) \cup rows = store
  BY <1>2, NextPage, EventsAssumption, RetriesAssumption DEF ReplayTyped
<1>4. rows \subseteq Events
  BY DEF Page, ReplayTyped
<1>5. Read(c)' = Read(c) \cup rows
  BY <1>1, <1>2 DEF Read, ReplayTyped
<1>6. offset'[c] % Batch # 0 => known[c] \subseteq Read(c) \cup rows
  <2>1. CASE Cardinality(rows) = Batch
    BY <1>1, <1>2, <2>1, FullPage, RetriesAssumption DEF ReplayTyped
  <2>2. CASE Cardinality(rows) < Batch
    BY <1>3, <2>2 DEF Replay
  <2> QED  BY <1>3, <2>1, <2>2, RetriesAssumption
<1>7. /\ call'[c] = "rows" /\ page'[c] = rows
      /\ offset'[c] = offset[c] + Cardinality(rows)
  BY <1>1 DEF ReplayTyped, CountsTyped
<1>8. \A e \in page'[c] : model'[e] = 0
  BY <1>1, <1>3, <1>4, <1>7 DEF Read
<1> HIDE DEF rows
<1>9. Replaying(c)'
  <2>1. IsPrefix(Read(c))'
    BY <1>1, <1>3, <1>5 DEF IsPrefix
  <2>2. Cardinality(Read(c))' = offset'[c]
    BY <1>3, <1>5, <1>7
  <2>3. known'[c] = known[c] /\ page'[c] # {}
    BY <1>1, <1>7
  <2> QED  BY <1>5, <1>6, <1>7, <1>8, <2>1, <2>2, <2>3 DEF Replaying
<1> QED
  BY <1>1, <1>7, <1>9 DEF Replay, NothingRead, Replayed, LiveAfter, Counted

\* A row moves from the page to the counts.
LEMMA CountReplay ==
    ASSUME ReplayTyped, NEW c \in Calls, Replay(c), CountRow(c) PROVE Replay(c)'
<1>1. PICK e \in page[c] : /\ model' = [model EXCEPT ![e] = @ + 1]
                           /\ page' = [page EXCEPT ![c] = @ \ {e}]
  BY DEF CountRow
<1>2. /\ call[c] = "rows" /\ call' = [call EXCEPT ![c] = "touch"]
      /\ UNCHANGED <<store, known, offset, subscribed, live>>
  BY DEF CountRow, At, Goto, syncVars, liveVars
<1>3. e \in Events /\ model[e] = 0 /\ e \in store
  BY <1>1, <1>2 DEF Replay, Replaying, ReplayTyped, IsPrefix, Read
<1>4. /\ model'[e] = 1 /\ \A k \in Events \ {e} : model'[k] = model[k]
      /\ page'[c] = page[c] \ {e} /\ call'[c] = "touch"
  BY <1>1, <1>2, <1>3 DEF ReplayTyped, CountsTyped
<1>5. Read(c)' = Read(c)
  BY <1>1, <1>3, <1>4 DEF Read
<1>6. Replaying(c)'
  <2>1. \A k \in page'[c] : model'[k] = 0
    BY <1>2, <1>4 DEF Replay, Replaying, ReplayTyped
  <2> QED  BY <1>2, <1>4, <1>5, <2>1 DEF Replay, Replaying, IsPrefix
<1>7. LiveAfter(c)' /\ Counted'
  BY <1>2, <1>3, <1>4 DEF Replay, LiveAfter, Counted
<1> QED
  BY <1>2, <1>4, <1>6, <1>7 DEF Replay, NothingRead, Replayed

\* Clearing finds nothing to clear; a full page is followed by a fetch.
LEMMA MoveReplay ==
    ASSUME ReplayTyped, NEW c \in Calls, Replay(c),
           Clear(c) \/ TouchRow(c) \/ SubscribeAfterRebuild(c)
    PROVE  Replay(c)'
<1>1. CASE Clear(c)
  <2>1. /\ call[c] = "clear" /\ call'[c] = "fetch"
        /\ UNCHANGED <<store, known, offset, page, subscribed, live>>
        /\ \A e \in Events : model'[e] = 0
    BY <1>1 DEF Clear, At, Goto, streamVars, syncVars, liveVars, ReplayTyped, CountsTyped
  <2>2. offset[c] = 0 /\ page[c] = {}
    BY <2>1 DEF Replay, NothingRead
  <2>3. Read(c)' = {} /\ Cardinality({}) = 0
    BY <2>1, <2>2, FS_EmptySet DEF Read
  <2>4. offset[c] % Batch = 0
    <3>1. 0 = (Batch * (0 \div Batch)) + (0 % Batch) /\ 0 % Batch \in 0 .. Batch - 1
      BY DivMod, RetriesAssumption
    <3>2. 0 \div Batch \in Int /\ Batch \in Nat \ {0}
      BY RetriesAssumption
    <3> QED  BY <2>2, <3>1, <3>2
  <2>5. Replaying(c)'
    BY <2>1, <2>2, <2>3, <2>4 DEF Replaying, IsPrefix
  <2>6. \A e \in Events, s \in Starters : live'[e][s] = "none"
    BY <2>1 DEF Replay, LiveAfter
  <2> QED
    BY <2>1, <2>5, <2>6 DEF Replay, NothingRead, Replayed, LiveAfter, Counted
<1>2. CASE TouchRow(c)
  <2>1. /\ call[c] = "touch"
        /\ call'[c] = IF page[c] = {} /\ offset[c] % Batch = 0 THEN "fetch" ELSE "rows"
        /\ UNCHANGED <<store, model, known, offset, page, subscribed, live>>
    BY <1>2 DEF TouchRow, At, Goto, streamVars, syncVars, liveVars, ReplayTyped, CountsTyped
  <2>2. Replaying(c)'
    BY <2>1 DEF Replay, Replaying, Read, IsPrefix
  <2> QED
    BY <2>1, <2>2 DEF Replay, NothingRead, Replayed, LiveAfter, Counted
<1>3. CASE SubscribeAfterRebuild(c)
  <2>1. /\ call[c] = "subscribe" /\ call'[c] = "done"
        /\ UNCHANGED <<store, model, known, offset, page, live>>
    BY <1>3 DEF SubscribeAfterRebuild, At, Goto, streamVars, liveVars, ReplayTyped, CountsTyped
  <2> QED
    BY <2>1 DEF Replay, NothingRead, Replaying, Replayed, LiveAfter, Counted
<1> QED  BY <1>1, <1>2, <1>3

\* Whether the last page was empty or not full, all of it has been counted.
LEMMA FinishReplay ==
    ASSUME ReplayTyped, NEW c \in Calls, Replay(c), FinishRebuild(c) PROVE Replay(c)'
<1>1. /\ call[c] \in {"fetch", "rows"} /\ call'[c] \in {"subscribe", "done"}
      /\ UNCHANGED <<store, model, known, offset, page, subscribed, live>>
  BY DEF FinishRebuild, At, Goto, AfterRebuild, streamVars, syncVars, liveVars, ReplayTyped,
         CountsTyped
<1>2. page[c] = {} /\ known[c] \subseteq Read(c)
  <2>1. CASE call[c] = "rows"
    BY <2>1 DEF FinishRebuild, At, Replay, Replaying
  <2>2. CASE call[c] = "fetch"
    <3>1. page[c] = {} /\ IsPrefix(Read(c)) /\ Cardinality(Read(c)) = offset[c]
      BY <2>2 DEF Replay, Replaying
    <3>2. Page(offset[c]) = {}
      BY <2>2 DEF FinishRebuild, At
    <3>3. Read(c) = store
      BY <3>1, <3>2, NextPage, FS_EmptySet, EventsAssumption, RetriesAssumption DEF ReplayTyped
    <3> QED  BY <3>1, <3>3 DEF Replay
  <2> QED  BY <1>1, <2>1, <2>2
<1>3. \A e \in known[c] : model[e] = 1
  BY <1>2 DEF Read, Replay, Counted
<1>4. \A e \in Events, s \in Starters : live[e][s] = "none"
  BY <1>1 DEF Replay, LiveAfter
<1>5. subscribed = {}
  BY <1>1 DEF Replay, LiveAfter
<1> QED
  BY <1>1, <1>3, <1>4, <1>5 DEF Replay, NothingRead, Replaying, Replayed, LiveAfter, Counted

\* Live events were not there for the rebuild to count.
LEMMA LiveReplay ==
    ASSUME Single, ReplayTyped, NEW c \in Calls, Replay(c), NEW e \in Events,
           NEW s \in Starters, LiveStep(e, s)
    PROVE  Replay(c)'
<1>1. UNCHANGED <<store, call, known, offset, page, subscribed>>
  BY DEF LiveStep, Handle, Count, Touch, streamVars, syncVars
<1>2. live[e][s] # "none" /\ live[e][s] # "retry" /\ call[c] = "done" /\ e \in store \ known[c]
  BY DEF LiveStep, Handle, Count, Touch, LiveAt, Replay, LiveAfter
<1>3. \A k \in Events, d \in Starters : k # e \/ d # s =>
          live'[k][d] = live[k][d] /\ \A j \in Events \ {e} : model'[j] = model[j]
  BY DispatchTyped DEF ReplayTyped
<1>4. \A d \in Starters : d = s
  BY DEF Single, Calls
<1>5. /\ live'[e][s] \notin {"none", "called", "retry"}
      /\ live'[e][s] = "handling" => model'[e] = 0
      /\ model'[e] \in {0, 1}
      /\ \A j \in Events \ {e} : model'[j] = model[j]
  <2> USE DEF ReplayTyped, CountsTyped, LiveAt, LiveGoto
  <2>1. CASE Handle(e, s)
    <3>1. /\ model' = model /\ live[e][s] = "called"
          /\ \E pc \in {"skipped", "handling"} : live' = [live EXCEPT ![e][s] = pc]
      BY <1>2, <2>1 DEF Handle
    <3>2. model[e] = 0
      BY <3>1 DEF Replay, LiveAfter
    <3> QED  BY <3>1, <3>2
  <2>2. CASE Count(e, s)
    <3>1. model[e] = 0
      BY <2>2 DEF Count, Replay, LiveAfter
    <3> QED  BY <2>2, <3>1 DEF Count
  <2>3. CASE Touch(e, s)
    BY <2>3 DEF Touch, Replay, Counted
  <2> QED  BY <2>1, <2>2, <2>3 DEF LiveStep
<1>6. LiveAfter(c)'
  BY <1>1, <1>2, <1>3, <1>4, <1>5 DEF Replay, LiveAfter
<1>7. Counted'
  BY <1>1, <1>2, <1>5 DEF Replay, Counted
<1>8. Replayed(c)' /\ Replaying(c)' /\ NothingRead(c)'
  BY <1>1, <1>2, <1>5 DEF Replay, Replayed, Replaying, NothingRead, ReplayTyped
<1> QED  BY <1>1, <1>6, <1>7, <1>8 DEF Replay

LEMMA ReplayStep ==
    ASSUME AppendInOrder, Single, ReplayInv, [Next]_vars PROVE ReplayInv'
<1>1. CASE UNCHANGED vars
  <2>1. UNCHANGED <<store, model, call, known, offset, page, subscribed, live, attempts, failures>>
    BY <1>1 DEF vars, streamVars, syncVars, liveVars
  <2>2. ReplayTyped'
    BY <2>1 DEF ReplayInv, ReplayTyped, CountsTyped
  <2>3. ASSUME NEW c \in Calls, Replay(c) PROVE Replay(c)'
    <3>1. NothingRead(c)' /\ Replaying(c)'
      BY <2>1, <2>3 DEF Replay, NothingRead, Replaying, Read, IsPrefix
    <3>2. Replayed(c)' /\ LiveAfter(c)' /\ Counted'
      BY <2>1, <2>3 DEF Replay, Replayed, LiveAfter, Counted
    <3> QED  BY <2>1, <2>3, <3>1, <3>2 DEF Replay
  <2> QED  BY <2>1, <2>2, <2>3 DEF ReplayInv
<1>2. CASE Next
  <2>1. ReplayTyped /\ ReplayTyped'
    BY <1>2, ReplayTypes DEF ReplayInv
  <2>2. SUFFICES ASSUME failures' = 0, NEW c \in Calls PROVE Replay(c)'
    BY <2>1 DEF ReplayInv
  <2>3. ASSUME failures' = failures + 1 PROVE FALSE
    BY <2>1, <2>2, <2>3, FailuresAssumption DEF ReplayTyped
  <2>4. failures = 0
    <3>1. failures' = failures \/ failures' = failures + 1
      BY <1>2 DEF Next, AppendEvent, StopSync, SetStatus, Pause, Resume, Stop, StartSync, Rebuild,
                  CallStep, SubscribeAfterRebuild, Clear, Fetch, CountRow, TouchRow, FinishRebuild,
                  RebuildFails, LiveStep, Handle, Count, Touch, Fail, Failure
    <3> QED  BY <2>2, <2>3, <3>1
  <2>5. Replay(c)
    BY <2>4 DEF ReplayInv
  <2>6. ASSUME NEW e \in Events, AppendEvent(e) PROVE Replay(c)'
    BY <2>1, <2>5, <2>6, AppendReplay
  <2>7. CASE StopSync \/ Pause \/ Resume \/ Stop
    BY <2>5, <2>7, OperatorsReplay
  <2>8. ASSUME NEW d \in Calls, StartSync(d) \/ Rebuild(d) \/ CallStep(d) \/ RebuildFails(d)
        PROVE  Replay(c)'
    <3>1. c = d
      BY DEF Single
    <3>2. CASE StartSync(c) \/ Rebuild(c)
      BY <2>1, <2>5, <3>2, CallReplay
    <3>3. CASE CallStep(c)
      BY <2>1, <2>5, <3>3, MoveReplay, FetchReplay, CountReplay, FinishReplay DEF CallStep
    <3>4. CASE RebuildFails(c)
      BY <2>3, <3>4 DEF RebuildFails, Failure
    <3> QED  BY <2>8, <3>1, <3>2, <3>3, <3>4
  <2>9. ASSUME NEW e \in Events, NEW s \in Starters, LiveStep(e, s) \/ Fail(e, s)
        PROVE  Replay(c)'
    <3>1. CASE LiveStep(e, s)
      BY <2>1, <2>5, <3>1, LiveReplay
    <3>2. CASE Fail(e, s)
      BY <2>3, <3>2 DEF Fail, Failure
    <3> QED  BY <2>9, <3>1, <3>2
  <2> QED  BY <1>2, <2>6, <2>7, <2>8, <2>9 DEF Next
<1> QED  BY <1>1, <1>2

LEMMA AlwaysReplay ==
    ASSUME AppendInOrder, Single PROVE Spec => []ReplayInv
<1>1. ReplayInv /\ [Next]_vars => ReplayInv'
  BY ReplayStep
<1> QED  BY <1>1, InitialReplay, PTL DEF Spec

\* A rebuild that pages by OFFSET through a store which grows at its end counts
\* every event it started with exactly once (streamAllEvents and rebuild,
\* projection.base.ts), for any number of events and any size of a page.
THEOREM RebuildExact ==
    ASSUME AppendInOrder, Single PROVE Spec => []RebuiltExactly
<1>1. ReplayInv => RebuiltExactly
  BY DEF ReplayInv, Replay, Replayed, RebuiltExactly
<1> QED  BY <1>1, AlwaysReplay, PTL

\* Without failures nothing is counted twice, by the rebuild at the start and the
\* live dispatch after it together (startRealtimeSync, projection-orchestrator.ts).
THEOREM CountedOnce ==
    ASSUME AppendInOrder, Single, MaxFailures = 0 PROVE Spec => []NeverTwice
<1>1. ReplayInv => NeverTwice
  <2> SUFFICES ASSUME ReplayTyped, \A c \in Calls : Replay(c) PROVE NeverTwice
    BY DEF ReplayInv, ReplayTyped
  <2>1. PICK c \in Calls : TRUE
    BY DEF Single
  <2> QED  BY DEF Replay, Counted, NeverTwice
<1> QED  BY <1>1, AlwaysReplay, PTL

-----------------------------------------------------------------------------
(* Types, whatever is started, rebuilt, operated and failing at once. *)

\* Before it is dispatched an event has failed nowhere, and a dispatch that goes
\* on has attempts left.
AttemptsLeft ==
    \A e \in Events, c \in Starters :
        /\ attempts[e][c] <= MaxRetries * DispatchRetries
        /\ e \notin store => live[e][c] = "none"
        /\ live[e][c] \in {"none", "called", "handling", "touch", "retry"} =>
               attempts[e][c] < MaxRetries * DispatchRetries

\* No call has read more rows than there are.
OffsetInStore == \A c \in Calls : offset[c] <= Cardinality(store)

LifeTyped ==
    /\ status \in Statuses
    /\ errors \in Nat
    /\ isRunning \in BOOLEAN
    /\ unsubscribe \in Starters \cup {Nobody}
    /\ subscribed \in SUBSET Starters

\* Only a start goes on to subscribe.
StartersSubscribe == \A c \in Calls : call[c] = "subscribe" => c \in Starters

Typed == ReplayTyped /\ AttemptsLeft /\ OffsetInStore /\ LifeTyped /\ StartersSubscribe

LEMMA ProductPositive ==
    ASSUME NEW a \in Nat \ {0}, NEW b \in Nat \ {0} PROVE a * b \in Nat \ {0}
  OBVIOUS

LEMMA MultipleHasNoRest ==
    ASSUME NEW a \in Nat \ {0}, NEW b \in Nat \ {0} PROVE (a * b) % a = 0
<1> DEFINE q == (a * b) \div a
           r == (a * b) % a
<1>1. a * b \in Nat
  BY ProductPositive
<1>2. q \in Int /\ r \in 0 .. a - 1
  BY <1>1
<1>3. a * b = (a * q) + r
  BY <1>1, DivMod
<1> HIDE DEF q, r
<1>4. a * (b - q) = r /\ b - q \in Int
  BY <1>1, <1>2, <1>3
<1>5. r = 0
  BY <1>2, <1>4, SmallMultiple
<1> QED  BY <1>5 DEF r

\* The rows of a page are some of those behind its offset.
LEMMA PageFits ==
    ASSUME IsFiniteSet(store), store \subseteq Nat, NEW from \in 0 .. Cardinality(store)
    PROVE  /\ Cardinality(Page(from)) \in Nat
           /\ from + Cardinality(Page(from)) <= Cardinality(store)
<1> DEFINE all == Cardinality(store)
           behind == from .. all - 1
           position == [e \in Page(from) |-> Position(e)]
<1>1. all \in Nat /\ from \in Nat /\ IsFiniteSet(Page(from)) /\ Cardinality(Page(from)) \in Nat
  BY FS_Subset, FS_CardinalityType DEF Page
<1>2. ASSUME NEW e \in store PROVE Position(e) \in Nat /\ Position(e) < all
  <2>1. { k \in store : k < e } \in SUBSET store /\ e \notin { k \in store : k < e }
    <3>1. ~(e < e)
      BY e \in Nat
    <3> QED  BY <3>1
  <2>2. Position(e) <= all /\ Position(e) # all
    BY <2>1, FS_Subset DEF Position
  <2> QED  BY <1>1, <2>2, PositionGrows
<1>3. position \in Injection(Page(from), behind)
  <2>1. position \in [Page(from) -> behind]
    <3> SUFFICES ASSUME NEW e \in Page(from) PROVE Position(e) \in behind
      OBVIOUS
    <3>1. e \in store /\ Position(e) >= from
      BY RetriesAssumption, <1>1, <1>2 DEF Page
    <3> QED  BY <1>1, <1>2, <3>1
  <2>2. ASSUME NEW a \in Page(from), NEW b \in Page(from), position[a] = position[b] PROVE a = b
    <3>1. a \in store /\ b \in store /\ a \in Nat /\ b \in Nat
      BY DEF Page
    <3>2. Position(a) = Position(b) /\ Position(a) \in Nat
      BY <1>2, <2>2, <3>1
    <3>3. ~(a < b) /\ ~(b < a)
      BY <3>1, <3>2, PositionGrows
    <3> QED  BY <3>1, <3>3
  <2> QED  BY <2>1, <2>2 DEF Injection, IsInjective
<1>4. IsFiniteSet(behind) /\ Cardinality(behind) = all - from
  <2>1. from \in Int /\ all - 1 \in Int
    BY <1>1
  <2>2. IsFiniteSet(behind)
        /\ Cardinality(behind) = IF from > all - 1 THEN 0 ELSE (all - 1) - from + 1
    BY <2>1, FS_Interval
  <2> QED  BY <1>1, <2>2
<1>5. Cardinality(Page(from)) <= Cardinality(behind)
  BY <1>3, <1>4, FS_Injection
<1> QED  BY <1>1, <1>4, <1>5

LEMMA LifeStep ==
    ASSUME LifeTyped, StartersSubscribe, CountsTyped, Next
    PROVE  LifeTyped' /\ StartersSubscribe'
<1> USE DEF LifeTyped, Statuses, StartersSubscribe, CountsTyped, At, Goto
<1>1. CASE \E e \in Events : AppendEvent(e)
  BY <1>1 DEF AppendEvent, syncVars
<1>2. CASE StopSync \/ Pause \/ Resume \/ Stop
  BY <1>2 DEF StopSync, Pause, Resume, Stop, SetStatus, syncVars
<1>3. ASSUME NEW c \in Calls, StartSync(c) \/ Rebuild(c)
      PROVE  LifeTyped' /\ StartersSubscribe'
  <2>1. StartersSubscribe'
    BY <1>3 DEF StartSync, Rebuild, BeginRebuild
  <2>2. status' \in Statuses /\ errors' \in Nat
    BY <1>3 DEF StartSync, Rebuild, BeginRebuild
  <2>3. CASE UNCHANGED syncVars
    BY <2>1, <2>2, <2>3 DEF syncVars
  <2>4. CASE c \in Starters /\ Subscribe(c)
    BY <2>1, <2>2, <2>4 DEF Subscribe
  <2> QED  BY <1>3, <2>3, <2>4 DEF StartSync, Rebuild
<1>4. ASSUME NEW c \in Calls, SubscribeAfterRebuild(c) PROVE LifeTyped' /\ StartersSubscribe'
  <2>1. c \in Starters
    BY <1>4 DEF SubscribeAfterRebuild
  <2> QED  BY <1>4, <2>1 DEF SubscribeAfterRebuild, Subscribe
<1>5. ASSUME NEW c \in Calls,
             Clear(c) \/ Fetch(c) \/ CountRow(c) \/ TouchRow(c) \/ FinishRebuild(c) \/ RebuildFails(c)
      PROVE  LifeTyped' /\ StartersSubscribe'
  BY <1>5 DEF Clear, Fetch, CountRow, TouchRow, FinishRebuild, RebuildFails, AfterRebuild, syncVars
<1>6. ASSUME NEW e \in Events, NEW c \in Starters, LiveStep(e, c) \/ Fail(e, c)
      PROVE  LifeTyped' /\ StartersSubscribe'
  <2>1. StartersSubscribe' /\ UNCHANGED syncVars
    BY <1>6 DEF LiveStep, Handle, Count, Touch, Fail
  <2>2. status' \in Statuses /\ errors' \in Nat
    BY <1>6 DEF LiveStep, Handle, Count, Touch, Fail
  <2> QED  BY <2>1, <2>2 DEF syncVars
<1> QED  BY <1>1, <1>2, <1>3, <1>4, <1>5, <1>6 DEF Next, CallStep

LEMMA OffsetStep ==
    ASSUME ReplayTyped, OffsetInStore, Next PROVE OffsetInStore'
<1> USE DEF OffsetInStore
<1>0. IsFiniteSet(store) /\ store \subseteq Nat /\ Cardinality(store) \in Nat
  BY EventsAssumption, FS_CardinalityType DEF ReplayTyped
<1>1. ASSUME NEW e \in Events, AppendEvent(e) PROVE OffsetInStore'
  <2>1. Cardinality(store') = Cardinality(store) + 1
    BY <1>0, <1>1, FS_AddElement DEF AppendEvent
  <2>2. \A c \in Calls : offset'[c] = offset[c] /\ offset[c] \in Nat
    BY <1>1 DEF AppendEvent, streamVars, ReplayTyped
  <2> QED  BY <1>0, <2>1, <2>2
<1>2. ASSUME NEW c \in Calls, Fetch(c) PROVE OffsetInStore'
  <2>1. offset[c] \in 0 .. Cardinality(store)
    BY <1>0 DEF ReplayTyped
  <2>2. offset[c] + Cardinality(Page(offset[c])) <= Cardinality(store)
    BY <1>0, <2>1, PageFits
  <2>3. store' = store
        /\ \A d \in Calls : offset'[d] = IF d = c THEN offset[c] + Cardinality(Page(offset[c]))
                                         ELSE offset[d]
    BY <1>2 DEF Fetch, ReplayTyped
  <2> QED  BY <2>2, <2>3
<1>3. CASE UNCHANGED <<offset, store>>
  BY <1>3
<1> QED
  BY <1>1, <1>2, <1>3 DEF Next, CallStep, LiveStep, StopSync, Pause, Resume, Stop, SetStatus,
       StartSync, Rebuild, BeginRebuild, SubscribeAfterRebuild, Clear, CountRow, TouchRow,
       FinishRebuild, RebuildFails, Handle, Count, Touch, Fail, streamVars

\* Each level of retries has its number of attempts, and the last failure is
\* that of the last attempt of both.
LEMMA AttemptsStep ==
    ASSUME CountsTyped, AttemptsLeft, Next PROVE AttemptsLeft'
<1> USE DEF AttemptsLeft, CountsTyped
<1> DEFINE all == MaxRetries * DispatchRetries
<1>0. all \in Nat \ {0} /\ all % MaxRetries = 0
  BY RetriesAssumption, ProductPositive, MultipleHasNoRest
<1> HIDE DEF all
<1>u. /\ \A e \in Events, c \in Starters :
            /\ attempts[e][c] \in Nat /\ attempts[e][c] <= all
            /\ e \notin store => live[e][c] = "none"
            /\ live[e][c] \in {"none", "called", "handling", "touch", "retry"} => attempts[e][c] < all
      /\ (\A e \in Events, c \in Starters :
            /\ attempts'[e][c] <= all
            /\ e \notin store' => live'[e][c] = "none"
            /\ live'[e][c] \in {"none", "called", "handling", "touch", "retry"} => attempts'[e][c] < all)
         => AttemptsLeft'
  BY DEF all
<1>1. ASSUME NEW e \in Events, AppendEvent(e) PROVE AttemptsLeft'
  <2>1. /\ store' = store \cup {e} /\ attempts' = attempts
        /\ \A k \in Events, c \in Starters :
             live'[k][c] = IF k = e /\ c \in subscribed THEN "called" ELSE live[k][c]
        /\ e \notin store
    BY <1>1 DEF AppendEvent
  <2> QED  BY <1>u, <2>1
<1>2. CASE UNCHANGED <<store, live, attempts>>
  BY <1>2, <1>u
<1>3. ASSUME NEW e \in Events, NEW c \in Starters, LiveStep(e, c) \/ Fail(e, c) PROVE AttemptsLeft'
  <2>0. live[e][c] # "none" /\ live[e][c] \in {"called", "handling", "touch", "retry"} /\ store' = store
    BY <1>3 DEF LiveStep, Handle, Count, Touch, Fail, LiveAt
  <2>1. \A k \in Events, d \in Starters : k # e \/ d # c =>
            live'[k][d] = live[k][d] /\ attempts'[k][d] = attempts[k][d]
    BY <1>3, DispatchTyped
  <2>2. CASE LiveStep(e, c)
    <3>1. attempts' = attempts
      BY <2>2 DEF LiveStep, Handle, Count, Touch
    <3> QED  BY <1>u, <2>0, <2>1, <3>1
  <2>3. CASE Fail(e, c)
    <3> DEFINE n == attempts[e][c] + 1
    <3>1. attempts[e][c] \in Nat /\ attempts[e][c] < all
      BY <1>u, <2>0
    <3>2. attempts'[e][c] = n /\ n <= all
      BY <1>0, <2>3, <3>1 DEF Fail
    <3>3. live'[e][c] = IF ~(n % MaxRetries = 0) THEN "handling"
                        ELSE IF n < all THEN "retry" ELSE "abandoned"
      BY <2>3 DEF Fail, LiveGoto, all
    <3>4. live'[e][c] = "handling" => n # all
      BY <1>0, <3>3
    <3>5. live'[e][c] \in {"handling", "retry"} => n < all
      BY <1>0, <3>1, <3>2, <3>3, <3>4
    <3>6. live'[e][c] \in {"handling", "retry", "abandoned"}
      BY <3>3
    <3> HIDE DEF n
    <3> QED  BY <1>u, <2>0, <2>1, <3>2, <3>5, <3>6
  <2> QED  BY <1>3, <2>2, <2>3
<1> QED
  BY <1>1, <1>2, <1>3 DEF Next, CallStep, StopSync, Pause, Resume, Stop, SetStatus,
       StartSync, Rebuild, BeginRebuild, SubscribeAfterRebuild, Clear, Fetch, CountRow, TouchRow,
       FinishRebuild, RebuildFails, liveVars

LEMMA AlwaysTyped == Spec => []Typed
<1>1. Init => Typed
  <2> SUFFICES ASSUME Init PROVE Typed
    OBVIOUS
  <2>1. ReplayTyped
    BY InitialReplay DEF ReplayInv
  <2>2. AttemptsLeft
    BY RetriesAssumption, ProductPositive DEF Init, AttemptsLeft
  <2>3. OffsetInStore
    BY FS_EmptySet DEF Init, OffsetInStore
  <2>4. LifeTyped /\ StartersSubscribe
    BY DEF Init, LifeTyped, StartersSubscribe, Statuses
  <2> QED  BY <2>1, <2>2, <2>3, <2>4 DEF Typed
<1>2. Typed /\ [Next]_vars => Typed'
  <2> SUFFICES ASSUME Typed, [Next]_vars PROVE Typed'
    OBVIOUS
  <2>1. CASE Next
    BY <2>1, ReplayTypes, AttemptsStep, OffsetStep, LifeStep DEF Typed, ReplayTyped
  <2>2. CASE UNCHANGED vars
    BY <2>2 DEF vars, streamVars, syncVars, liveVars, Typed, ReplayTyped, CountsTyped,
                AttemptsLeft, OffsetInStore, LifeTyped, StartersSubscribe
  <2> QED  BY <2>1, <2>2
<1> QED  BY <1>1, <1>2, PTL DEF Spec

\* The projection keeps its types for any events, calls and numbers of retries: no
\* rebuild reads past the end of the store, and the retries of handleWithRetry and
\* of the dispatch together make no more attempts than their product
\* (projection.base.ts, projection-orchestrator.ts).
THEOREM TypeCorrect == Spec => []TypeOK
<1>1. Typed => TypeOK
  <2> SUFFICES ASSUME Typed PROVE TypeOK
    OBVIOUS
  <2>1. Cardinality(store) \in Nat
    BY FS_CardinalityType DEF Typed, ReplayTyped
  <2>2. offset \in [Calls -> 0 .. Cardinality(store)]
    BY <2>1 DEF Typed, ReplayTyped, OffsetInStore
  <2>3. MaxRetries * DispatchRetries \in Nat
    BY RetriesAssumption, ProductPositive
  <2>4. attempts \in [Events -> [Starters -> 0 .. MaxRetries * DispatchRetries]]
    BY <2>3 DEF Typed, ReplayTyped, CountsTyped, AttemptsLeft
  <2> QED  BY <2>2, <2>4 DEF Typed, ReplayTyped, CountsTyped, LifeTyped, TypeOK
<1> QED  BY <1>1, AlwaysTyped, PTL

-----------------------------------------------------------------------------
(* Rebuilds, subscriptions, operators and failures together. *)

\* What a rebuild has paged through are the first events of the store, as many as
\* its offset says; a page is empty when the next one is fetched.
PagedThrough(c, read) ==
    IsPrefix(read) /\ Cardinality(read) = offset[c] /\ page[c] \subseteq read

Paging(c) ==
    /\ \E read : PagedThrough(c, read)
    /\ call[c] \in {"idle", "clear", "fetch"} => page[c] = {}

\* A beginning of the store is what comes before the position it ends at.
LEMMA PrefixIsFirst ==
    ASSUME IsFiniteSet(store), store \subseteq Nat, NEW read, IsPrefix(read), NEW e \in store
    PROVE  e \in read <=> Position(e) < Cardinality(read)
<1> DEFINE before == { k \in store : k < e }
<1>1. /\ IsFiniteSet(read) /\ Cardinality(read) \in Nat
      /\ IsFiniteSet(before) /\ Cardinality(before) \in Nat
  BY FS_Subset, FS_CardinalityType DEF IsPrefix
<1>2. ASSUME e \in read PROVE Cardinality(before) < Cardinality(read)
  <2>1. before \in SUBSET read
    BY <1>2 DEF IsPrefix
  <2>2. e \notin before
    BY e \in Nat
  <2>3. before # read
    BY <1>2, <2>2
  <2> HIDE DEF before
  <2>4. Cardinality(before) <= Cardinality(read) /\ Cardinality(before) # Cardinality(read)
    BY <1>1, <2>1, <2>3, FS_Subset
  <2> QED  BY <1>1, <2>4
<1>3. ASSUME e \notin read PROVE Cardinality(read) <= Cardinality(before)
  <2>1. ASSUME NEW k \in read PROVE k \in store /\ k < e
    <3>1. k \in store /\ ~(e < k) /\ k # e
      BY <1>3 DEF IsPrefix
    <3> QED  BY <3>1, k \in Nat, e \in Nat
  <2>2. read \in SUBSET before
    BY <2>1
  <2> QED  BY <1>1, <2>2, FS_Subset
<1> QED  BY <1>1, <1>2, <1>3 DEF Position

\* Read is what has been paged through and is not left on the page.
LEMMA ReadIsPaged ==
    ASSUME Typed, NEW c \in Calls, NEW read, PagedThrough(c, read), NEW e
    PROVE  HasRead(c, e) <=> e \in read /\ e \notin page[c]
<1>1. IsFiniteSet(store) /\ store \subseteq Nat
  BY EventsAssumption DEF Typed, ReplayTyped
<1> QED  BY <1>1, PrefixIsFirst DEF PagedThrough, IsPrefix, HasRead

\* An event that is stored comes after all others: positions stay.
LEMMA AppendPaging ==
    ASSUME Typed, AppendInOrder, NEW k \in Events, AppendEvent(k), NEW c \in Calls, Paging(c)
    PROVE  Paging(c)' /\ \A e : HasRead(c, e) => HasRead(c, e)'
<1>1. /\ k \notin store /\ store' = store \cup {k} /\ \A j \in store : j < k
      /\ UNCHANGED <<call, offset, page>>
  BY DEF AppendEvent, streamVars
<1>2. store \subseteq Nat /\ k \in Nat
  BY EventsAssumption DEF Typed, ReplayTyped
<1>3. ASSUME NEW read, IsPrefix(read) PROVE IsPrefix(read)'
  <2> SUFFICES ASSUME NEW a \in read, NEW j \in store', j < a PROVE j \in read
    BY <1>1, <1>3 DEF IsPrefix
  <2>1. a \in store /\ a \in Nat /\ a < k
    BY <1>1, <1>2, <1>3 DEF IsPrefix
  <2>2. j # k
    BY <1>2, <2>1
  <2> QED  BY <1>1, <1>3, <2>2 DEF IsPrefix
<1>4. Paging(c)'
  BY <1>1, <1>3 DEF Paging, PagedThrough
<1>5. ASSUME NEW e \in store PROVE Position(e)' = Position(e)
  <2>1. e \in Nat /\ e < k
    BY <1>1, <1>2
  <2>2. { j \in store' : j < e } = { j \in store : j < e }
    BY <1>1, <1>2, <2>1
  <2> QED  BY <2>2 DEF Position
<1> QED  BY <1>1, <1>4, <1>5 DEF HasRead

\* A page is fetched behind what has been paged through.
LEMMA FetchPaging ==
    ASSUME Typed, NEW c \in Calls, Fetch(c), Paging(c)
    PROVE  Paging(c)' /\ \A e : HasRead(c, e) => HasRead(c, e)'
<1> DEFINE rows == Page(offset[c])
<1>1. /\ call[c] = "fetch" /\ call'[c] = "rows" /\ page'[c] = rows
      /\ offset'[c] = offset[c] + Cardinality(rows) /\ store' = store
  BY DEF Fetch, At, Goto, Typed, ReplayTyped, CountsTyped
<1>2. PICK read : PagedThrough(c, read)
  BY DEF Paging
<1>3. IsFiniteSet(store) /\ store \subseteq Nat
  BY EventsAssumption DEF Typed, ReplayTyped
<1>4. page[c] = {} /\ IsPrefix(read) /\ Cardinality(read) = offset[c]
  BY <1>1, <1>2 DEF Paging, PagedThrough
<1>5. /\ rows \cap read = {} /\ IsPrefix(read \cup rows)
      /\ Cardinality(read \cup rows) = offset[c] + Cardinality(rows)
  BY <1>3, <1>4, NextPage, RetriesAssumption
<1> HIDE DEF rows
<1>6. PICK more : more = read \cup rows
  OBVIOUS
<1>9. PagedThrough(c, more)'
  BY <1>1, <1>5, <1>6 DEF PagedThrough, IsPrefix
<1>7. Paging(c)'
  BY <1>1, <1>9 DEF Paging
<1>8. ASSUME NEW e, HasRead(c, e) PROVE HasRead(c, e)'
  <2>1. e \in store /\ e \in read
    BY <1>2, <1>8, ReadIsPaged DEF HasRead
  <2>2. Position(e) < offset'[c]
    BY <1>1, <1>3, <1>5, <2>1, PrefixIsFirst
  <2>3. Position(e)' = Position(e)
    BY <1>1 DEF Position
  <2> QED  BY <1>1, <1>5, <2>1, <2>2, <2>3 DEF HasRead
<1> QED  BY <1>7, <1>8

\* A page only loses the row that is counted.
LEMMA StaysPaged ==
    ASSUME NEW c \in Calls, Paging(c), store' = store, offset'[c] = offset[c],
           page'[c] \subseteq page[c],
           call'[c] \in {"idle", "clear", "fetch"} => page'[c] = {}
    PROVE  Paging(c)' /\ \A e : HasRead(c, e) => HasRead(c, e)'
<1>1. \A e : Position(e)' = Position(e)
  BY DEF Position
<1>2. PICK read : PagedThrough(c, read)
  BY DEF Paging
<1>3. PagedThrough(c, read)'
  BY <1>2 DEF PagedThrough, IsPrefix
<1> QED  BY <1>1, <1>3 DEF Paging, HasRead

\* A rebuild keeps its place whatever the others do.
LEMMA PagingStep ==
    ASSUME Typed, AppendInOrder, Next, NEW c \in Calls, Paging(c)
    PROVE  Paging(c)' /\ \A e : HasRead(c, e) => HasRead(c, e)'
<1> USE DEF Typed, ReplayTyped, CountsTyped
<1>1. ASSUME NEW k \in Events, AppendEvent(k)
      PROVE  Paging(c)' /\ \A e : HasRead(c, e) => HasRead(c, e)'
  BY <1>1, AppendPaging
<1>2. CASE Fetch(c)
  BY <1>2, FetchPaging
<1>3. CASE UNCHANGED <<store, call, offset, page>>
  BY <1>3, StaysPaged DEF Paging
<1>4. ASSUME NEW d \in Calls, d # c, StartSync(d) \/ Rebuild(d) \/ CallStep(d) \/ RebuildFails(d)
      PROVE  Paging(c)' /\ \A e : HasRead(c, e) => HasRead(c, e)'
  <2>1. store' = store /\ call'[c] = call[c] /\ offset'[c] = offset[c] /\ page'[c] = page[c]
    BY <1>4 DEF StartSync, Rebuild, BeginRebuild, CallStep, SubscribeAfterRebuild, Clear, Fetch,
                CountRow, TouchRow, FinishRebuild, RebuildFails, Goto, streamVars
  <2> QED  BY <2>1, StaysPaged DEF Paging
<1>5. CASE StartSync(c) \/ Rebuild(c) \/ Clear(c) \/ TouchRow(c) \/ SubscribeAfterRebuild(c)
             \/ FinishRebuild(c) \/ RebuildFails(c)
  <2>1. store' = store /\ offset' = offset /\ page' = page
    BY <1>5 DEF StartSync, Rebuild, BeginRebuild, SubscribeAfterRebuild, Clear,
                TouchRow, FinishRebuild, RebuildFails, streamVars
  <2>2. call'[c] \in {"idle", "clear", "fetch"} =>
            call[c] \in {"idle", "clear", "fetch"} \/ page[c] = {}
    BY <1>5 DEF StartSync, Rebuild, BeginRebuild, SubscribeAfterRebuild, Clear,
                TouchRow, FinishRebuild, RebuildFails, Goto, At, AfterRebuild
  <2> QED  BY <2>1, <2>2, StaysPaged DEF Paging
<1>6. CASE CountRow(c)
  <2>1. /\ store' = store /\ offset' = offset /\ page'[c] \subseteq page[c] /\ call'[c] = "touch"
    BY <1>6 DEF CountRow, Goto
  <2> QED  BY <2>1, StaysPaged
<1> QED
  BY <1>1, <1>2, <1>3, <1>4, <1>5, <1>6 DEF Next, CallStep, LiveStep, StopSync, Pause, Resume,
     Stop, SetStatus, Handle, Count, Touch, Fail, streamVars

\* A dispatch never has fewer attempts than before.
LEMMA AttemptsGrow ==
    ASSUME Typed, Next, NEW e \in Events, NEW c \in Starters
    PROVE  /\ Attempts(c, e) \in Nat
           /\ Attempts(c, e)' >= Attempts(c, e)
           /\ Count(e, c) => Attempts(c, e)' = Attempts(c, e) + 1
<1>u. ReplayTyped /\ CountsTyped
  BY DEF Typed, ReplayTyped
<1>0. /\ attempts[e][c] \in Nat
      /\ Attempts(c, e) =
             IF live[e][c] \in {"touch", "done"} THEN attempts[e][c] + 1 ELSE attempts[e][c]
      /\ attempts'[e][c] \in Nat
      /\ Attempts(c, e)' =
             IF live'[e][c] \in {"touch", "done"} THEN attempts'[e][c] + 1 ELSE attempts'[e][c]
  <2>1. attempts[e][c] \in Nat /\ attempts'[e][c] \in Nat
    BY <1>u, ReplayTypes DEF ReplayTyped, CountsTyped
  <2> QED  BY <2>1 DEF Attempts
<1>1. attempts[e][c] \in Nat /\ Attempts(c, e) \in Nat
  BY <1>0
<1>2. ASSUME NEW k \in Events, AppendEvent(k) PROVE Attempts(c, e)' >= Attempts(c, e)
  <2>1. attempts' = attempts /\ (live[e][c] \in {"touch", "done"} => live'[e][c] = live[e][c])
    BY <1>2 DEF AppendEvent, AttemptsLeft, Typed, ReplayTyped, CountsTyped
  <2> QED  BY <1>0, <2>1
<1>3. ASSUME UNCHANGED <<live, attempts>> PROVE Attempts(c, e)' >= Attempts(c, e)
  BY <1>0, <1>1, <1>3 DEF Attempts
<1>4. ASSUME Handle(e, c) \/ Touch(e, c) PROVE Attempts(c, e)' >= Attempts(c, e)
  <2>1. attempts' = attempts /\ (live[e][c] \in {"touch", "done"} => live'[e][c] = "done")
    BY <1>4 DEF Handle, Touch, LiveGoto, LiveAt, Typed, ReplayTyped, CountsTyped
  <2> QED  BY <1>0, <2>1
<1>5. ASSUME Count(e, c) PROVE Attempts(c, e)' >= Attempts(c, e)
  <2>1. attempts' = attempts /\ live[e][c] = "handling" /\ live'[e][c] = "touch"
    BY <1>5 DEF Count, LiveGoto, LiveAt, Typed, ReplayTyped, CountsTyped
  <2>2. Attempts(c, e)' = Attempts(c, e) + 1
    BY <1>0, <2>1
  <2> QED  BY <1>1, <2>2
<1>6. ASSUME Fail(e, c) PROVE Attempts(c, e)' >= Attempts(c, e)
  <2>1. attempts'[e][c] = attempts[e][c] + 1 /\ live[e][c] # "done"
    BY <1>6 DEF Fail, Typed, ReplayTyped, CountsTyped
  <2> QED  BY <1>0, <2>1
<1>7. ASSUME NEW k \in Events, NEW d \in Starters, LiveStep(k, d) \/ Fail(k, d), k # e \/ d # c
      PROVE  Attempts(c, e)' = Attempts(c, e)
  <2>1. live'[e][c] = live[e][c] /\ attempts'[e][c] = attempts[e][c]
    BY <1>u, <1>7, DispatchTyped
  <2> QED  BY <2>1 DEF Attempts
<1>8. Attempts(c, e)' >= Attempts(c, e)
  BY <1>1, <1>2, <1>3, <1>4, <1>5, <1>6, <1>7 DEF Next, LiveStep, CallStep, StopSync, Pause,
     Resume, Stop, SetStatus, StartSync, Rebuild, SubscribeAfterRebuild, Clear, Fetch,
     CountRow, TouchRow, FinishRebuild, RebuildFails, liveVars
<1>9. Count(e, c) => Attempts(c, e)' = Attempts(c, e) + 1
  <2> SUFFICES ASSUME Count(e, c) PROVE Attempts(c, e)' = Attempts(c, e) + 1
    OBVIOUS
  <2>1. attempts' = attempts /\ live[e][c] = "handling" /\ live'[e][c] = "touch"
    BY DEF Count, LiveGoto, LiveAt, Typed, ReplayTyped, CountsTyped
  <2> QED  BY <1>0, <2>1
<1> QED  BY <1>1, <1>8, <1>9

\* Reasons stay reasons.
LEMMA ReasonsGrow ==
    ASSUME Typed, AppendInOrder, Next, NEW e \in Events, \A c \in Calls : Paging(c)
    PROVE  Reasons(e) \subseteq Reasons(e)'
<1>1. \A c \in Calls : HasRead(c, e) => HasRead(c, e)'
  BY PagingStep
<1>2. ASSUME NEW c \in Starters PROVE 1 .. Attempts(c, e) \subseteq 1 .. Attempts(c, e)'
  <2>1. Attempts(c, e) \in Nat /\ Attempts(c, e)' >= Attempts(c, e)
    BY AttemptsGrow
  <2>2. Attempts(c, e)' \in Nat
    BY ReplayTypes DEF Typed, ReplayTyped, CountsTyped, Attempts
  <2> QED  BY <2>1, <2>2
<1> QED  BY <1>1, <1>2 DEF Reasons

\* There are finitely many.
LEMMA ReasonsFinite ==
    ASSUME Typed, IsFiniteSet(Starters), IsFiniteSet(Rebuilders), NEW e \in Events
    PROVE  IsFiniteSet(Reasons(e)) /\ Cardinality(Reasons(e)) \in Nat
<1> DEFINE all == MaxRetries * DispatchRetries + 1
           Bound == Calls \X (0 .. all)
<1>1. MaxRetries * DispatchRetries \in Nat
  BY RetriesAssumption, ProductPositive
<1>2. IsFiniteSet(Bound)
  <2>1. IsFiniteSet(Calls)
    BY FS_Union DEF Calls
  <2>2. 0 \in Int /\ all \in Int
    BY <1>1
  <2> HIDE DEF all
  <2>3. IsFiniteSet(0 .. all)
    BY <2>2, FS_Interval
  <2> QED  BY <2>1, <2>3, FS_Product
<1>3. ASSUME NEW c \in Starters PROVE 1 .. Attempts(c, e) \subseteq 0 .. all /\ c \in Calls
  <2>1. attempts[e][c] \in Nat /\ attempts[e][c] <= MaxRetries * DispatchRetries
    BY DEF Typed, ReplayTyped, CountsTyped, AttemptsLeft
  <2> QED  BY <1>1, <2>1 DEF Attempts, Calls
<1>4. 0 \in 0 .. all
  BY <1>1
<1> HIDE DEF all
<1>5. Reasons(e) \in SUBSET Bound
  BY <1>3, <1>4 DEF Reasons
<1> HIDE DEF Bound
<1> QED  BY <1>2, <1>5, FS_Subset, FS_CardinalityType

\* One reason more is one count more.
LEMMA OneMoreReason ==
    ASSUME NEW R, NEW S, IsFiniteSet(S), R \subseteq S, NEW x \in S, x \notin R
    PROVE  Cardinality(R) \in Nat /\ Cardinality(R) + 1 <= Cardinality(S)
<1>1. IsFiniteSet(R) /\ Cardinality(R) \in Nat /\ Cardinality(S) \in Nat
  BY FS_Subset, FS_CardinalityType
<1>2. Cardinality(R \cup {x}) = Cardinality(R) + 1
  BY <1>1, FS_AddElement
<1>3. R \cup {x} \in SUBSET S
  OBVIOUS
<1>4. Cardinality(R \cup {x}) <= Cardinality(S)
  BY <1>3, FS_Subset
<1> QED  BY <1>1, <1>2, <1>4

\* An event has finitely many reasons, so that they can be counted.
ReasonsCounted == \A e \in Events : IsFiniteSet(Reasons(e)) /\ Cardinality(Reasons(e)) \in Nat

\* The inductive invariant: every rebuild knows its place, every count a reason.
Explained == (\A c \in Calls : Paging(c)) /\ DuplicatesFromFailures

\* What is counted is counted for a reason that was none before.
LEMMA CountedForNewReason ==
    ASSUME Typed, ReasonsCounted, ReasonsCounted', AppendInOrder, Next, Explained,
           NEW e \in Events
    PROVE  model'[e] <= Cardinality(Reasons(e)')
<1> DEFINE R == Reasons(e)
           S == Reasons(e)'
<1>1. R \subseteq S
  BY ReasonsGrow DEF Explained
<1>2. IsFiniteSet(S) /\ Cardinality(S) \in Nat /\ Cardinality(R) \in Nat
  BY DEF ReasonsCounted
<1>3. model[e] \in Nat /\ model[e] <= Cardinality(R)
  BY DEF Explained, DuplicatesFromFailures, Typed, ReplayTyped, CountsTyped
<1>4. ASSUME NEW c \in Calls, HasRead(c, e)', ~HasRead(c, e)
      PROVE  <<c, 0>> \in S /\ <<c, 0>> \notin R
  BY <1>4 DEF Reasons
<1>5. ASSUME NEW c \in Starters, Count(e, c)
      PROVE  \E x \in S : x \notin R
  <2>1. Attempts(c, e) \in Nat /\ Attempts(c, e)' = Attempts(c, e) + 1
    BY <1>5, AttemptsGrow
  <2> DEFINE n == Attempts(c, e) + 1
  <2>2. n \in 1 .. Attempts(c, e)' /\ n \notin 1 .. Attempts(c, e) /\ n # 0
    BY <2>1
  <2> HIDE DEF n
  <2>3. <<c, n>> \in S /\ <<c, n>> \notin R
    BY <2>2 DEF Reasons
  <2> QED  BY <2>3
<1> HIDE DEF R, S
<1>6. CASE model'[e] = model[e]
  <2>1. Cardinality(R) <= Cardinality(S)
    BY <1>1, <1>2, FS_Subset
  <2> QED  BY <1>2, <1>3, <1>6, <2>1 DEF S
<1>7. ASSUME NEW x \in S, x \notin R, model'[e] = model[e] + 1
      PROVE  model'[e] <= Cardinality(S)
  <2>1. Cardinality(R) + 1 <= Cardinality(S)
    BY <1>1, <1>2, <1>7, OneMoreReason
  <2> QED  BY <1>2, <1>3, <1>7, <2>1
<1>8. ASSUME NEW c \in Calls, CountRow(c) PROVE model'[e] <= Cardinality(S)
  <2>1. PICK k \in page[c] : /\ model' = [model EXCEPT ![k] = @ + 1]
                             /\ page' = [page EXCEPT ![c] = @ \ {k}]
    BY <1>8 DEF CountRow
  <2>2. store' = store /\ offset' = offset
    BY <1>8 DEF CountRow
  <2>3. CASE k = e
    <3>1. PICK read : PagedThrough(c, read)
      BY DEF Explained, Paging
    <3>2. IsFiniteSet(store) /\ store \subseteq Nat /\ e \in read /\ e \in store
      BY <2>1, <2>3, <3>1, EventsAssumption DEF Typed, ReplayTyped, PagedThrough, IsPrefix
    <3>3. Position(e) < offset[c]
      BY <3>1, <3>2, PrefixIsFirst DEF PagedThrough
    <3>4. Position(e)' = Position(e) /\ e \notin page'[c]
      BY <2>1, <2>2, <2>3 DEF Position, Typed, ReplayTyped
    <3>5. HasRead(c, e)' /\ ~HasRead(c, e)
      BY <2>1, <2>2, <2>3, <3>2, <3>3, <3>4 DEF HasRead
    <3>6. model'[e] = model[e] + 1
      BY <2>1, <2>3 DEF Typed, ReplayTyped, CountsTyped
    <3> QED  BY <1>4, <1>7, <3>5, <3>6
  <2>4. CASE k # e
    <3>1. model'[e] = model[e]
      BY <2>1, <2>4 DEF Typed, ReplayTyped, CountsTyped
    <3> QED  BY <1>6, <3>1 DEF S
  <2> QED  BY <2>3, <2>4
<1>9. ASSUME NEW k \in Events, NEW c \in Starters, Count(k, c) PROVE model'[e] <= Cardinality(S)
  <2>1. model' = [model EXCEPT ![k] = @ + 1]
    BY <1>9 DEF Count
  <2>2. CASE k = e
    <3>1. model'[e] = model[e] + 1
      BY <2>1, <2>2 DEF Typed, ReplayTyped, CountsTyped
    <3> QED  BY <1>5, <1>7, <1>9, <2>2, <3>1
  <2>3. CASE k # e
    <3>1. model'[e] = model[e]
      BY <2>1, <2>3 DEF Typed, ReplayTyped, CountsTyped
    <3> QED  BY <1>6, <3>1 DEF S
  <2> QED  BY <2>2, <2>3
<1>10. ASSUME NEW c \in Calls, Clear(c) PROVE model'[e] <= Cardinality(S)
  BY <1>2, <1>10 DEF Clear
<1>11. CASE model' = model
  BY <1>6, <1>11
<1> QED
  BY <1>8, <1>9, <1>10, <1>11 DEF S, Next, LiveStep, CallStep, AppendEvent, StopSync, Pause,
     Resume, Stop, SetStatus, StartSync, Rebuild, SubscribeAfterRebuild, Fetch, TouchRow,
     FinishRebuild, RebuildFails, Handle, Touch, Fail

\* For any number of starts, rebuilds and subscriptions at once, whatever fails and
\* whatever operators do: an event is counted at most once for every rebuild that has
\* read it, every dispatch that has got so far, and every attempt at it that has
\* failed, if events commit in the order of their times and calls are finitely many
\* (rebuild and handleWithRetry in projection.base.ts, startRealtimeSync and dispatch
\* in projection-orchestrator.ts).
THEOREM CountsExplained ==
    ASSUME AppendInOrder, IsFiniteSet(Starters), IsFiniteSet(Rebuilders)
    PROVE  Spec => []DuplicatesFromFailures
<1>1. Typed => ReasonsCounted
  BY ReasonsFinite DEF ReasonsCounted
<1>2. Init => Explained
  <2> SUFFICES ASSUME Init PROVE Explained
    OBVIOUS
  <2>1. ASSUME NEW c \in Calls PROVE PagedThrough(c, {})
    BY FS_EmptySet DEF Init, PagedThrough, IsPrefix
  <2>2. ASSUME NEW e \in Events PROVE Reasons(e) = {}
    <3>1. store = {} /\ \A c \in Starters : attempts[e][c] = 0 /\ live[e][c] = "none"
      BY DEF Init
    <3>2. \A c \in Starters : 1 .. Attempts(c, e) = {}
      BY <3>1 DEF Attempts
    <3>3. \A c \in Calls : ~HasRead(c, e)
      BY <3>1 DEF HasRead
    <3> QED  BY <3>2, <3>3 DEF Reasons
  <2>3. \A e \in Events : model[e] = 0 /\ Cardinality({}) = 0
    BY FS_EmptySet DEF Init
  <2>4. \A c \in Calls : page[c] = {}
    BY DEF Init
  <2> QED  BY <2>1, <2>2, <2>3, <2>4 DEF Explained, Paging, DuplicatesFromFailures
<1>3. Typed /\ ReasonsCounted /\ ReasonsCounted' /\ Explained /\ [Next]_vars => Explained'
  <2> SUFFICES ASSUME Typed, ReasonsCounted, ReasonsCounted', Explained, [Next]_vars PROVE Explained'
    OBVIOUS
  <2>1. CASE Next
    <3>1. \A c \in Calls : Paging(c)'
      BY <2>1, PagingStep DEF Explained
    <3>2. \A e \in Events : model'[e] <= Cardinality(Reasons(e)')
      BY <2>1, CountedForNewReason
    <3> QED  BY <3>1, <3>2 DEF Explained, DuplicatesFromFailures
  <2>2. CASE UNCHANGED vars
    BY <2>2 DEF vars, streamVars, liveVars, Explained, Paging, PagedThrough, IsPrefix,
                DuplicatesFromFailures, Reasons, HasRead, Position, Attempts
  <2> QED  BY <2>1, <2>2
<1>4. Explained => DuplicatesFromFailures
  BY DEF Explained
<1> QED  BY <1>1, <1>2, <1>3, <1>4, AlwaysTyped, PTL DEF Spec

=============================================================================

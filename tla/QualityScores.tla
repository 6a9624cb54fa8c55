---------------------------- MODULE QualityScores ----------------------------
(***************************************************************************)
(* How good the metadata of an aggregate is: the scorer the service uses   *)
(* and the two others of the library, over one aggregate whose metadata is *)
(* filled in, deleted and grows old.  Scores are counted in hundredths, as *)
(* the weights are hundredths.  Creation and update time are never missing *)
(* in what is scored, so what their absence costs is left out.             *)
(***************************************************************************)
EXTENDS Integers, FiniteSets, FiniteSetsExt

CONSTANTS
    StrictModes,   \* subset of BOOLEAN: the strictMode scorers are built with
    Beginnings,    \* sets of fields that are there at first
    Amounts,       \* the amounts of a bill
    MaxChanges     \* bound: changes of the metadata

VARIABLES
    strictMode,
    scored,        \* the metadata
    changes        \* how often it changed

qualityVars == <<strictMode, scored, changes>>

\* Fields that are there or not.
Fields ==
    {"aggregateId", "tenantId", "createdBy", "updatedBy", "analyzable", "tags", "category",
     "aiEnabled", "syncable"}
\* What the billing extractor puts into the analytics dimensions.
BillDimensions == {"status", "type", "amount", "currency", "retryCount"}
Unknown == -1

ASSUME QualityAssumption ==
    /\ StrictModes \subseteq BOOLEAN
    /\ Beginnings \subseteq SUBSET Fields
    /\ Amounts \subseteq Nat
    /\ MaxChanges \in Nat

\* age: under an hour, a day, three days, a week, a month, or over; retries
\* is what the dimension retryCount holds.
MetadataToScore ==
    [fields : SUBSET Fields, dimensions : SUBSET BillDimensions, retries : 0 .. 6,
     deletion : {"no", "anonymous", "by"}, included : BOOLEAN, age : 0 .. 5]

Has(m, field) == field \in m.fields
SumOver(parts) == MapThenSumSet(LAMBDA p : p[2], parts)
AtLeastZero(n) == Max({0, n})

-----------------------------------------------------------------------------
(* DefaultDataQualityScorer, whose score the service returns. *)

\* Every missing item takes its points off a hundred.
Less(missing) == AtLeastZero(100 - SumOver(missing))

Completeness(m) ==
    Less({p \in {<<"aggregateId", 40>>, <<"tenantId", 40>>} : ~Has(m, p[1])})

\* Faulty form: an aggregate without the extension is not marked down.
ClassificationIfAnalyzable(m) ==
    IF ~Has(m, "analyzable") THEN 100
    ELSE Less({p \in {<<"tags", 50>>, <<"category", 50>>} : ~Has(m, p[1])})

Classification(m) ==
    IF ~Has(m, "analyzable") THEN 0
    ELSE Less({p \in {<<"tags", 50>>, <<"category", 50>>} : ~Has(m, p[1])})

\* Full marks from five dimensions on.
DimensionCompleteness(m) ==
    IF ~Has(m, "analyzable") THEN 0 ELSE Min({100, 20 * Cardinality(m.dimensions)})

AuditCompleteness(m) ==
    Less({p \in {<<"createdBy", 40>>, <<"updatedBy", 30>>} : ~Has(m, p[1])}
         \cup {p \in {<<"deletedBy", 15>>} : m.deletion = "anonymous"})

ExtensionUse(m) ==
    SumOver({p \in {<<"aiEnabled", 33>>, <<"analyzable", 33>>, <<"syncable", 34>>} : Has(m, p[1])})

hasMissingRequiredFields(m) == {"aggregateId", "tenantId"} \ m.fields # {}

calculateScore(m) ==
    IF strictMode /\ hasMissingRequiredFields(m) THEN 0
    ELSE 30 * Completeness(m) + 20 * Classification(m) + 25 * DimensionCompleteness(m)
         + 15 * AuditCompleteness(m) + 10 * ExtensionUse(m)

\* A part of 80 or more needs no advice.
getSuggestions(m) ==
    UNION {
        IF Completeness(m) >= 80 THEN {} ELSE {"aggregateId", "tenantId"} \ m.fields,
        IF Classification(m) >= 80 THEN {}
        ELSE IF Has(m, "analyzable") THEN {"tags", "category"} \ m.fields ELSE {"analyzable"},
        IF Has(m, "analyzable") THEN {d \in {"dimensions"} : m.dimensions = {}} ELSE {"analyzable"},
        IF AuditCompleteness(m) >= 80 THEN {} ELSE {"createdBy", "updatedBy"} \ m.fields,
        IF {"aiEnabled", "syncable"} \cap m.fields = {} THEN {"aiEnabled", "syncable"} ELSE {}}

-----------------------------------------------------------------------------
(* QualityScorer and BillingQualityScorer, which nothing in the code uses. *)

Timeliness(m) == <<100, 100, 80, 60, 40, 20>>[m.age + 1]

Accessibility(m) ==
    IF m.deletion # "no" THEN 30
    ELSE IF Has(m, "analyzable") /\ ~m.included THEN 50 ELSE 100

\* Consistency has nothing to find in times that are never missing; here an
\* analyzable extension without a tag or a category costs points, and none does not.
score(m) ==
    LET completeness ==
            IF ~Has(m, "analyzable") THEN 100
            ELSE Less({p \in {<<"tags", 10>>, <<"category", 10>>} : ~Has(m, p[1])})
        validity == Less({p \in {<<"aggregateId", 30>>, <<"tenantId", 30>>} : ~Has(m, p[1])})
    IN  25 * completeness + 20 * Timeliness(m) + 20 * 100 + 20 * validity + 15 * Accessibility(m)

\* The extracted status is in lower case, and the scorer compares it with
\* upper-case ones, so that every status is an unknown one.
StatusScore(m) == 70

AmountScore(m) ==
    IF ~Has(m, "analyzable") THEN 60
    ELSE Less({p \in {<<"amount", 50>>, <<"currency", 30>>} : p[1] \notin m.dimensions})

RetryScore(m) ==
    IF ~Has(m, "analyzable") THEN 80
    ELSE IF "retryCount" \notin m.dimensions THEN 100
    ELSE <<100, 80, 60, 40, 40, 40, 20>>[m.retries + 1]

BillingScore(m) ==
    30 * StatusScore(m) + 30 * AmountScore(m) + 25 * <<100, 90, 70, 50, 50, 50>>[m.age + 1]
    + 15 * RetryScore(m)

\* The billing extractor's own score: ten points a retry, thirty at most, and
\* twenty for a failed payment.
calculateQualityScore(retries, failed) ==
    AtLeastZero(100 - Min({retries * 10, 30}) - IF failed THEN 20 ELSE 0)

-----------------------------------------------------------------------------
(* BusinessDimensionCalculator. *)

AmountRanges ==
    <<[min |-> 0, max |-> 100], [min |-> 100, max |-> 500], [min |-> 500, max |-> 1000],
      [min |-> 1000, max |-> 5000], [min |-> 5000, max |-> Unknown]>>

getAmountRange(amount) ==
    LET fits == {n \in DOMAIN AmountRanges :
                    /\ amount >= AmountRanges[n].min
                    /\ AmountRanges[n].max # Unknown => amount < AmountRanges[n].max}
    IN  IF fits = {} THEN Unknown ELSE Min(fits)

-----------------------------------------------------------------------------
QualityInit ==
    /\ strictMode \in StrictModes
    /\ scored \in [fields : Beginnings, dimensions : {{}}, retries : {0}, deletion : {"no"},
                   included : {TRUE}, age : {0}]
    /\ changes = 0

Becomes(m) ==
    /\ changes < MaxChanges
    /\ changes' = changes + 1
    /\ scored' = m
    /\ UNCHANGED strictMode

\* Tags, category and dimensions belong to the analyzable extension.
FillIn(field) ==
    /\ ~Has(scored, field)
    /\ field \in {"tags", "category"} => Has(scored, "analyzable")
    /\ Becomes([scored EXCEPT !.fields = @ \cup {field}])

AddDimension(d) ==
    /\ Has(scored, "analyzable")
    /\ d \notin scored.dimensions
    /\ Becomes([scored EXCEPT !.dimensions = @ \cup {d}])

\* Of an aggregate that is set aside, or whose payment is tried once more.
Exclude ==
    /\ scored.included /\ Has(scored, "analyzable")
    /\ Becomes([scored EXCEPT !.included = FALSE])

Retry ==
    /\ "retryCount" \in scored.dimensions
    /\ scored.retries < 6
    /\ Becomes([scored EXCEPT !.retries = @ + 1])

\* The deletion is an update: the age starts again.
Delete(how) ==
    /\ scored.deletion = "no"
    /\ Becomes([scored EXCEPT !.deletion = how, !.age = 0])

Age == scored.age < 5 /\ Becomes([scored EXCEPT !.age = @ + 1])

QualityNext ==
    \/ \E field \in Fields : FillIn(field)
    \/ \E d \in BillDimensions : AddDimension(d)
    \/ Exclude
    \/ Retry
    \/ \E how \in {"anonymous", "by"} : Delete(how)
    \/ Age

QualitySpec == QualityInit /\ [][QualityNext]_qualityVars

-----------------------------------------------------------------------------
\* Scores lie within 0 and 100, the amount of a bill has a range, and the
\* metadata has its type.
QualityTypeOK ==
    /\ strictMode \in BOOLEAN
    /\ scored \in MetadataToScore
    /\ calculateScore(scored) \in 0 .. 10000
    /\ score(scored) \in 0 .. 10000
    /\ BillingScore(scored) \in 0 .. 10000
    /\ calculateQualityScore(scored.retries, TRUE) \in 0 .. 100
    /\ \A amount \in Amounts : getAmountRange(amount) # Unknown
    /\ changes \in 0 .. MaxChanges

\* Filling in never costs points, and whoever follows a suggestion of the
\* scorer gains some, unless it is strict and a required field is still
\* missing; age and retries never gain any with the other scorers
\* (default-quality-scorer.ts:55; an extension that is there but empty could
\* score less than none).
ScoreMonotone ==
    [][/\ \A field \in Fields :
            FillIn(field) =>
                /\ calculateScore(scored') >= calculateScore(scored)
                /\ field \in getSuggestions(scored) =>
                       \/ calculateScore(scored') > calculateScore(scored)
                       \/ strictMode /\ hasMissingRequiredFields(scored')
       /\ Age \/ Retry =>
            score(scored') <= score(scored) /\ BillingScore(scored') <= BillingScore(scored)
      ]_qualityVars
=============================================================================

--------------------------- MODULE AnalyticsReports ---------------------------
(***************************************************************************)
(* Reports over the aggregate metadata.  A report is one SELECT, grouped,  *)
(* and then an INSERT that saves it; what the second fails with is         *)
(* swallowed.  Averages are counted in so small parts of a point that they *)
(* are integers, however many rows they are taken over.  A result also     *)
(* keeps the rows and scores it was made of, for the property.  Names,     *)
(* dates and expiry (which nobody sets) are left out.                      *)
(***************************************************************************)
EXTENDS AggregateMetadata

CONSTANTS
    Callers,
    ReportIds,
    AverageParts,   \* the parts of a point
    ReportBatches   \* the lists of configurations a caller may ask for

VARIABLES
    calls,          \* each caller's list of configurations, and its results
    analyticsReports  \* what is saved, by tenant and report id

reportVars == <<calls, analyticsReports>>

AnalyticsReportType == {"SUMMARY", "TREND", "QUALITY", "COMPARISON"}

\* count and average are the aliases of COUNT(*) and AVG(quality_score); sums is
\* whether SUM(amount) is asked for, start and end a time range where not 0.
AnalyticsReportConfig ==
    [id : ReportIds \cup AnalyticsReportType, type : AnalyticsReportType,
     groupBy : {"aggregate_type", "category", "time_year"}, tenantId : MetadataTenants \cup {Null},
     aggregateType : SUBSET {k.aggregateType : k \in MetadataKeys}, category : SUBSET {"c"},
     count : {Null, "count", "total_count"}, average : {Null, "avg_quality_score", "avg_score"},
     sums : BOOLEAN, tags : SUBSET {"vip"}, start : 0 .. 3, end : 0 .. 3]

ASSUME ReportAssumption ==
    /\ ReportBatches \subseteq Seq(AnalyticsReportConfig)
    /\ AverageParts \in Nat \ {0}
    /\ \A n \in 1 .. Cardinality(MetadataKeys) : n * (AverageParts \div n) = AverageParts

\* The id of a template stands for "template-summary" and so on.
getReportTemplate(type) ==
    [id |-> type, type |-> type,
     groupBy |-> IF type = "TREND" THEN "time_year" ELSE "aggregate_type",
     tenantId |-> Null, aggregateType |-> {}, category |-> {},
     count |-> IF type = "QUALITY" THEN "total_count" ELSE "count",
     average |-> CASE type = "SUMMARY" -> "avg_quality_score"
                   [] type = "QUALITY" -> "avg_score"
                   [] OTHER -> Null,
     sums |-> type = "COMPARISON", tags |-> {},
     start |-> IF type = "TREND" THEN 2 ELSE 0, end |-> IF type = "TREND" THEN 3 ELSE 0]

ReportsInit ==
    /\ calls = [c \in Callers |-> [todo |-> <<>>, saving |-> {}, results |-> <<>>, failed |-> FALSE]]
    /\ analyticsReports = [k \in {} |-> {}]

-----------------------------------------------------------------------------
(* The query. *)

timeRange(config) == config.start # 0 /\ config.end # 0

\* Only a trend looks at the time range.  No tenant is every tenant.
buildWhereConditions(config) ==
    {k \in Present :
        /\ ~metadataTable[k].isDeleted
        /\ config.tenantId \in {Null, k.tenantId}
        /\ config.aggregateType # {} => k.aggregateType \in config.aggregateType
        /\ config.category # {} => metadataTable[k].category \in config.category
        /\ config.type = "TREND" => metadataTable[k].createdAt \in config.start .. config.end}

\* What the database or the service refuses: a column that the table has not,
\* overlapping JSON, a trend without its range.
Refused(config) ==
    \/ config.groupBy = "time_year"
    \/ config.sums
    \/ config.tags # {}
    \/ config.type = "TREND" /\ ~timeRange(config)

SumOf(values, rows) == FoldSet(LAMBDA k, sum : values[k] + sum, 0, rows)

\* AVG is over the rows that have a score, and null, then 0, if there is none.
Average(rows) ==
    LET scored == {k \in rows : metadataTable[k].qualityScore # NoScore} IN
    IF scored = {} THEN 0
    ELSE (AverageParts \div Cardinality(scored))
             * SumOf([k \in scored |-> metadataTable[k].qualityScore], scored)

Dimension(config, k) ==
    IF config.groupBy = "category" THEN metadataTable[k].category ELSE k.aggregateType

\* metrics: an aggregation that was not asked for is not there, and counts 0.
ReportRows(config) ==
    LET rows == buildWhereConditions(config)
        Group(d) == {k \in rows : Dimension(config, k) = d}
    IN  {[dimension |-> d,
          count |-> IF config.count = Null THEN 0 ELSE Cardinality(Group(d)),
          average |-> IF config.average = Null THEN 0 ELSE Average(Group(d))] :
            d \in {Dimension(config, k) : k \in rows}}

\* calculateSummary adds up the averages as well.
totalRecords(rows) == FoldSet(LAMBDA r, sum : r.count + sum, 0, rows)

\* Faulty form: every group weighs the same.
qualityStatsUnweighted(config, rows) ==
    [number |-> config.count = "count" \/ rows = {},
     totalScore |-> FoldSet(LAMBDA r, sum : r.average + sum, 0, rows) * Cardinality(rows),
     highQualityCount |-> totalRecords({r \in rows : r.average >= AverageParts * 80}),
     lowQualityCount |-> totalRecords({r \in rows : r.average < AverageParts * 60})]

\* Only the alias "count" is looked at here; with another one the statistics are
\* not a number.  An unscored group counts as one of score 0.
qualityStats(config, rows) ==
    [number |-> config.count = "count" \/ rows = {},
     totalScore |-> FoldSet(LAMBDA r, sum : r.average * r.count + sum, 0, rows),
     highQualityCount |-> totalRecords({r \in rows : r.average >= AverageParts * 80}),
     lowQualityCount |-> totalRecords({r \in rows : r.average < AverageParts * 60})]

Result(config) ==
    LET rows == ReportRows(config)
        source == buildWhereConditions(config)
    IN  [config |-> config, rows |-> rows, totalRecords |-> totalRecords(rows),
         stats |-> IF config.type = "QUALITY" THEN {qualityStats(config, rows)} ELSE {},
         source |-> source,
         made |-> [k \in MetadataKeys |->
                      IF k \in source THEN metadataTable[k].qualityScore ELSE NoScore]]

-----------------------------------------------------------------------------
(* Callers. *)

Does(c, call) == calls' = [calls EXCEPT ![c] = call]

\* generateReports goes through its list.
GenerateReports(c, configs) ==
    /\ calls[c].todo = <<>> /\ calls[c].results = <<>> /\ ~calls[c].failed
    /\ Does(c, [calls[c] EXCEPT !.todo = configs])
    /\ UNCHANGED <<metadataVars, analyticsReports>>

\* Where one throws the caller has the exception, and not the results so far:
\* these stay saved.
GenerateReport(c) ==
    /\ calls[c].todo # <<>>
    /\ calls[c].saving = {}
    /\ LET config == Head(calls[c].todo) IN
       Does(c, IF Refused(config)
               THEN [calls[c] EXCEPT !.todo = <<>>, !.results = <<>>, !.failed = TRUE]
               ELSE [calls[c] EXCEPT !.saving = {Result(config)}])
    /\ UNCHANGED <<metadataVars, analyticsReports>>

Filed(result) ==
    <<IF result.config.tenantId = Null THEN "system" ELSE result.config.tenantId, result.config.id>>

\* The insert of a report that is there already, or one that fails, is only
\* logged; the result is the caller's in any case.
SaveReportResult(c) ==
    /\ \E result \in calls[c].saving :
        /\ Does(c, [calls[c] EXCEPT !.saving = {}, !.todo = Tail(@),
                                  !.results = Append(@, result)])
        /\ \/ /\ Filed(result) \notin DOMAIN analyticsReports
              /\ analyticsReports' = [id \in DOMAIN analyticsReports \cup {Filed(result)} |->
                                          IF id = Filed(result) THEN result ELSE analyticsReports[id]]
           \/ UNCHANGED analyticsReports
    /\ UNCHANGED metadataVars

ReportsNext ==
    \/ \E c \in Callers :
        \/ \E configs \in ReportBatches : GenerateReports(c, configs)
        \/ GenerateReport(c)
        \/ SaveReportResult(c)
    \/ /\ \E k \in MetadataKeys :
           \/ \E row \in MetadataRows : ImportRow(k, row)
           \/ SoftDelete(k)
       /\ UNCHANGED reportVars

ReportsSpec ==
    MetadataInit /\ ReportsInit /\ [][ReportsNext]_<<metadataVars, reportVars>>

-----------------------------------------------------------------------------
Results ==
    LET types == {k.aggregateType : k \in MetadataKeys} IN
    [config : AnalyticsReportConfig,
     rows : SUBSET [dimension : {Null, "c"} \cup types, count : Nat, average : Nat],
     totalRecords : Nat,
     stats : SUBSET [number : BOOLEAN, totalScore : Nat,
                     highQualityCount : Nat, lowQualityCount : Nat],
     source : SUBSET MetadataKeys, made : [MetadataKeys -> 0 .. NoScore]]

ReportsTypeOK ==
    /\ DOMAIN calls = Callers
    /\ \A c \in Callers :
          calls[c] \in [todo : Seq(AnalyticsReportConfig), saving : SUBSET Results,
                       results : Seq(Results), failed : BOOLEAN]
    /\ DOMAIN analyticsReports \subseteq (MetadataTenants \cup {"system"}) \X (ReportIds \cup AnalyticsReportType)
    /\ \A id \in DOMAIN analyticsReports : analyticsReports[id] \in Results

Made == {analyticsReports[id] : id \in DOMAIN analyticsReports}
            \cup UNION {ToSet(calls[c].results) : c \in Callers}

\* A report that somebody has been given, or that is saved, is about rows of the
\* tenant it names, each counted once; where all of them have scores, the
\* average score of a quality report is theirs, whatever groups it was taken
\* over (analytics-report.service.ts:262, which weighs each group's average);
\* and what is saved is filed under its tenant.
ReportsTrue ==
    /\ \A r \in Made :
        LET rows == r.source IN
        /\ r.config.tenantId # Null => \A k \in rows : k.tenantId = r.config.tenantId
        /\ r.config.count # Null => r.totalRecords = Cardinality(rows)
        /\ (/\ r.config.average # Null /\ r.config.count = "count"
            /\ \A k \in rows : r.made[k] # NoScore)
           => \A s \in r.stats :
                /\ s.number
                /\ s.totalScore = AverageParts * SumOf(r.made, rows)
                /\ s.highQualityCount + s.lowQualityCount <= r.totalRecords
    /\ \A id \in DOMAIN analyticsReports : Filed(analyticsReports[id]) = id
=============================================================================

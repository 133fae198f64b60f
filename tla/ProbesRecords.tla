--------------------------- MODULE ProbesRecords ---------------------------
(***************************************************************************)
(* packages/probes/src/probes/site.ts, the detectors that judge a record   *)
(* the site's owner supplied, most of them against the crawl.  s.supplied: *)
(* the inputs hold the section; s.record: who owns it and whether it is    *)
(* overdue; s.dated: the crawl carries the time it is judged at.           *)
(***************************************************************************)
EXTENDS Probing

LOCAL INSTANCE FiniteSetsExt

Held(s) == HeldRecord(s.record, s.dated)

(* The rungs after NA: what fails, what is left unread, the record held.   *)
Judged(s, defect, doubt) ==
  IF ~s.supplied THEN "not-applicable" ELSE Weigh(defect, doubt \/ Held(s))

----------------------------------------------------------------------------
(* The redirect map.  Later entries for one old URL replace earlier ones;  *)
(* a target that is itself an old URL chains or loops.                     *)

Mapped(entries) == {entries[i].from : i \in DOMAIN entries} \ {"none"}
MappedTo(entries, from) ==
  entries[CHOOSE i \in DOMAIN entries :
            /\ entries[i].from = from
            /\ \A j \in DOMAIN entries : entries[j].from = from => j <= i].to

(* s.old: what the previous audit reached and the old origin's sitemap     *)
(* lists, asked of a move.                                                 *)
MigrationMapBuilder(s) ==
  LET old == IF s.kind = "move" THEN s.old ELSE {}
  IN Judged(s, \/ s.kind = "move" /\ ~s.oldOrigin
               \/ \E i \in DOMAIN s.entries : s.entries[i].from = "none"
               \/ \E u \in Mapped(s.entries) : MappedTo(s.entries, u) \in Mapped(s.entries)
               \/ ~(old \subseteq Mapped(s.entries)),
            FALSE)

DOMAIN_HISTORY_REQUIRED_CHECKS == {"manual action", "archive"}

InheritedDomainHistory(s) ==
  Judged(s, (\E i \in s.issues : ~i.resolved) \/ ~(DOMAIN_HISTORY_REQUIRED_CHECKS \subseteq s.checks),
         FALSE)

----------------------------------------------------------------------------
(* Search engines' own reports.                                            *)

(* propertyCovers: a domain property covers its hosts, a prefix one origin.*)
PropertyCovers(property) ==
  Ladder(<< <<~property.readable, "unreadable">>,
            <<property.type = "domain" /\ property.names \in {"host", "parent domain"}, "covers">>,
            <<property.type = "url-prefix" /\ property.names = "origin", "covers">> >>, "misses")

GscPropertyOwnership(s) ==
  Ladder(<< <<~s.supplied, "not-applicable">>,
            <<~s.named, "warn">>,
            <<PropertyCovers(s.property) # "covers" \/ s.owners = {}, "fail">>,
            <<Held(s) \/ Cardinality(s.owners) = 1, "warn">> >>, "pass")

(* Mutant: the report is held before its errors are looked at.             *)
SitemapSubmitHeldFirst(s) ==
  LET rows == {d.row : d \in s.documents}
  IN Ladder(<< <<~s.supplied \/ s.documents = {}, "not-applicable">>,
               <<~s.reported \/ rows \cap {"none", "unfetched"} # {} \/ Held(s), "warn">>,
               <<"errors" \in rows, "fail">> >>, "pass")

(* A sitemap the crawl found, and its row in the report ("none": no row).  *)
SitemapSubmit(s) ==
  LET rows == {d.row : d \in s.documents}
  IN Ladder(<< <<~s.supplied \/ s.documents = {}, "not-applicable">>,
               <<~s.reported, "warn">>,
               <<"errors" \in rows, "fail">>,
               <<rows \cap {"none", "unfetched"} # {} \/ Held(s), "warn">> >>, "pass")

STALE_EXPORT_DAYS == 30

(* s.reports: which of the two reports the export holds.                   *)
SecurityManualActions(s) ==
  Judged(s, s.open # {}, \/ s.reports # {"manual actions", "security issues"}
                         \/ s.dated /\ s.ageDays > STALE_EXPORT_DAYS)

BingOnboarding(s) ==
  Judged(s, \/ s.property = "unverified"
            \/ s.reported /\ \E r \in s.rows : r.failed,
         \/ s.property = "none"
         \/ s.documents # {} /\ ~s.reported
         \/ \E d \in s.documents : \A r \in s.rows : r.url # d)

----------------------------------------------------------------------------
(* The reporting record, against the performance export.                   *)

(* performancePeriods: periods in the order the rows first name them, each *)
(* metric summed over all rows of the period.                              *)
Periods(rows) ==
  LET first == SelectSeq([i \in DOMAIN rows |-> [at |-> i, period |-> rows[i].period]],
                 LAMBDA r : \A j \in 1 .. r.at - 1 : rows[j].period # r.period)
  IN [i \in DOMAIN first |-> first[i].period]
Total(rows, period, metric) ==
  MapThenSumSet(LAMBDA i : rows[i][metric], {i \in DOMAIN rows : rows[i].period = period})

REPORTING_MEASURED_ENGINES == {"google"}
MeasuredMetric == {"clicks", "impressions"}

(* A threshold: an engine, a metric and a change in percent.  It is crossed*)
(* by the move from the last period but one to the last.                   *)
ReportingAnomalyThresholds(s) ==
  LET periods == Periods(s.rows)
      now(t) == Total(s.rows, periods[Len(periods)], t.metric)
      then(t) == Total(s.rows, periods[Len(periods) - 1], t.metric)
      comparable(t) == /\ t.engine \in REPORTING_MEASURED_ENGINES /\ t.metric \in MeasuredMetric
                       /\ Len(periods) >= 2
      measured == {t \in s.thresholds : comparable(t) /\ then(t) # 0}
      moved(t) == 100 * (now(t) - then(t))
      crossed == {t \in measured : IF t.change < 0 THEN moved(t) <= t.change * then(t)
                                                   ELSE moved(t) >= t.change * then(t)}
  IN Judged(s, \/ ~({t.metric : t \in crossed} \subseteq {a.metric : a \in s.anomalies})
               \/ \E a \in s.anomalies : ~a.disposition,
            s.thresholds = {} \/ measured # s.thresholds \/ ~s.rhythm)

(* figureGap, in thousandths of the larger figure.                         *)
FigureGap(row) ==
  LET larger == IF row.a < row.b THEN row.b ELSE row.a
      smaller == IF row.a < row.b THEN row.a ELSE row.b
  IN IF larger = 0 THEN 0 ELSE (1000 * (larger - smaller)) \div larger

RECONCILIATION_FAIL_GAP == 100
RECONCILIATION_WARN_GAP == 50

AnalyticsReconciliation(s) ==
  LET unexplained(r) == FigureGap(r) > RECONCILIATION_FAIL_GAP /\ ~r.explained
  IN IF s.rows = {} THEN "not-applicable" ELSE
     Judged(s, \E r \in s.rows : unexplained(r),
            \E r \in s.rows : FigureGap(r) > RECONCILIATION_WARN_GAP)

(* A report of one engine's visibility: where its period starts against    *)
(* the day its tool began to record.                                       *)
AiVisibilityBaseline(s) ==
  Judged(s, \E r \in s.reports : r.starts = "before the tool" \/ r.combined,
         s.reports = {} \/ \E r \in s.reports : r.starts = "unreadable")

----------------------------------------------------------------------------
(* Logs and submissions.                                                   *)

LOG_5XX_FAIL_RATE == 1
LOG_PARAMETER_WARN_SHARE == 25

(* Hits whose user agent claims a search crawler, in the order logged.     *)
LogFileAnalysis(s) ==
  LET hits == {i \in DOMAIN s.hits : s.hits[i].crawler}
      percent(some) == 100 * Cardinality(some)
      errors == {i \in hits : s.hits[i].serverError}
      parameterised == {i \in hits : s.hits[i].parameterised}
  IN IF hits = {} THEN "not-applicable" ELSE
     Judged(s, \/ percent(errors) > LOG_5XX_FAIL_RATE * Cardinality(hits)
               \/ \E i \in hits : s.hits[i].disallowed,
            percent(parameterised) > LOG_PARAMETER_WARN_SHARE * Cardinality(hits))

INDEXNOW_MAX_PER_DAY == 5

IndexnowIntegration(s) ==
  LET alike(i) == {j \in DOMAIN s.log : s.log[j].url = s.log[i].url /\ s.log[j].day = s.log[i].day}
  IN IF s.supplied /\ ~s.originRead THEN "error" ELSE
     Judged(s, \/ s.keyFile \in {"missing", "wrong content"}
               \/ \E i \in DOMAIN s.log : s.log[i].foreign
               \/ \E i \in DOMAIN s.log : Cardinality(alike(i)) > INDEXNOW_MAX_PER_DAY,
            s.keyFile = "not requested")

----------------------------------------------------------------------------
(* Plans and people.                                                       *)

BacklinkMonitor(s) ==
  Ladder(<< <<~s.supplied, "not-applicable">>,
            <<~s.submitted, "pass">>,
            <<~s.reasons \/ ~s.removalAttempts, "fail">>,
            <<Held(s), "warn">> >>, "pass")

CompetitorSerpBaseline(s) ==
  IF s.supplied /\ ~s.originRead THEN "error" ELSE
  Judged(s, s.blank # {} \/ s.competitors = {} \/ "own host" \in s.competitors, FALSE)

(* s.testAge: days since the last test alert, -1 when none is on record.   *)
MonitoringIncidentSla(s) ==
  Judged(s, \/ \E e \in s.entries : ~e.owned \/ ~e.remediated
            \/ s.dated /\ s.testAge > s.interval,
         s.testAge = -1)

OffpageReputationGovernance(s) ==
  Judged(s, s.dated /\ \E d \in s.destinations : d.overdue,
         s.destinations = {} \/ \E d \in s.destinations : ~d.owned)

(* Alone among the records, a plan nobody owns fails.                      *)
DigitalPrTracking(s) ==
  Judged(s, "paid" \in s.wins \/ ~s.record.owned, s.wins = {})

=============================================================================

----------------------------- MODULE ProbeAudits ---------------------------
(***************************************************************************)
(* Every detector of packages/probes over the audits of one site that      *)
(* differ in how much they read: a behaviour starts with what one audit    *)
(* holds, and each step is the audit that holds one thing more, misses one *)
(* thing more, or is judged after the supplied record's review date.  The  *)
(* verdict of each audit is what ProbeRun!Observe says of its facts.       *)
(***************************************************************************)
EXTENDS ProbeRun

CONSTANTS
  Detectors,   \* the registered ids under study
  Case,        \* [detector -> what its audits may hold]: `bases`, the facts to
               \* start from; `finds` and `misses`, the <<field, element>> pairs
               \* an audit may hold besides; `cuts`, the <<field, value>> pairs of
               \* a fact that could not be read; `ordered`, the fields that are
               \* sequences; `keyed`, those whose elements have a URL each
  MaxSteps     \* bound on the steps of a behaviour

VARIABLES
  probe,       \* the detector
  facts,       \* what this audit holds for it
  said,        \* the outcome of its observation
  missed,      \* the audit holds something it could not read
  steps        \* how many steps have been taken

vars == <<probe, facts, said, missed, steps>>

May == Case

Holds(field) == IF field \in May[probe].ordered THEN {facts[field][i] : i \in DOMAIN facts[field]}
                ELSE facts[field]
Distinct(field, e) == field \in May[probe].keyed => \A x \in Holds(field) : x.url # e.url

With(field, e) ==
  [facts EXCEPT ![field] = IF field \in May[probe].ordered THEN Append(@, e) ELSE @ \cup {e}]

AuditsInit ==
  /\ probe \in Detectors
  /\ facts \in May[probe].bases
  /\ said = Observe(probe, facts)
  /\ missed = FALSE
  /\ steps = 0

Observes ==
  /\ steps < MaxSteps
  /\ steps' = steps + 1
  /\ facts' # facts
  /\ said' = Observe(probe, facts')
  /\ UNCHANGED probe

(* One more link, page, node, entry, row... read.                          *)
FindsMore ==
  /\ \E x \in May[probe].finds : Distinct(x[1], x[2]) /\ facts' = With(x[1], x[2])
  /\ UNCHANGED missed
  /\ Observes

(* One more that was truncated, out of budget or gave no answer.           *)
MissesMore ==
  /\ \E x \in May[probe].misses : Distinct(x[1], x[2]) /\ facts' = With(x[1], x[2])
  /\ missed' = TRUE
  /\ Observes

(* A page, report or handshake that was there fails to be read.            *)
ReadsLess ==
  /\ \E x \in May[probe].cuts : facts' = [facts EXCEPT ![x[1]] = x[2]]
  /\ missed' = TRUE
  /\ Observes

(* The supplied record passes its review date.                             *)
FallsDue ==
  /\ "record" \in DOMAIN facts
  /\ facts' = [facts EXCEPT !.record.overdue = TRUE]
  /\ UNCHANGED missed
  /\ Observes

AuditsNext == FindsMore \/ MissesMore \/ ReadsLess \/ FallsDue

AuditsSpec == AuditsInit /\ [][AuditsNext]_vars

----------------------------------------------------------------------------
(* Detectors one reading of which settles the question, whatever the rest  *)
(* would have said: a crumb that resolves, an h3 advertisement, a rule of  *)
(* robots.txt, a page that is no orphan already...                         *)
SettledByWhatIsRead ==
  {"breadcrumb-navigation", "http-version", "lcp-element-strategy", "ai-crawler-directive-verify",
   "trust-pages-presence", "orphan-pages", "sitemap-validity", "favicon-site-name",
   "pagination-crawl-path", "parameter-crawl-space", "faceted-nav-control"}

(* Detectors that drop what they could not read and judge what is left, if *)
(* anything is: a truncated page, a run of axe or a render that failed, a  *)
(* request list that was cut, a reported page the crawl did not reach, an  *)
(* environment that did not answer.                                        *)
JudgeTheRest ==
  {"manual-a11y-evaluation", "a11y-regression-sampling", "batch-page-quality", "author-date-signals",
   "news-article-policy", "indexation-review", "staging-protection", "raw-rendered-crawl-diff",
   "analytics-consent-matrix", "live-analytics-smoke"}

(* A pass is earned: no other detector passes an audit that holds evidence *)
(* it could not read.                                                      *)
PassIsEarned == said = "pass" /\ missed => probe \in SettledByWhatIsRead \cup JudgeTheRest

(* <<detector, field>>: its failure is an absence or a share, and one more *)
(* element of the field may be what was missing or change the share.       *)
Curable ==
  {<<"brand-entity-consistency", "listed">>, <<"ci-seo-guards", "caught">>,
   <<"competitor-serp-baseline", "competitors">>, <<"conditional-template-monitor", "runs">>,
   <<"content-decay", "rows">>, <<"faceted-nav-control", "pages">>, <<"favicon-site-name", "names">>,
   <<"gsc-property-ownership", "owners">>, <<"heading-outline", "headings">>,
   <<"hreflang-implementation", "pages">>, <<"index-bloat", "documents">>, <<"index-bloat", "pages">>,
   <<"inherited-domain-history", "checks">>, <<"live-analytics-smoke", "renders">>,
   <<"migration-map-builder", "entries">>, <<"orphan-pages", "notReached">>, <<"orphan-pages", "pages">>,
   <<"orphan-pages", "seeds">>, <<"parameter-crawl-space", "urls">>, <<"primary-heading", "headings">>,
   <<"reporting-anomaly-thresholds", "anomalies">>, <<"reporting-anomaly-thresholds", "rows">>,
   <<"schema-validation-parity", "rendered">>, <<"sitemap-validity", "entries">>,
   <<"template-lab-perf", "reports">>, <<"trust-pages-presence", "pages">>,
   <<"url-inventory-builder", "matrix">>, <<"url-inventory-builder", "pages">>,
   <<"videoobject-schema", "nodes">>}
Cured == \E field \in DOMAIN facts : facts'[field] # facts[field] /\ <<probe, field>> \in Curable

(* Once a detector has failed a site, an audit of the same site that reads *)
(* one thing more, or misses one thing more, does not clear it: the        *)
(* failure stands, or the detector says it cannot tell.  One that lost     *)
(* what it had read may hold the site, but never passes it.                *)
FailuresStick ==
  [][said = "fail" /\ ~Cured =>
       /\ FindsMore \/ MissesMore => said' \in {"fail", "error"}
       /\ ReadsLess => said' # "pass"]_vars

(* An overdue feed is held before it is compared, and a site that never    *)
(* disavowed a link has nothing in its record to review.                   *)
ReviewedOtherwise == {"merchant-feed-parity", "backlink-monitor"}

(* A record that falls overdue holds a pass for review and changes nothing *)
(* else: it neither fails a site nor hides what failed, and an audit that  *)
(* has no date holds nothing for its age.                                  *)
OverdueOnlyHolds ==
  [][FallsDue /\ probe \notin ReviewedOtherwise =>
       said' = IF said = "pass" /\ facts.dated THEN "warn" ELSE said]_vars

=============================================================================

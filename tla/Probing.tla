------------------------------ MODULE Probing ------------------------------
(***************************************************************************)
(* packages/probes, types.ts and registry.ts: what a detector may say and  *)
(* how a run collects it.  A detector is a function of what one crawl and  *)
(* its inputs hold; the Probes modules give one operator per detector, on  *)
(* a record of the facts its source tells apart.  A field that is a set    *)
(* holds the kinds of link, image, page, entry... the detector walks over; *)
(* wording, samples and counts are left out unless a verdict turns on them.*)
(***************************************************************************)
EXTENDS Naturals, Integers, Sequences, FiniteSets

Outcome == {"pass", "fail", "warn", "not-applicable", "error"}

(* A detector's body is a run of early returns: the first rung whose       *)
(* condition holds speaks, and `last` when none does.                      *)
Ladder(rungs, last) ==
  LET holds == {i \in DOMAIN rungs : rungs[i][1]}
  IN IF holds = {} THEN last
     ELSE rungs[CHOOSE i \in holds : \A j \in holds : i <= j][2]

(* The close of most detectors: a defect fails, a doubt warns.             *)
Weigh(defect, doubt) ==
  IF defect THEN "fail" ELSE IF doubt THEN "warn" ELSE "pass"

(* The guard of every page detector: no parsed HTML, no question.          *)
OnHtml(page, said) == IF page.html THEN said ELSE "not-applicable"

(* Pages a site detector counts: parsed, and answered with a 200.          *)
Read(pages) == {p \in pages : p.html /\ p.ok}

(* Mutant: a review date judged against whatever day it is.               *)
HeldRecordToday(record, dated) == ~record.owned \/ record.overdue

(* inputRecordProblem: why a supplied record cannot back a pass.  `dated`: *)
(* the crawl carries the time the audit is judged at; without it only the  *)
(* owner is asked for.                                                     *)
HeldRecord(record, dated) == ~record.owned \/ (dated /\ record.overdue)

(* notProductionReason: the URL matrix has a production row, and the origin*)
(* is none of the environments the inputs list.                            *)
OnProduction(site) == site.productionRow /\ ~site.elsewhere

(* evaluateGuard: what blocks a deploy is a `fail` of a guard detector.    *)
GuardProbe == {"metadata-completeness", "canonicalization", "sitemap-canonical-agreement",
               "robots-txt", "broken-links"}
GuardPasses(runs) == ~\E r \in runs : r.probe \in GuardProbe /\ r.outcome = "fail"

=============================================================================

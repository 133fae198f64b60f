------------------------------ MODULE MCProbes -----------------------------
(***************************************************************************)
(* The instance of ProbeAudits for TLC, and what ProbeRun's operators on   *)
(* whole runs must satisfy, evaluated over every small input.              *)
(***************************************************************************)
EXTENDS ProbeAudits, MCProbeSites

MCCase == PageCase @@ SiteCase
MCDetectors == DOMAIN MCCase

----------------------------------------------------------------------------
Detector == [id : {"a", "b"}, scope : {"page", "site"}, htmlOnly : BOOLEAN, afterOthers : BOOLEAN]
Registered == {ds \in {<<d, e>> : d, e \in Detector} : ds[1].id # ds[2].id}
Crawls == {<<>>, <<[url |-> "u1", html |-> TRUE]>>, <<[url |-> "u1", html |-> TRUE], [url |-> "u2", html |-> FALSE]>>}
Last(d) == d.scope = "site" /\ d.afterOthers
Throws(d) == d.id = "b" /\ ~d.htmlOnly
Subjects(crawl) == {NoPage} \cup {crawl[i] : i \in DOMAIN crawl}
Bodies(ds, crawl) ==
  [at \in {ds[i].id : i \in DOMAIN ds} \X Subjects(crawl) |->
     [throws |-> \E i \in DOMAIN ds : ds[i].id = at[1] /\ Throws(ds[i]), says |-> <<at[2]>>]]
Asked(d, crawl) ==
  IF d.scope = "site" THEN {NoPage} ELSE {crawl[i] : i \in {j \in DOMAIN crawl : d.htmlOnly => crawl[j].html}}

(* runProbes asks each detector once of each thing it judges, whichever of *)
(* them throw, and one that judges the runs is given all of the others'    *)
(* and none of its own kind.                                               *)
ASSUME EachIsAskedOnce ==
  \A ds \in Registered, crawl \in Crawls :
    LET runs == RunProbes(ds, crawl, Bodies(ds, crawl))
        of(d) == {i \in DOMAIN runs : runs[i].probe = d.id}
        others == SelectSeq(runs, LAMBDA r : \A i \in DOMAIN ds : ds[i].id = r.probe => ~Last(ds[i]))
    IN \A i \in DOMAIN ds :
         /\ {runs[j].page : j \in of(ds[i])} = Asked(ds[i], crawl)
         /\ Cardinality(of(ds[i])) = Cardinality(Asked(ds[i], crawl))
         /\ \A j \in of(ds[i]) :
              /\ runs[j].outcome = IF Throws(ds[i]) THEN "error" ELSE <<runs[j].page>>
              /\ runs[j].shown = IF Last(ds[i]) THEN others ELSE <<>>

(* evaluateGuard: a deploy one set of runs blocks, more runs do not let    *)
(* through, and what no detector is sure of blocks none.                   *)
GuardRuns == [probe : {"canonicalization", "robots-txt", "soft-404"}, outcome : {"pass", "warn", "error", "fail"}]
ASSUME GuardHolds ==
  \A r, s \in GuardRuns :
    /\ GuardPasses({r, s}) => GuardPasses({r})
    /\ "fail" \notin {r.outcome, s.outcome} => GuardPasses({r, s})

(* The matrix: implementing one more detector covers no check less, and a  *)
(* check is coverable, attested or named by what it is missing.            *)
Check == [detectors : SUBSET {"a", "b"}, automation : {"automated", "attested"}]
ASSUME CoverageGrows ==
  \A check \in Check, probes \in SUBSET {"a", "b", "c"} :
    /\ Coverable(check, probes) => \A p \in {"a", "b", "c"} : Coverable(check, probes \cup {p})
    /\ Coverable(check, probes) \/ check.automation = "attested" \/ MissingDetectors(check, probes) # {}
    /\ OrphanProbes({check}, probes) \cap Declared({check}) = {}

(* What one audit leaves, the next can read.                               *)
Crawled == [parsed : BOOLEAN, status : {"number", "null"}, finalUrl : {"text", "null"}, metaRobots : {"text", "null"},
            canonical : {"text", "null"}, title : {"text", "null"}, xRobotsTag : {"text", "null"},
            h1 : {"text", "null"}, words : {"number"}, axe : {"ran", "failed", "not asked for"}]
ASSUME SnapshotIsReadable ==
  \A page \in Crawled, settings \in {"absent", "whole"}, outcome \in Outcome :
    ParsePrevious(SnapshotAudit({page}, {[outcome |-> outcome]}, settings))

=============================================================================

------------------------------ MODULE Scoring ------------------------------
(***************************************************************************)
(* packages/core: what the states of an audit's checks amount to.  Pure    *)
(* functions of the states, the release, the review log and the instant    *)
(* the assessment is taken at: launch readiness (readiness.ts), the state  *)
(* of one check's review history (review.ts), and the cutover assessment   *)
(* built from both (cutover.ts).  Where the code counts, the model keeps   *)
(* the set that is counted.                                                *)
(***************************************************************************)
EXTENDS Integers, FiniteSets

CONSTANTS
  Check,         \* the corpus: check ids
  Gate,          \* those that are launch gates
  Universal,     \* those whose applicability rule is universal
  Class,         \* evidenceClassOf: [Check -> planning, preflight, live]
  Citation       \* what a run or a state can cite as evidence

ASSUME CorpusAssumption == Gate \subseteq Check /\ Universal \subseteq Check
ASSUME ClassAssumption == Class \in [Check -> {"planning", "preflight", "live"}]

Applicability == {"yes", "no", "review"}
Status == {"not-started", "in-progress", "passed", "failed", "skipped"}
Coverage == {"verified", "attested", "unknown", "not-applicable"}

(* A CheckState.  `cites` holds its evidence text and its evidenceRef;     *)
(* `expires` is attestationExpiresAt, 0 on a row nobody attested.          *)
State == [ applicability : Applicability, rationale : BOOLEAN,
           status : Status, coverage : Coverage,
           cites : SUBSET Citation, expires : Nat ]

(* stateOf for a check with no row.                                        *)
Unstated(c) ==
  [ applicability |-> IF c \in Universal THEN "yes" ELSE "review",
    rationale |-> FALSE, status |-> "not-started", coverage |-> "unknown",
    cites |-> {}, expires |-> 0 ]

(* Mutant: an attestation is good through the instant it expires at.       *)
LapsedAfter(s, at) == s.coverage = "attested" /\ s.expires < at

(* attestationLapsed, effectiveState                                       *)
Lapsed(s, at) == s.coverage = "attested" /\ s.expires <= at

Effective(s, at) ==
  IF ~Lapsed(s, at) THEN s
  ELSE [s EXCEPT !.coverage = "unknown",
                 !.status = IF @ = "passed" THEN "in-progress" ELSE @]

(* computeLaunchReadiness                                                  *)
Launch(states, at) ==
  LET now == [c \in Check |-> Effective(states[c], at)]
      applies == { c \in Gate : now[c].applicability = "yes" }
      outstanding == { c \in applies : now[c].status # "passed" }
      failed == { c \in applies : now[c].status = "failed" }
      undecided == { c \in Gate : now[c].applicability = "review" }
  IN [ outstanding |-> outstanding,
       failed      |-> failed,
       undecided   |-> undecided,
       lapsed      |-> { c \in outstanding : states[c].status = "passed" },
       violations  |-> { c \in applies : now[c].status = "skipped" }
                         \cup { c \in Check : /\ now[c].applicability = "no"
                                              /\ ~now[c].rationale },
       decision    |-> IF outstanding \cup failed \cup undecided = {} THEN "GO" ELSE "HOLD" ]

-----------------------------------------------------------------------------
(* Releases and reviews.  Times are Nat, 0 for a blank one.                *)

Binding == [ scope : Nat, ready : BOOLEAN ]

(* `scope` stands for the release's id, scope revision and origin, which a *)
(* run and a binding must all repeat; `filled` for the fields that need    *)
(* only hold something.                                                    *)
Release == [ scope : Nat, filled : BOOLEAN, approvedAt : Nat,
             authorizer : BOOLEAN, authorizedAt : Nat, cutoverAt : Nat,
             binding : Binding ]

Result == Status \cup {"reopened"}
Environment == {"planning", "pre-production", "production"}

(* `next` is nextReviewAt; `trigger` says an event trigger is filled in.   *)
Run(Id) == [ id : Id, check : Check, scope : Nat, environment : Environment,
             testedAt : Nat, reviewedAt : Nat, result : Result,
             evidence : Citation, next : Nat, trigger : BOOLEAN ]

(* environmentFits                                                         *)
Fits(class, environment) ==
  CASE class = "planning"  -> environment = "planning"
    [] class = "live"      -> environment = "production"
    [] class = "preflight" -> environment \in {"pre-production", "production"}

(* reviewRunProblem, for a run whose text fields are filled.               *)
Sound(run, at) ==
  /\ run.testedAt > 0
  /\ run.testedAt <= run.reviewedAt
  /\ run.reviewedAt <= at
  /\ run.next # 0 => run.next > run.testedAt
  /\ run.result = "passed" => run.next # 0 \/ run.trigger
  /\ run.result = "reopened" => run.trigger

(* inCurrentContext                                                        *)
InContext(run, c, release) ==
  /\ release.scope # 0
  /\ run.scope = release.scope
  /\ Fits(Class[c], run.environment)

OwnRuns(c, log) == { run \in log : run.check = c }

(* Mutant: the runs sorted the other way.                                  *)
OldestRuns(c, log, release) ==
  LET current == { run \in OwnRuns(c, log) : InContext(run, c, release) }
  IN { run \in current : \A other \in current : other.testedAt >= run.testedAt }

LatestRuns(c, log, release) ==
  LET current == { run \in OwnRuns(c, log) : InContext(run, c, release) }
  IN { run \in current : \A other \in current : other.testedAt <= run.testedAt }

(* readReview, in the workbook's order of precedence.                      *)
Reading(c, s, log, release, at) ==
  LET latest == LatestRuns(c, log, release)
      run == CHOOSE r \in latest : TRUE
  IN CASE latest = {} -> IF s.status = "passed" THEN "review-required" ELSE "not-reviewed"
       [] Cardinality(latest) > 1 -> "ambiguous"
       [] OTHER ->
            IF \E any \in OwnRuns(c, log) : ~Sound(any, at) THEN "invalid"
            ELSE IF run.result \in {"reopened", "failed"} THEN run.result
            ELSE IF run.next # 0 /\ run.next < at THEN "overdue"
            ELSE IF s.status # run.result \/ run.evidence \notin s.cites THEN "reconcile"
            ELSE IF run.result = "passed" THEN "current" ELSE "unfinished"

(* releaseProblems: which of the record's parts is blank or out of order.  *)
ReleaseProblems(release, at) ==
  { p \in {"scope", "fields", "approval"} :
      CASE p = "scope"    -> release.scope = 0
        [] p = "fields"   -> ~release.filled
        [] p = "approval" -> release.approvedAt = 0 \/ release.approvedAt > at }

(* Mutant: a person and the right order of instants are enough.            *)
RecordValidUnbound(release, at) ==
  /\ release.authorizer
  /\ release.approvedAt > 0
  /\ release.approvedAt <= release.authorizedAt
  /\ release.authorizedAt <= release.cutoverAt
  /\ release.cutoverAt <= at

(* cutoverRecordValid                                                      *)
RecordValid(release, at) ==
  /\ release.authorizer
  /\ release.approvedAt > 0
  /\ release.approvedAt <= release.authorizedAt
  /\ release.authorizedAt <= release.cutoverAt
  /\ release.cutoverAt <= at
  /\ release.binding = [scope |-> release.scope, ready |-> TRUE]

(* A current review counts for a live gate only if its test came after the *)
(* cutover that actually happened.                                         *)
Evidenced(c, s, log, release, at) ==
  /\ Reading(c, s, log, release, at) = "current"
  /\ Class[c] = "live" =>
       /\ release.cutoverAt # 0
       /\ \A run \in LatestRuns(c, log, release) : run.testedAt >= release.cutoverAt

(* computeCutoverReadiness                                                 *)
Cutover(states, release, log, at) ==
  LET launch == Launch(states, at)
      now == [c \in Check |-> Effective(states[c], at)]
      applies == { c \in Gate : now[c].applicability = "yes" }
      early == { c \in applies : Class[c] # "live" }
      bare == { c \in applies : ~Evidenced(c, now[c], log, release, at) }
      inputErrors == { run \in log :
                         ~Sound(run, at) \/ \E other \in log \ {run} : other.id = run.id }
      scopeErrors == ReleaseProblems(release, at)
                       \cup { c \in Gate : now[c].applicability = "no" /\ ~now[c].rationale }
      ready == inputErrors = {} /\ scopeErrors = {} /\ launch.undecided = {}
                 /\ early \cap (launch.outstanding \cup bare) = {}
      final == ready /\ launch.outstanding = {} /\ bare = {} /\ RecordValid(release, at)
  IN [ cutover  |-> IF ready THEN "READY FOR CUTOVER" ELSE "HOLD",
       final    |-> IF final THEN "GO" ELSE "HOLD",
       blockers |-> launch.outstanding \cup bare ]

=============================================================================

------------------------------ MODULE Grading ------------------------------
(***************************************************************************)
(* packages/grader, grade.ts and scope.ts: from what the probes observed   *)
(* to a verdict on each check.  An observation is an outcome of a detector *)
(* on one subject; only whether a detector reported an outcome at all can  *)
(* change a verdict, so `evidence` gives each detector its set of outcomes.*)
(***************************************************************************)
EXTENDS Scoring

CONSTANTS
  Detector,      \* detector ids the corpus names
  Implemented,   \* those the probe registry holds
  DetectorsOf,   \* check.detectors
  Automation,    \* check.automation
  Flag,          \* site-profile flags
  FlagsOf,       \* applicability.any
  Verdict        \* the citation an engine-written verdict carries

ASSUME DetectorsAssumption == DetectorsOf \in [Check -> SUBSET Detector]
ASSUME AutomationAssumption == Automation \in [Check -> {"automated", "assisted", "attested"}]
ASSUME FlagsAssumption == FlagsOf \in [Check -> SUBSET Flag]
ASSUME VerdictAssumption == Verdict \in Citation

Outcome == {"pass", "fail", "warn", "not-applicable", "error"}

Basis == {"out-of-scope", "scope-undecided", "attested-only", "detectors-missing",
          "no-observation", "probe-error", "verified-fail", "held-by-warning",
          "awaiting-confirmation", "nothing-to-verify", "verified-pass"}

(* resolveScope                                                            *)
Scope(c, flags) ==
  IF c \in Universal \/ FlagsOf[c] \cap flags # {} THEN "yes"
  ELSE IF flags = {} THEN "review" ELSE "no"

Observed(c, evidence) == UNION { evidence[d] : d \in DetectorsOf[c] }

(* gradeCheck: the first of its returns that applies.                      *)
BasisOf(c, flags, evidence) ==
  LET seen == Observed(c, evidence)
  IN CASE Scope(c, flags) = "no"      -> "out-of-scope"
       [] Scope(c, flags) = "review"  -> "scope-undecided"
       [] OTHER ->
            IF Automation[c] = "attested" THEN "attested-only"
            ELSE IF DetectorsOf[c] \ Implemented # {} THEN "detectors-missing"
            ELSE IF \E d \in DetectorsOf[c] : evidence[d] = {} THEN "no-observation"
            ELSE IF "error" \in seen THEN "probe-error"
            ELSE IF "fail" \in seen THEN "verified-fail"
            ELSE IF "warn" \in seen THEN "held-by-warning"
            ELSE IF Automation[c] = "assisted" THEN "awaiting-confirmation"
            ELSE IF "pass" \in seen THEN "verified-pass" ELSE "nothing-to-verify"

(* Mutant: the coverage column takes the reason.                           *)
GradedByReason(c, flags, basis) ==
  [ Unstated(c) EXCEPT !.applicability = Scope(c, flags), !.coverage = basis ]

Graded(c, flags, basis) ==
  [ applicability |-> Scope(c, flags),
    rationale     |-> basis = "out-of-scope",
    status        |-> CASE basis = "verified-fail" -> "failed"
                        [] basis \in {"held-by-warning", "awaiting-confirmation"} -> "in-progress"
                        [] basis \in {"nothing-to-verify", "verified-pass"} -> "passed"
                        [] OTHER -> "not-started",
    coverage      |-> CASE basis \in {"verified-fail", "verified-pass"} -> "verified"
                        [] basis \in {"out-of-scope", "nothing-to-verify"} -> "not-applicable"
                        [] OTHER -> "unknown",
    cites         |-> {Verdict},
    expires       |-> 0 ]

=============================================================================

---------------------------- MODULE ReleaseDesk ----------------------------
(***************************************************************************)
(* packages/grader, record.ts, attestation.ts, release.ts, release-file.ts:*)
(* one audit that names a release, and the people and the grades that      *)
(* write about it.                                                         *)
(*                                                                         *)
(* Every transaction runs at the database's default level, read committed: *)
(* recordGrade is the statements it makes, with other transactions between *)
(* them, and holds the rows it has written until it commits.  The other    *)
(* writers make what they read and write visible in one step.              *)
(***************************************************************************)
EXTENDS Grading

CONSTANTS
  Statement,        \* the citation an attested row carries: a person's words
  ExceptionProof,   \* EXCEPTION_PROOF_GATES
  RunId,
  Signable,         \* bound: the statuses a person signs for
  Sightings,        \* bound: what the probes may have observed
  SiteFlags,        \* the site's profile
  MaxTime, MaxGrades, MaxAttests, MaxScope   \* bounds

ASSUME StatementAssumption == Statement \in Citation \ {Verdict}
ASSUME ExceptionAssumption == ExceptionProof \subseteq Check
ASSUME SignableAssumption == Signable \subseteq Status
ASSUME SightingsAssumption == Sightings \subseteq [Detector -> SUBSET Outcome]

VARIABLES
  now,           \* the clock, as far as the times written down tell it
  states,        \* check_states of the audit, Unstated(c) for no row
  attestations,  \* append-only
  release,       \* the releases row the audit names
  log,           \* review_runs of the site
  grade,         \* the recordGrade under way
  frozen,        \* audits.readiness, and the basis of each verdict in it
  shown,         \* <<scope, at>> of every READY FOR CUTOVER ever frozen
  grades         \* how many grades are done, or under way

deskVars == <<now, states, attestations, release, log, grade, frozen, shown, grades>>

Attestation == [ check : Check, expires : Nat, excludes : BOOLEAN ]

(* A grade at work: `late` holds the checks attested since its select;     *)
(* everything else is a local of recordGrade.                              *)
Grade == [ phase   : {"none", "read", "written"},
           at      : Nat,
           basis   : [Check -> Basis \cup {"none"}],
           honored : SUBSET Check,
           merged  : [Check -> State],
           release : Release,
           late    : SUBSET Check ]

Frozen == [ at : Nat, scope : Nat, basis : [Check -> Basis \cup {"none"}],
            launch : {"GO", "HOLD", "none"}, cutover : {"READY FOR CUTOVER", "HOLD"},
            final : {"GO", "HOLD"} ]

NoRelease == [ scope |-> 1, filled |-> TRUE, approvedAt |-> 1, authorizer |-> FALSE,
               authorizedAt |-> 0, cutoverAt |-> 0,
               binding |-> [scope |-> 0, ready |-> FALSE] ]

NoBasis == [c \in Check |-> "none"]
NoStates == [c \in Check |-> Unstated(c)]

NoGrade == [ phase |-> "none", at |-> 0, basis |-> NoBasis, honored |-> {},
             merged |-> NoStates, release |-> NoRelease, late |-> {} ]

-----------------------------------------------------------------------------
(* recordGrade                                                             *)

(* Mutant: the machine outranks every sign-off.                            *)
HonoredNowhere(rows, basis) == {}

Honored(rows, basis) ==
  { c \in Check : /\ rows[c].coverage = "attested"
                  /\ ~(c \in ExceptionProof /\ basis[c] = "verified-fail") }

(* Mutant: what is frozen is the engine's verdict alone.                   *)
MergeNothing(rows, basis) == [c \in Check |-> Graded(c, SiteFlags, basis[c])]

Merge(rows, basis) ==
  [c \in Check |-> IF c \in Honored(rows, basis) THEN rows[c]
                   ELSE Graded(c, SiteFlags, basis[c])]

(* gradeAudit, with whatever the probes saw, as of now; then the select,   *)
(* and the merge that the frozen readiness is read from.  One step: what   *)
(* is attested while it grades was attested, for the select, before.       *)
GradeReads ==
  /\ grade.phase = "none"
  /\ grades < MaxGrades
  /\ grades' = grades + 1
  /\ \E evidence \in Sightings :
       LET basis == [c \in Check |-> BasisOf(c, SiteFlags, evidence)]
       IN grade' = [NoGrade EXCEPT
            !.phase = "read", !.at = now, !.basis = basis,
            !.honored = Honored(states, basis), !.merged = Merge(states, basis)]
  /\ UNCHANGED <<now, states, attestations, release, log, frozen, shown>>

(* The delete and the inserts, which lock the rows they touch, and then    *)
(* loadRelease's first statement; the review log is its second.            *)
GradeWrites ==
  /\ grade.phase = "read"
  /\ grade' = [grade EXCEPT !.phase = "written", !.release = release]
  /\ UNCHANGED <<now, states, attestations, release, log, frozen, shown, grades>>

GradeCommits ==
  LET readiness == Cutover(grade.merged, grade.release, log, grade.at)
  IN /\ grade.phase = "written"
     /\ states' = [c \in Check |-> IF c \in grade.honored THEN states[c]
                                ELSE Graded(c, SiteFlags, grade.basis[c])]
     /\ frozen' = [ at |-> grade.at, scope |-> grade.release.scope, basis |-> grade.basis,
                    launch |-> Launch(grade.merged, grade.at).decision,
                    cutover |-> readiness.cutover, final |-> readiness.final ]
     /\ shown' = IF readiness.cutover = "HOLD" THEN shown
                 ELSE shown \cup {<<grade.release.scope, grade.at>>}
     /\ grade' = NoGrade
     /\ UNCHANGED <<now, attestations, release, log, grades>>

(* The run fails, or the process dies: the transaction rolls back.         *)
GradeAborts ==
  /\ grade.phase # "none"
  /\ grade' = NoGrade
  /\ grades' = grades - 1
  /\ UNCHANGED <<now, states, attestations, release, log, frozen, shown>>

-----------------------------------------------------------------------------
(* recordAttestation                                                       *)

(* A check whose row the grade has written waits for it, and then finds    *)
(* its key taken: the attestation is refused.                              *)
Locked(c) == grade.phase = "written" /\ c \notin grade.honored

Attest(c, status, applicability, expires) ==
  /\ ~Locked(c)
  /\ Cardinality(attestations) < MaxAttests
  /\ expires > now
  /\ attestations' = attestations \cup
       {[check |-> c, expires |-> expires, excludes |-> applicability = "no"]}
  /\ states' = [states EXCEPT ![c] =
       [ applicability |-> applicability, rationale |-> applicability = "no",
         status |-> status, coverage |-> "attested", cites |-> {Statement},
         expires |-> expires ]]
  /\ grade' = IF grade.phase = "none" THEN grade
              ELSE [grade EXCEPT !.late = @ \cup {c}]
  /\ UNCHANGED <<now, release, log, frozen, shown, grades>>

-----------------------------------------------------------------------------
(* importReleaseFile: a file is the record as it stands with one edit, and *)
(* at most one run.  recordReviewRun is the same without a release.        *)

(* What a person may do to the record.  The binding is copied from the     *)
(* report the authorizer was shown.                                        *)
Edits ==
  { release,
    [release EXCEPT !.scope = @ + 1, !.approvedAt = now],
    [release EXCEPT !.authorizer = TRUE, !.authorizedAt = now,
       !.binding = [scope |-> frozen.scope, ready |-> frozen.cutover # "HOLD"]],
    [release EXCEPT !.cutoverAt = now] }

(* The runs a person may log: tested and reviewed now, in production but   *)
(* for planning, citing the audit's verdict or the words that were signed. *)
Runs ==
  { [ id |-> id, check |-> c, scope |-> release.scope,
      environment |-> IF Class[c] = "planning" THEN "planning" ELSE "production",
      testedAt |-> now, reviewedAt |-> now, result |-> result,
      evidence |-> IF Automation[c] = "attested" THEN Statement ELSE Verdict,
      next |-> IF result = "passed" THEN now + 1 ELSE 0, trigger |-> result # "passed" ] :
    id \in RunId,
    c \in Gate, result \in {"passed", "reopened"} }

(* Everything is checked before anything is written: a run that is not     *)
(* sound, or that the log holds differently, and nothing happens at all.   *)
Agrees(run) == \A old \in log : old.id = run.id => old = run

ImportRelease ==
  /\ \E edit \in Edits \ {release} : edit.scope <= MaxScope /\ release' = edit
  /\ UNCHANGED <<now, states, attestations, log, grade, frozen, shown, grades>>

(* Mutant: the runs go down whatever the log holds.                        *)
ImportRunAnyway(run) ==
  /\ Sound(run, now)
  /\ log' = log \cup {run}
  /\ UNCHANGED <<now, states, attestations, release, grade, frozen, shown, grades>>

ImportRun(run) ==
  /\ Sound(run, now)
  /\ Agrees(run)
  /\ log' = log \cup {run}
  /\ UNCHANGED <<now, states, attestations, release, grade, frozen, shown, grades>>

Tick ==
  /\ now < MaxTime
  /\ now' = now + 1
  /\ UNCHANGED <<states, attestations, release, log, grade, frozen, shown, grades>>

-----------------------------------------------------------------------------
DeskInit ==
  /\ now = 1
  /\ states = NoStates
  /\ attestations = {}
  /\ release = NoRelease
  /\ log = {}
  /\ grade = NoGrade
  /\ frozen = [ at |-> 0, scope |-> 0, basis |-> NoBasis, launch |-> "none",
                cutover |-> "HOLD", final |-> "HOLD" ]
  /\ shown = {}
  /\ grades = 0

DeskNext ==
  \/ GradeReads \/ GradeWrites \/ GradeCommits \/ GradeAborts
  \/ \E c \in Check, status \in Signable : Attest(c, status, "yes", now + 1)
  \/ \E c \in Check : Attest(c, "not-started", "no", now + 1)
  \/ ImportRelease
  \/ \E run \in Runs : ImportRun(run)
  \/ Tick

DeskSpec == DeskInit /\ [][DeskNext]_deskVars

-----------------------------------------------------------------------------
(* Properties.                                                             *)

(* The tables hold what their columns can.                                 *)
DeskTypeOK ==
  /\ now \in Nat /\ grades \in Nat
  /\ states \in [Check -> State]
  /\ attestations \in SUBSET Attestation
  /\ release \in Release
  /\ log \subseteq Run(RunId)
  /\ grade \in Grade
  /\ frozen \in Frozen
  /\ shown \in SUBSET (Nat \X Nat)

(* "A human sign-off outranks a machine verdict": an attested row goes     *)
(* only to a later attestation, or on an exception-proof gate to a         *)
(* measurement that fails it, or when it was signed between the grade's    *)
(* select and its delete (the race record.ts:78-106 leaves open).          *)
AttestationSurvives ==
  [][\A c \in Check :
       (states[c].coverage = "attested" /\ states'[c].coverage # "attested")
         => \/ c \in ExceptionProof /\ grade.basis[c] = "verified-fail"
            \/ c \in grade.late]_deskVars

(* What is frozen is the verdict on the rows that are left in the table:   *)
(* "the merge of what the engine found and what a person signed".          *)
FrozenMatches ==
  [][(frozen' # frozen /\ grade.late = {})
       => frozen'.launch = Launch(states', frozen'.at).decision]_deskVars

(* A GO rests on somebody: each gate in scope was measured as passing in   *)
(* that very grade, or a person took it out of scope, or signed for it and *)
(* the signature still ran; and no exception-proof gate measured failing.  *)
GoIsVouchedFor ==
  frozen.launch = "GO" =>
    \A c \in Gate :
      /\ \/ /\ Automation[c] = "automated"
            /\ frozen.basis[c] \in {"verified-pass", "nothing-to-verify"}
         \/ frozen.basis[c] = "out-of-scope"
         \/ \E a \in attestations : a.check = c /\ (a.expires > frozen.at \/ a.excludes)
      /\ ~(c \in ExceptionProof /\ frozen.basis[c] = "verified-fail")

(* effectiveState: "A lapsed attestation stays on the record, and its      *)
(* check goes back to needing one".                                        *)
LapsedNeedsAnother ==
  frozen.launch = "GO" =>
    \A c \in Gate :
      (Automation[c] = "attested" /\ frozen.basis[c] = "attested-only") =>
        \E a \in attestations : a.check = c /\ a.expires > frozen.at

(* A final GO is a GO for the release it names: its scope was shown READY  *)
(* FOR CUTOVER before the cutover, and for no live gate in scope does a    *)
(* test from before that cutover stand in for one after it.                *)
FinalWasReady ==
  [][(frozen' # frozen /\ frozen'.final = "GO") =>
       /\ \E s \in shown : s[1] = frozen'.scope /\ s[2] <= grade.release.authorizedAt
       /\ \A c \in Gate :
            (Class[c] = "live" /\ grade.merged[c].applicability = "yes") =>
              \E run \in log : /\ run.check = c /\ run.scope = frozen'.scope
                               /\ run.result = "passed"
                               /\ run.testedAt >= grade.release.cutoverAt]_deskVars

(* A regression logged against a gate holds it until a later test passes.  *)
ReopenedHolds ==
  [][(frozen' # frozen /\ frozen'.cutover # "HOLD") =>
       \A bad \in log :
         ( /\ bad.result = "reopened" /\ bad.scope = frozen'.scope
           /\ Class[bad.check] # "live" /\ grade.merged[bad.check].applicability = "yes" )
           => \E run \in log : /\ run.check = bad.check /\ run.scope = bad.scope
                               /\ run.result = "passed" /\ run.testedAt > bad.testedAt]_deskVars

(* "A review run is appended, never edited."                               *)
LogIsHistory ==
  [][log \subseteq log' /\ \A a, b \in log' : a.id = b.id => a = b]_deskVars

=============================================================================

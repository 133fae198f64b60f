------------------------- MODULE ReleaseDeskSafety -------------------------
(***************************************************************************)
(* Theorems about ReleaseDesk, for any corpus, any evidence classes, any   *)
(* number of grades, signatures, releases and runs.                        *)
(***************************************************************************)
EXTENDS ReleaseDesk, FiniteSetTheorems, TLAPS

-----------------------------------------------------------------------------
(* What grading says of one check.                                         *)

LEMMA ScopeType ==
  ASSUME NEW c \in Check, NEW flags
  PROVE  Scope(c, flags) \in Applicability
BY DEF Scope, Applicability

LEMMA BasisType ==
  ASSUME NEW c \in Check, NEW flags, NEW evidence
  PROVE  BasisOf(c, flags, evidence) \in Basis
BY ScopeType DEF BasisOf, Basis, Applicability

(* A verdict in the check's favour is the engine's own, and takes an       *)
(* automated check; only scope excludes one.                               *)
LEMMA BasisMeans ==
  ASSUME NEW c \in Check, NEW flags, NEW evidence
  PROVE  LET b == BasisOf(c, flags, evidence)
         IN /\ b = "out-of-scope" <=> Scope(c, flags) = "no"
            /\ b \in {"verified-pass", "nothing-to-verify"} => Automation[c] = "automated"
<1>1. Automation[c] \in {"automated", "assisted", "attested"}
  BY AutomationAssumption
<1>2. Scope(c, flags) \in Applicability
  BY ScopeType
<1> QED BY <1>1, <1>2 DEF BasisOf, Applicability

LEMMA GradedType ==
  ASSUME NEW c \in Check, NEW flags, NEW basis
  PROVE  /\ Graded(c, flags, basis) \in State
         /\ Graded(c, flags, basis).coverage # "attested"
<1>1. Scope(c, flags) \in Applicability
  BY ScopeType
<1>2. Graded(c, flags, basis).status \in Status
  BY DEF Graded, Status
<1>3. /\ Graded(c, flags, basis).coverage \in Coverage
      /\ Graded(c, flags, basis).coverage # "attested"
  BY DEF Graded, Coverage
<1>4. {Verdict} \in SUBSET Citation
  BY VerdictAssumption
<1> QED BY <1>1, <1>2, <1>3, <1>4 DEF Graded, State

LEMMA UnstatedType ==
  ASSUME NEW c \in Check
  PROVE  /\ Unstated(c) \in State
         /\ Unstated(c).coverage # "attested"
BY DEF Unstated, State, Applicability, Status, Coverage

LEMMA MergeType ==
  ASSUME NEW rows \in [Check -> State], NEW basis
  PROVE  Merge(rows, basis) \in [Check -> State]
BY GradedType DEF Merge

-----------------------------------------------------------------------------
(* Types.                                                                  *)

LEMMA RunType ==
  ASSUME DeskTypeOK, NEW run \in Runs
  PROVE  run \in Run(RunId) /\ run.check \in Gate
<1>1. PICK id \in RunId, c \in Gate, result \in {"passed", "reopened"} :
        run = [ id |-> id, check |-> c, scope |-> release.scope,
                environment |-> IF Class[c] = "planning" THEN "planning" ELSE "production",
                testedAt |-> now, reviewedAt |-> now, result |-> result,
                evidence |-> IF Automation[c] = "attested" THEN Statement ELSE Verdict,
                next |-> IF result = "passed" THEN now + 1 ELSE 0,
                trigger |-> result # "passed" ]
  BY DEF Runs
<1>2. release.scope \in Nat /\ now \in Nat
  BY DEF DeskTypeOK, Release
<1>3. c \in Check
  BY CorpusAssumption
<1>4. Statement \in Citation /\ Verdict \in Citation
  BY StatementAssumption, VerdictAssumption
<1>5. run.evidence \in Citation /\ run.environment \in Environment
  BY <1>1, <1>4 DEF Environment
<1>6. run.next \in Nat /\ run.trigger \in BOOLEAN /\ run.result \in Result
  BY <1>1, <1>2 DEF Result, Status
<1> QED BY <1>1, <1>2, <1>3, <1>5, <1>6 DEF Run

LEMMA EditType ==
  ASSUME DeskTypeOK, NEW edit \in Edits
  PROVE  edit \in Release
<1> USE DEF DeskTypeOK, Release, Binding
<1>1. frozen.scope \in Nat
  BY DEF Frozen
<1>2. CASE edit = release
  BY <1>2
<1>3. CASE edit = [release EXCEPT !.scope = @ + 1, !.approvedAt = now]
  <2>1. release.scope + 1 \in Nat /\ now \in Nat
    OBVIOUS
  <2> QED BY <1>3, <2>1
<1>4. CASE edit = [release EXCEPT !.authorizer = TRUE, !.authorizedAt = now,
              !.binding = [scope |-> frozen.scope, ready |-> frozen.cutover # "HOLD"]]
  <2>1. [scope |-> frozen.scope, ready |-> frozen.cutover # "HOLD"] \in Binding
    BY <1>1
  <2> QED BY <1>4, <2>1
<1>5. CASE edit = [release EXCEPT !.cutoverAt = now]
  BY <1>5
<1> QED BY <1>2, <1>3, <1>4, <1>5 DEF Edits

LEMMA NoGradeType == NoGrade \in Grade
<1>1. NoStates \in [Check -> State]
  BY UnstatedType DEF NoStates
<1>2. NoRelease \in Release
  BY DEF NoRelease, Release, Binding
<1>3. NoBasis \in [Check -> Basis \cup {"none"}]
  BY DEF NoBasis
<1> QED BY <1>1, <1>2, <1>3 DEF NoGrade, Grade

(* What makes the types inductive: a grade under way has been counted.     *)
DeskTypes ==
  /\ DeskTypeOK
  /\ grade.phase # "none" => grades > 0

(* The tables hold what their columns can, whatever order the grade's      *)
(* statements, the signatures and the imports come in.                     *)
THEOREM DeskTypesCorrect == DeskSpec => []DeskTypeOK
<1>1. DeskInit => DeskTypes
  <2> SUFFICES ASSUME DeskInit PROVE DeskTypes
    OBVIOUS
  <2>1. NoStates \in [Check -> State]
    BY UnstatedType DEF NoStates
  <2>2. NoRelease \in Release
    BY DEF NoRelease, Release, Binding
  <2>3. frozen \in Frozen
    BY DEF DeskInit, Frozen, NoBasis
  <2> QED BY <2>1, <2>2, <2>3, NoGradeType DEF DeskInit, DeskTypes, DeskTypeOK, NoGrade
<1>2. DeskTypes /\ [DeskNext]_deskVars => DeskTypes'
  <2> SUFFICES ASSUME DeskTypes, [DeskNext]_deskVars PROVE DeskTypes'
    OBVIOUS
  <2> USE DEF DeskTypes
  <2>1. CASE GradeReads
    <3>1. PICK evidence \in Sightings :
            LET basis == [c \in Check |-> BasisOf(c, SiteFlags, evidence)]
            IN grade' = [NoGrade EXCEPT
                 !.phase = "read", !.at = now, !.basis = basis,
                 !.honored = Honored(states, basis), !.merged = Merge(states, basis)]
      BY <2>1 DEF GradeReads
    <3> DEFINE basis == [c \in Check |-> BasisOf(c, SiteFlags, evidence)]
    <3>2. basis \in [Check -> Basis \cup {"none"}]
      BY BasisType
    <3>3. Honored(states, basis) \in SUBSET Check
      BY DEF Honored
    <3>4. Merge(states, basis) \in [Check -> State]
      BY MergeType DEF DeskTypeOK
    <3>5. now \in Nat
      BY DEF DeskTypeOK
    <3> HIDE DEF basis
    <3>6. grade' \in Grade
      BY <3>1, <3>2, <3>3, <3>4, <3>5, NoGradeType DEF Grade, basis
    <3> QED BY <2>1, <3>6 DEF GradeReads, DeskTypeOK
  <2>2. CASE GradeWrites
    <3>1. grade' \in Grade
      BY <2>2 DEF GradeWrites, DeskTypeOK, Grade
    <3> QED BY <2>2, <3>1 DEF GradeWrites, DeskTypeOK
  <2>3. CASE GradeCommits
    <3> DEFINE readiness == Cutover(grade.merged, grade.release, log, grade.at)
               launch == Launch(grade.merged, grade.at)
    <3>1. states' \in [Check -> State]
      BY <2>3, GradedType DEF GradeCommits, DeskTypeOK
    <3>2. readiness.cutover \in {"READY FOR CUTOVER", "HOLD"} /\ readiness.final \in {"GO", "HOLD"}
      BY DEF Cutover
    <3>3. launch.decision \in {"GO", "HOLD"}
      BY DEF Launch
    <3>4. grade.at \in Nat /\ grade.release.scope \in Nat
            /\ grade.basis \in [Check -> Basis \cup {"none"}]
      BY DEF DeskTypeOK, Grade, Release
    <3>5. frozen' = [ at |-> grade.at, scope |-> grade.release.scope, basis |-> grade.basis,
                      launch |-> launch.decision,
                      cutover |-> readiness.cutover, final |-> readiness.final ]
      BY <2>3 DEF GradeCommits
    <3> HIDE DEF readiness, launch
    <3>6. frozen' \in Frozen
      BY <3>2, <3>3, <3>4, <3>5 DEF Frozen
    <3>7. shown' \in SUBSET (Nat \X Nat)
      BY <2>3, <3>4 DEF GradeCommits, DeskTypeOK
    <3> QED BY <2>3, <3>1, <3>6, <3>7, NoGradeType DEF GradeCommits, DeskTypeOK
  <2>4. CASE GradeAborts
    <3>1. grades' \in Nat
      BY <2>4 DEF GradeAborts, DeskTypeOK
    <3>2. grade'.phase = "none"
      BY <2>4 DEF GradeAborts, NoGrade
    <3> QED BY <2>4, <3>1, <3>2, NoGradeType DEF GradeAborts, DeskTypeOK
  <2>5. ASSUME NEW c \in Check, NEW status \in Status, NEW applicability \in {"yes", "no"},
               Attest(c, status, applicability, now + 1)
        PROVE  DeskTypes'
    <3>1. now + 1 \in Nat /\ {Statement} \in SUBSET Citation
      BY StatementAssumption DEF DeskTypeOK
    <3> DEFINE signed == [check |-> c, expires |-> now + 1, excludes |-> applicability = "no"]
    <3>2. signed \in Attestation
      BY <3>1 DEF Attestation
    <3>3. attestations' = attestations \cup {signed}
      BY <2>5 DEF Attest
    <3>4. attestations' \in SUBSET Attestation
      BY <3>2, <3>3 DEF DeskTypeOK
    <3> HIDE DEF signed
    <3> DEFINE row == [ applicability |-> applicability, rationale |-> applicability = "no",
                        status |-> status, coverage |-> "attested", cites |-> {Statement},
                        expires |-> now + 1 ]
    <3>5. row \in State
      BY <3>1 DEF State, Applicability, Coverage
    <3>6. states' = [states EXCEPT ![c] = row]
      BY <2>5 DEF Attest
    <3> HIDE DEF row
    <3>7. states' \in [Check -> State]
      BY <3>5, <3>6 DEF DeskTypeOK
    <3>8. grade' \in Grade /\ (grade.phase = "none" \/ grade'.phase = grade.phase)
      <4>1. grade \in Grade /\ grade.late \cup {c} \in SUBSET Check
        BY DEF DeskTypeOK, Grade
      <4>2. grade' = grade \/ grade' = [grade EXCEPT !.late = @ \cup {c}]
        BY <2>5 DEF Attest
      <4> QED BY <4>1, <4>2 DEF Grade
    <3> QED BY <2>5, <3>4, <3>7, <3>8 DEF Attest, DeskTypes, DeskTypeOK
  <2>6. CASE ImportRelease
    <3>1. release' \in Release
      BY <2>6, EditType DEF ImportRelease
    <3> QED BY <2>6, <3>1 DEF ImportRelease, DeskTypeOK
  <2>7. ASSUME NEW run \in Runs, ImportRun(run)
        PROVE  DeskTypes'
    <3>1. log' \subseteq Run(RunId)
      BY <2>7, RunType DEF ImportRun, DeskTypeOK
    <3> QED BY <2>7, <3>1 DEF ImportRun, DeskTypeOK
  <2>8. CASE Tick
    BY <2>8 DEF Tick, DeskTypeOK
  <2>9. CASE UNCHANGED deskVars
    BY <2>9 DEF deskVars, DeskTypeOK
  <2>10. ASSUME NEW c \in Check, NEW status \in Signable, Attest(c, status, "yes", now + 1)
         PROVE  DeskTypes'
    BY <2>5, <2>10, SignableAssumption
  <2>11. ASSUME NEW c \in Check, Attest(c, "not-started", "no", now + 1)
         PROVE  DeskTypes'
    BY <2>5, <2>11 DEF Status
  <2> QED BY <2>1, <2>2, <2>3, <2>4, <2>6, <2>7, <2>8, <2>9, <2>10, <2>11 DEF DeskNext
<1>3. DeskTypes => DeskTypeOK
  BY DEF DeskTypes
<1> QED BY <1>1, <1>2, <1>3, PTL DEF DeskSpec

-----------------------------------------------------------------------------
(* What a grade under way owes to the rows it read.                        *)

(* An attested row is honoured, is measured failing where no sign-off      *)
(* helps, or was signed after the select.                                  *)
SignedAreKept ==
  grade.phase # "none" =>
    \A c \in Check : states[c].coverage = "attested" =>
      \/ c \in grade.honored \cup grade.late
      \/ c \in ExceptionProof /\ grade.basis[c] = "verified-fail"

(* Until somebody signs, the merge is what the commit will leave.          *)
MergeIsCurrent ==
  (grade.phase # "none" /\ grade.late = {}) =>
    grade.merged = [c \in Check |-> IF c \in grade.honored THEN states[c]
                                    ELSE Graded(c, SiteFlags, grade.basis[c])]

GradeInv == SignedAreKept /\ MergeIsCurrent

LEMMA GradeInvHolds == DeskSpec => []GradeInv
<1>1. DeskInit => GradeInv
  BY DEF DeskInit, NoGrade, GradeInv, SignedAreKept, MergeIsCurrent
<1>2. DeskTypeOK /\ GradeInv /\ [DeskNext]_deskVars => GradeInv'
  <2> SUFFICES ASSUME DeskTypeOK, GradeInv, [DeskNext]_deskVars PROVE GradeInv'
    OBVIOUS
  <2>1. CASE GradeReads
    <3>1. PICK evidence \in Sightings :
            LET basis == [c \in Check |-> BasisOf(c, SiteFlags, evidence)]
            IN grade' = [NoGrade EXCEPT
                 !.phase = "read", !.at = now, !.basis = basis,
                 !.honored = Honored(states, basis), !.merged = Merge(states, basis)]
      BY <2>1 DEF GradeReads
    <3> DEFINE basis == [c \in Check |-> BasisOf(c, SiteFlags, evidence)]
    <3> HIDE DEF basis
    <3>2. /\ grade'.basis = basis /\ grade'.honored = Honored(states, basis)
          /\ grade'.merged = Merge(states, basis)
      BY <3>1 DEF NoGrade, basis
    <3>3. states' = states
      BY <2>1 DEF GradeReads
    <3> QED BY <3>2, <3>3 DEF GradeInv, SignedAreKept, MergeIsCurrent, Honored, Merge
  <2>2. CASE GradeWrites
    <3>1. /\ grade.phase # "none" /\ states' = states /\ grade'.basis = grade.basis
          /\ grade'.honored = grade.honored /\ grade'.merged = grade.merged
          /\ grade'.late = grade.late
      BY <2>2 DEF GradeWrites, DeskTypeOK, Grade
    <3> QED BY <3>1 DEF GradeInv, SignedAreKept, MergeIsCurrent
  <2>3. CASE GradeCommits \/ GradeAborts
    BY <2>3 DEF GradeCommits, GradeAborts, NoGrade, GradeInv, SignedAreKept, MergeIsCurrent
  <2>4. ASSUME NEW c \in Check, NEW status, NEW applicability, NEW expires,
               Attest(c, status, applicability, expires)
        PROVE  GradeInv'
    <3>1. CASE grade.phase = "none"
      BY <2>4, <3>1 DEF Attest, GradeInv, SignedAreKept, MergeIsCurrent
    <3>2. CASE grade.phase # "none"
      <4>1. /\ grade'.late = grade.late \cup {c} /\ grade'.honored = grade.honored
            /\ grade'.basis = grade.basis
        BY <2>4, <3>2 DEF Attest, DeskTypeOK, Grade
      <4>2. \A d \in Check \ {c} : states'[d] = states[d]
        BY <2>4 DEF Attest, DeskTypeOK
      <4> QED BY <3>2, <4>1, <4>2 DEF GradeInv, SignedAreKept, MergeIsCurrent
    <3> QED BY <3>1, <3>2
  <2>5. CASE UNCHANGED <<states, grade>>
    BY <2>5 DEF GradeInv, SignedAreKept, MergeIsCurrent
  <2>6. ASSUME NEW run \in Runs, ImportRun(run) PROVE UNCHANGED <<states, grade>>
    BY <2>6 DEF ImportRun
  <2>7. CASE ImportRelease \/ Tick \/ UNCHANGED deskVars
    BY <2>5, <2>7 DEF ImportRelease, Tick, deskVars
  <2> QED BY <2>1, <2>2, <2>3, <2>4, <2>5, <2>6, <2>7 DEF DeskNext
<1> QED BY <1>1, <1>2, DeskTypesCorrect, PTL DEF DeskSpec

(* "A human sign-off outranks a machine verdict": whichever way a grade,   *)
(* its abort and the signatures interleave, only a later signature, an     *)
(* exception-proof gate measured failing, or a signature that came between *)
(* the grade's select and its delete, takes a signed row's place.          *)
THEOREM SignOffsSurvive == DeskSpec => AttestationSurvives
<1>1. DeskTypeOK /\ GradeInv /\ [DeskNext]_deskVars
        => [\A c \in Check :
              (states[c].coverage = "attested" /\ states'[c].coverage # "attested")
                => \/ c \in ExceptionProof /\ grade.basis[c] = "verified-fail"
                   \/ c \in grade.late]_deskVars
  <2> SUFFICES ASSUME DeskTypeOK, GradeInv, [DeskNext]_deskVars, NEW c \in Check,
                      states[c].coverage = "attested", states'[c].coverage # "attested"
               PROVE  \/ c \in ExceptionProof /\ grade.basis[c] = "verified-fail"
                      \/ c \in grade.late
    OBVIOUS
  <2>1. CASE GradeCommits
    <3>1. c \notin grade.honored
      BY <2>1 DEF GradeCommits
    <3> QED BY <2>1, <3>1 DEF GradeCommits, GradeInv, SignedAreKept
  <2>2. ASSUME NEW d \in Check, NEW status, NEW applicability, NEW expires,
               Attest(d, status, applicability, expires)
        PROVE  FALSE
    BY <2>2 DEF Attest, DeskTypeOK
  <2>3. ASSUME NEW run \in Runs, ImportRun(run) PROVE FALSE
    BY <2>3 DEF ImportRun
  <2> QED BY <2>1, <2>2, <2>3
          DEF DeskNext, deskVars, GradeReads, GradeWrites, GradeAborts, ImportRelease, Tick
<1> QED BY <1>1, DeskTypesCorrect, GradeInvHolds, PTL DEF DeskSpec, AttestationSurvives

(* The frozen readiness changes only when a grade commits.                 *)
LEMMA OnlyCommitsFreeze ==
  ASSUME [DeskNext]_deskVars, frozen' # frozen
  PROVE  GradeCommits
<1>1. ASSUME NEW d \in Check, NEW status, NEW applicability, NEW expires,
             Attest(d, status, applicability, expires)
      PROVE  FALSE
  BY <1>1 DEF Attest
<1>2. ASSUME NEW run \in Runs, ImportRun(run) PROVE FALSE
  BY <1>2 DEF ImportRun
<1> QED BY <1>1, <1>2
        DEF DeskNext, deskVars, GradeReads, GradeWrites, GradeAborts, ImportRelease, Tick

(* A grade that nobody signed under freezes the readiness of the rows it   *)
(* leaves in the table.                                                    *)
THEOREM FrozenIsTheTable == DeskSpec => FrozenMatches
<1>1. DeskTypeOK /\ GradeInv /\ [DeskNext]_deskVars
        => [(frozen' # frozen /\ grade.late = {})
              => frozen'.launch = Launch(states', frozen'.at).decision]_deskVars
  <2> SUFFICES ASSUME DeskTypeOK, GradeInv, [DeskNext]_deskVars,
                      frozen' # frozen, grade.late = {}
               PROVE  frozen'.launch = Launch(states', frozen'.at).decision
    OBVIOUS
  <2>1. GradeCommits
    BY OnlyCommitsFreeze
  <2>2. states' = grade.merged
    BY <2>1 DEF GradeCommits, GradeInv, MergeIsCurrent
  <2>3. frozen'.at = grade.at /\ frozen'.launch = Launch(grade.merged, grade.at).decision
    BY <2>1 DEF GradeCommits
  <2> QED BY <2>2, <2>3
<1> QED BY <1>1, DeskTypesCorrect, GradeInvHolds, PTL DEF DeskSpec, FrozenMatches

-----------------------------------------------------------------------------
(* The review log.                                                         *)

(* Its ids are unique, it is finite, and each run is of a gate, in an      *)
(* environment its evidence class allows.                                  *)
LogInv ==
  /\ \A a, b \in log : a.id = b.id => a = b
  /\ IsFiniteSet(log)
  /\ \A run \in log : run.check \in Gate /\ Fits(Class[run.check], run.environment)

LEMMA RunFits ==
  ASSUME DeskTypeOK, NEW run \in Runs
  PROVE  Fits(Class[run.check], run.environment)
<1>1. PICK c \in Gate :
        run.check = c
          /\ run.environment = IF Class[c] = "planning" THEN "planning" ELSE "production"
  BY DEF Runs
<1>2. Class[c] \in {"planning", "preflight", "live"}
  BY CorpusAssumption, ClassAssumption
<1> QED BY <1>1, <1>2 DEF Fits

LEMMA LogInvHolds == DeskSpec => []LogInv
<1>1. DeskInit => LogInv
  BY FS_EmptySet DEF DeskInit, LogInv
<1>2. DeskTypeOK /\ LogInv /\ [DeskNext]_deskVars => LogInv'
  <2> SUFFICES ASSUME DeskTypeOK, LogInv, [DeskNext]_deskVars PROVE LogInv'
    OBVIOUS
  <2>1. ASSUME NEW run \in Runs, ImportRun(run) PROVE LogInv'
    <3>1. log' = log \cup {run} /\ Agrees(run)
      BY <2>1 DEF ImportRun
    <3>2. IsFiniteSet(log')
      BY <3>1, FS_AddElement DEF LogInv
    <3>3. run.check \in Gate /\ Fits(Class[run.check], run.environment)
      BY RunType, RunFits
    <3> QED BY <3>1, <3>2, <3>3 DEF LogInv, Agrees
  <2>2. ASSUME NEW c \in Check, NEW status, NEW applicability, NEW expires,
               Attest(c, status, applicability, expires)
        PROVE  log' = log
    BY <2>2 DEF Attest
  <2>3. CASE log' = log
    BY <2>3 DEF LogInv
  <2> QED BY <2>1, <2>2, <2>3
          DEF DeskNext, deskVars, GradeReads, GradeWrites, GradeCommits, GradeAborts,
              ImportRelease, Tick
<1> QED BY <1>1, <1>2, DeskTypesCorrect, PTL DEF DeskSpec

(* "A review run is appended, never edited": no run leaves the log, and no *)
(* id ever stands for two.                                                 *)
THEOREM RunsAreAppended == DeskSpec => LogIsHistory
<1>1. LogInv /\ LogInv' /\ [DeskNext]_deskVars
        => [log \subseteq log' /\ \A a, b \in log' : a.id = b.id => a = b]_deskVars
  <2> SUFFICES ASSUME LogInv', [DeskNext]_deskVars
               PROVE  log \subseteq log' /\ \A a, b \in log' : a.id = b.id => a = b
    BY DEF LogInv
  <2>1. ASSUME NEW run \in Runs, ImportRun(run) PROVE log \subseteq log'
    BY <2>1 DEF ImportRun
  <2>2. ASSUME NEW c \in Check, NEW status, NEW applicability, NEW expires,
               Attest(c, status, applicability, expires)
        PROVE  log' = log
    BY <2>2 DEF Attest
  <2>3. log \subseteq log'
    BY <2>1, <2>2
       DEF DeskNext, deskVars, GradeReads, GradeWrites, GradeCommits, GradeAborts,
           ImportRelease, Tick
  <2> QED BY <2>3 DEF LogInv
<1> QED BY <1>1, LogInvHolds, PTL DEF DeskSpec, LogIsHistory

-----------------------------------------------------------------------------
(* Who stands behind a verdict.                                            *)

Vouches(a, c, s) ==
  a.check = c /\ a.expires = s.expires /\ a.excludes = (s.applicability = "no")

Vouched(c, s) == \E a \in attestations : Vouches(a, c, s)

(* An attested row has its attestation, in the table and in a merge; what  *)
(* a merge does not honour is the engine's verdict on its own evidence.    *)
VouchedRows ==
  \A c \in Check : states[c].coverage = "attested" => Vouched(c, states[c])

VouchedMerge ==
  grade.phase # "none" =>
    \A c \in Check :
      /\ grade.basis[c] = "out-of-scope" <=> Scope(c, SiteFlags) = "no"
      /\ grade.basis[c] \in {"verified-pass", "nothing-to-verify"} => Automation[c] = "automated"
      /\ c \in grade.honored =>
           /\ ~(c \in ExceptionProof /\ grade.basis[c] = "verified-fail")
           /\ grade.merged[c].coverage = "attested"
           /\ Vouched(c, grade.merged[c])
      /\ c \notin grade.honored => grade.merged[c] = Graded(c, SiteFlags, grade.basis[c])

VouchInv == VouchedRows /\ VouchedMerge /\ GoIsVouchedFor

(* A GO leaves no gate undecided, and none in scope short of a pass.       *)
LEMMA LaunchGo ==
  ASSUME NEW rows \in [Check -> State], NEW at, NEW c \in Gate,
         Launch(rows, at).decision = "GO"
  PROVE  /\ Effective(rows[c], at).applicability # "review"
         /\ Effective(rows[c], at).applicability = "yes" => Effective(rows[c], at).status = "passed"
<1> DEFINE effective == [d \in Check |-> Effective(rows[d], at)]
           applies == { d \in Gate : effective[d].applicability = "yes" }
           outstanding == { d \in applies : effective[d].status # "passed" }
           undecided == { d \in Gate : effective[d].applicability = "review" }
<1>1. c \in Check /\ effective[c] = Effective(rows[c], at)
  BY CorpusAssumption
<1>2. outstanding = {} /\ undecided = {}
  BY DEF Launch
<1> QED BY <1>1, <1>2

LEMMA EffectiveFacts ==
  ASSUME NEW s \in State, NEW at \in Nat
  PROVE  /\ Effective(s, at).applicability = s.applicability
         /\ s.coverage # "attested" => Effective(s, at) = s
         /\ (s.coverage = "attested" /\ Effective(s, at).status = "passed") => s.expires > at
<1>1. s.expires \in Nat
  BY DEF State
<1>2. CASE ~Lapsed(s, at)
  BY <1>1, <1>2 DEF Effective, Lapsed
<1>3. CASE Lapsed(s, at)
  <2>1. /\ Effective(s, at).applicability = s.applicability
        /\ Effective(s, at).status = IF s.status = "passed" THEN "in-progress" ELSE s.status
    BY <1>3 DEF Effective, State
  <2> QED BY <1>3, <2>1 DEF Lapsed
<1> QED BY <1>2, <1>3

LEMMA VouchInvHolds == DeskSpec => []VouchInv
<1>1. DeskInit => VouchInv
  BY UnstatedType
     DEF DeskInit, NoStates, NoGrade, VouchInv, VouchedRows, VouchedMerge, GoIsVouchedFor
<1>2. DeskTypeOK /\ VouchInv /\ [DeskNext]_deskVars => VouchInv'
  <2> SUFFICES ASSUME DeskTypeOK, VouchInv, [DeskNext]_deskVars PROVE VouchInv'
    OBVIOUS
  <2>1. CASE GradeReads
    <3>1. PICK evidence \in Sightings :
            LET basis == [c \in Check |-> BasisOf(c, SiteFlags, evidence)]
            IN grade' = [NoGrade EXCEPT
                 !.phase = "read", !.at = now, !.basis = basis,
                 !.honored = Honored(states, basis), !.merged = Merge(states, basis)]
      BY <2>1 DEF GradeReads
    <3> DEFINE basis == [c \in Check |-> BasisOf(c, SiteFlags, evidence)]
    <3>2. \A c \in Check : basis[c] = BasisOf(c, SiteFlags, evidence)
      OBVIOUS
    <3> HIDE DEF basis
    <3>3. /\ grade'.basis = basis /\ grade'.honored = Honored(states, basis)
          /\ grade'.merged = Merge(states, basis)
      BY <3>1 DEF NoGrade, basis
    <3>4. UNCHANGED <<states, attestations, frozen>>
      BY <2>1 DEF GradeReads
    <3>5. ASSUME NEW c \in Check
          PROVE  /\ basis[c] = "out-of-scope" <=> Scope(c, SiteFlags) = "no"
                 /\ basis[c] \in {"verified-pass", "nothing-to-verify"} => Automation[c] = "automated"
      BY <3>2, BasisMeans
    <3>6. VouchedMerge'
      BY <3>3, <3>4, <3>5 DEF VouchInv, VouchedRows, VouchedMerge, Vouched, Honored, Merge
    <3> QED BY <3>4, <3>6 DEF VouchInv, VouchedRows, Vouched, GoIsVouchedFor
  <2>2. CASE GradeWrites
    <3>1. /\ grade.phase # "none" /\ grade'.basis = grade.basis
          /\ grade'.honored = grade.honored /\ grade'.merged = grade.merged
          /\ UNCHANGED <<states, attestations, frozen>>
      BY <2>2 DEF GradeWrites, DeskTypeOK, Grade
    <3> QED BY <3>1 DEF VouchInv, VouchedRows, VouchedMerge, Vouched, GoIsVouchedFor
  <2>3. CASE GradeCommits
    <3>1. /\ grade.phase # "none" /\ grade'.phase = "none" /\ attestations' = attestations
          /\ frozen'.at = grade.at /\ frozen'.basis = grade.basis
          /\ frozen'.launch = Launch(grade.merged, grade.at).decision
      BY <2>3 DEF GradeCommits, NoGrade
    <3>2. VouchedRows'
      BY <2>3, <3>1, GradedType DEF GradeCommits, VouchInv, VouchedRows, Vouched
    <3>3. ASSUME frozen'.launch = "GO", NEW c \in Gate
          PROVE  /\ \/ /\ Automation[c] = "automated"
                       /\ grade.basis[c] \in {"verified-pass", "nothing-to-verify"}
                    \/ grade.basis[c] = "out-of-scope"
                    \/ \E a \in attestations : a.check = c /\ (a.expires > grade.at \/ a.excludes)
                 /\ ~(c \in ExceptionProof /\ grade.basis[c] = "verified-fail")
      <4> DEFINE s == grade.merged[c]
      <4>1. c \in Check /\ s \in State /\ grade.at \in Nat /\ grade.merged \in [Check -> State]
        BY CorpusAssumption DEF DeskTypeOK, Grade
      <4>2. /\ Effective(s, grade.at).applicability # "review"
            /\ Effective(s, grade.at).applicability = "yes" => Effective(s, grade.at).status = "passed"
        BY <3>1, <3>3, <4>1, LaunchGo
      <4>3. CASE c \in grade.honored
        <5>1. PICK a \in attestations : Vouches(a, c, s)
          BY <3>1, <4>1, <4>3 DEF VouchInv, VouchedMerge, Vouched
        <5>2. s.coverage = "attested" /\ ~(c \in ExceptionProof /\ grade.basis[c] = "verified-fail")
          BY <3>1, <4>1, <4>3 DEF VouchInv, VouchedMerge
        <5>3. s.applicability \in {"yes", "no"}
          BY <4>1, <4>2, EffectiveFacts DEF State, Applicability
        <5>4. CASE s.applicability = "no"
          BY <5>1, <5>2, <5>4 DEF Vouches
        <5>5. CASE s.applicability = "yes"
          BY <4>1, <4>2, <5>1, <5>2, <5>5, EffectiveFacts DEF Vouches
        <5> QED BY <5>3, <5>4, <5>5
      <4>4. CASE c \notin grade.honored
        <5>1. s = Graded(c, SiteFlags, grade.basis[c])
          BY <3>1, <4>1, <4>4 DEF VouchInv, VouchedMerge
        <5>2. Effective(s, grade.at) = s
          BY <4>1, <5>1, GradedType, EffectiveFacts
        <5>3. s.applicability = Scope(c, SiteFlags)
          BY <5>1 DEF Graded
        <5>4. CASE Scope(c, SiteFlags) = "no"
          BY <3>1, <4>1, <5>4 DEF VouchInv, VouchedMerge
        <5>5. CASE Scope(c, SiteFlags) = "yes"
          <6>1. s.status = "passed"
            BY <4>2, <5>2, <5>3, <5>5
          <6>2. grade.basis[c] \in {"verified-pass", "nothing-to-verify"}
            BY <5>1, <6>1 DEF Graded
          <6> QED BY <3>1, <4>1, <6>2 DEF VouchInv, VouchedMerge
        <5> QED BY <4>1, <4>2, <5>2, <5>3, <5>4, <5>5, ScopeType DEF Applicability
      <4> QED BY <4>3, <4>4
    <3>4. GoIsVouchedFor'
      BY <3>1, <3>3 DEF GoIsVouchedFor
    <3> QED BY <3>1, <3>2, <3>4 DEF VouchInv, VouchedMerge
  <2>4. CASE GradeAborts
    BY <2>4 DEF GradeAborts, NoGrade, VouchInv, VouchedRows, VouchedMerge, Vouched, GoIsVouchedFor
  <2>5. ASSUME NEW c \in Check, NEW status, NEW applicability, NEW expires,
               Attest(c, status, applicability, expires)
        PROVE  VouchInv'
    <3>1. /\ attestations \subseteq attestations' /\ frozen' = frozen
          /\ \A d \in Check \ {c} : states'[d] = states[d]
      BY <2>5 DEF Attest, DeskTypeOK
    <3> DEFINE a == [check |-> c, expires |-> expires, excludes |-> applicability = "no"]
    <3>2. /\ a \in attestations'
          /\ states'[c].expires = expires /\ states'[c].applicability = applicability
      BY <2>5 DEF Attest, DeskTypeOK
    <3>3. a.check = c /\ a.expires = expires /\ a.excludes = (applicability = "no")
      OBVIOUS
    <3>4. Vouched(c, states[c])'
      BY <3>2, <3>3 DEF Vouched, Vouches
    <3>5. VouchedRows'
      BY <3>1, <3>4 DEF VouchInv, VouchedRows, Vouched
    <3>6. VouchedMerge'
      <4>1. grade' = grade \/ (grade.phase # "none" /\ grade' = [grade EXCEPT !.late = @ \cup {c}])
        BY <2>5 DEF Attest
      <4>2. /\ grade'.phase = grade.phase /\ grade'.basis = grade.basis
            /\ grade'.honored = grade.honored /\ grade'.merged = grade.merged
        BY <4>1 DEF DeskTypeOK, Grade
      <4> QED BY <3>1, <4>2 DEF VouchInv, VouchedMerge, Vouched
    <3>7. GoIsVouchedFor'
      BY <3>1 DEF VouchInv, GoIsVouchedFor
    <3> QED BY <3>5, <3>6, <3>7 DEF VouchInv
  <2>6. CASE UNCHANGED <<states, attestations, grade, frozen>>
    BY <2>6 DEF VouchInv, VouchedRows, VouchedMerge, Vouched, GoIsVouchedFor
  <2>7. ASSUME NEW run \in Runs, ImportRun(run)
        PROVE  UNCHANGED <<states, attestations, grade, frozen>>
    BY <2>7 DEF ImportRun
  <2>8. CASE ImportRelease \/ Tick \/ UNCHANGED deskVars
    BY <2>6, <2>8 DEF ImportRelease, Tick, deskVars
  <2> QED BY <2>1, <2>2, <2>3, <2>4, <2>5, <2>6, <2>7, <2>8 DEF DeskNext
<1> QED BY <1>1, <1>2, DeskTypesCorrect, PTL DEF DeskSpec

(* No GO without somebody to answer for each gate: that grade's own        *)
(* measurement, the profile that leaves it out, or a person's signature    *)
(* that had not lapsed; and never over a failing exception-proof gate.     *)
THEOREM GoIsAnsweredFor == DeskSpec => []GoIsVouchedFor
<1>1. VouchInv => GoIsVouchedFor
  BY DEF VouchInv
<1> QED BY <1>1, VouchInvHolds, PTL

-----------------------------------------------------------------------------
(* What a cutover assessment amounts to.                                   *)

(* A current review rests on one latest run, which passed and belongs to   *)
(* the release's scope.                                                    *)
LEMMA CurrentReading ==
  ASSUME NEW c, NEW s, NEW runs, NEW rel, NEW at,
         Reading(c, s, runs, rel, at) = "current"
  PROVE  LET latest == LatestRuns(c, runs, rel)
         IN /\ ~(Cardinality(latest) > 1)
            /\ \E run \in latest : run.result = "passed"
<1> DEFINE latest == LatestRuns(c, runs, rel)
           run == CHOOSE r \in latest : TRUE
<1>1. latest # {} /\ ~(Cardinality(latest) > 1) /\ run.result = "passed"
  BY DEF Reading
<1>2. run \in latest
  BY <1>1
<1> QED BY <1>1, <1>2

(* Ready: nothing in scope but the live gates is without its evidence.     *)
LEMMA ReadyIsEvidenced ==
  ASSUME NEW rows \in [Check -> State], NEW rel, NEW runs, NEW at \in Nat, NEW c \in Gate,
         Cutover(rows, rel, runs, at).cutover # "HOLD",
         rows[c].applicability = "yes", Class[c] # "live"
  PROVE  \E s : Evidenced(c, s, runs, rel, at)
<1> DEFINE effective == [d \in Check |-> Effective(rows[d], at)]
           applies == { d \in Gate : effective[d].applicability = "yes" }
           early == { d \in applies : Class[d] # "live" }
           bare == { d \in applies : ~Evidenced(d, effective[d], runs, rel, at) }
           outstanding == Launch(rows, at).outstanding
<1>1. c \in Check /\ effective[c] = Effective(rows[c], at)
  BY CorpusAssumption
<1>2. c \in early
  BY <1>1, EffectiveFacts
<1> HIDE DEF outstanding
<1>3. early \cap (outstanding \cup bare) = {}
  BY DEF Cutover, outstanding
<1> QED BY <1>2, <1>3

(* Final: every gate in scope has its evidence, and the record is valid.   *)
LEMMA FinalIsEvidenced ==
  ASSUME NEW rows \in [Check -> State], NEW rel, NEW runs, NEW at \in Nat,
         Cutover(rows, rel, runs, at).final = "GO"
  PROVE  /\ RecordValid(rel, at)
         /\ \A c \in Gate : rows[c].applicability = "yes" =>
              \E s : Evidenced(c, s, runs, rel, at)
<1> DEFINE effective == [d \in Check |-> Effective(rows[d], at)]
           applies == { d \in Gate : effective[d].applicability = "yes" }
           bare == { d \in applies : ~Evidenced(d, effective[d], runs, rel, at) }
<1>1. RecordValid(rel, at) /\ bare = {}
  BY DEF Cutover
<1>2. ASSUME NEW c \in Gate, rows[c].applicability = "yes"
      PROVE  \E s : Evidenced(c, s, runs, rel, at)
  <2>1. c \in Check /\ effective[c] = Effective(rows[c], at)
    BY CorpusAssumption
  <2>2. c \in applies
    BY <1>2, <2>1, EffectiveFacts
  <2> QED BY <1>1, <2>2
<1> QED BY <1>1, <1>2

-----------------------------------------------------------------------------
(* The order of a release: assessed, authorized, cut over, finished.       *)

WasShown(rel) ==
  rel.binding.ready =>
    \E s \in shown : s[1] = rel.binding.scope /\ s[2] <= rel.authorizedAt

(* An authorization binds to an assessment that was shown before it.       *)
BindingInv ==
  /\ WasShown(release)
  /\ grade.phase = "written" => WasShown(grade.release)
  /\ grade.at <= now
  /\ frozen.cutover # "HOLD" => <<frozen.scope, frozen.at>> \in shown /\ frozen.at <= now

LEMMA BindingInvHolds == DeskSpec => []BindingInv
<1>1. DeskInit => BindingInv
  BY DEF DeskInit, NoGrade, NoRelease, BindingInv, WasShown
<1>2. DeskTypeOK /\ BindingInv /\ [DeskNext]_deskVars => BindingInv'
  <2> SUFFICES ASSUME DeskTypeOK, BindingInv, [DeskNext]_deskVars PROVE BindingInv'
    OBVIOUS
  <2> USE DEF BindingInv
  <2>1. CASE GradeReads
    <3>1. grade'.phase = "read" /\ grade'.at = now
      BY <2>1 DEF GradeReads, NoGrade
    <3>2. UNCHANGED <<now, release, frozen, shown>> /\ now \in Nat
      BY <2>1 DEF GradeReads, DeskTypeOK
    <3> QED BY <3>1, <3>2 DEF WasShown
  <2>2. CASE GradeWrites
    <3>1. /\ grade'.release = release /\ grade'.at = grade.at
          /\ UNCHANGED <<now, release, frozen, shown>>
      BY <2>2 DEF GradeWrites, DeskTypeOK, Grade
    <3> QED BY <3>1 DEF WasShown
  <2>3. CASE GradeCommits
    <3>1. /\ frozen'.scope = grade.release.scope /\ frozen'.at = grade.at
          /\ frozen'.cutover = Cutover(grade.merged, grade.release, log, grade.at).cutover
          /\ UNCHANGED <<now, release>>
      BY <2>3 DEF GradeCommits
    <3>2. shown' = IF frozen'.cutover = "HOLD" THEN shown
                   ELSE shown \cup {<<grade.release.scope, grade.at>>}
      BY <2>3, <3>1 DEF GradeCommits
    <3>3. grade'.phase = "none" /\ grade'.at = 0 /\ now \in Nat
      BY <2>3 DEF GradeCommits, NoGrade, DeskTypeOK
    <3>4. WasShown(release)'
      BY <3>1, <3>2 DEF WasShown
    <3> QED BY <3>1, <3>2, <3>3, <3>4
  <2>4. CASE GradeAborts
    <3>1. grade'.phase = "none" /\ grade'.at = 0 /\ now \in Nat
      BY <2>4 DEF GradeAborts, NoGrade, DeskTypeOK
    <3>2. UNCHANGED <<now, release, frozen, shown>>
      BY <2>4 DEF GradeAborts
    <3> QED BY <3>1, <3>2 DEF WasShown
  <2>5. ASSUME NEW c \in Check, NEW status, NEW applicability, NEW expires,
               Attest(c, status, applicability, expires)
        PROVE  BindingInv'
    <3>1. UNCHANGED <<now, release, frozen, shown>>
      BY <2>5 DEF Attest
    <3>2. grade' = grade \/ grade' = [grade EXCEPT !.late = @ \cup {c}]
      BY <2>5 DEF Attest
    <3>3. /\ grade'.phase = grade.phase /\ grade'.at = grade.at
          /\ grade'.release = grade.release
      BY <3>2 DEF DeskTypeOK, Grade
    <3> QED BY <3>1, <3>3 DEF WasShown
  <2>6. CASE ImportRelease
    <3>1. PICK edit \in Edits : release' = edit
      BY <2>6 DEF ImportRelease
    <3>2. UNCHANGED <<now, grade, frozen, shown>>
      BY <2>6 DEF ImportRelease
    <3>3. WasShown(edit)
      <4>1. CASE edit = release
        BY <4>1
      <4>2. CASE edit = [release EXCEPT !.scope = @ + 1, !.approvedAt = now]
        <5>1. edit.binding = release.binding /\ edit.authorizedAt = release.authorizedAt
          BY <4>2 DEF DeskTypeOK, Release
        <5> QED BY <5>1 DEF WasShown
      <4>3. CASE edit = [release EXCEPT !.authorizer = TRUE, !.authorizedAt = now,
                  !.binding = [scope |-> frozen.scope, ready |-> frozen.cutover # "HOLD"]]
        <5>1. /\ edit.binding.scope = frozen.scope /\ edit.authorizedAt = now
              /\ edit.binding.ready = (frozen.cutover # "HOLD")
          BY <4>3 DEF DeskTypeOK, Release
        <5> QED BY <5>1 DEF WasShown
      <4>4. CASE edit = [release EXCEPT !.cutoverAt = now]
        <5>1. edit.binding = release.binding /\ edit.authorizedAt = release.authorizedAt
          BY <4>4 DEF DeskTypeOK, Release
        <5> QED BY <5>1 DEF WasShown
      <4> QED BY <4>1, <4>2, <4>3, <4>4 DEF Edits
    <3> QED BY <3>1, <3>2, <3>3 DEF WasShown
  <2>7. CASE UNCHANGED <<now, release, grade, frozen, shown>>
    BY <2>7 DEF WasShown
  <2>8. ASSUME NEW run \in Runs, ImportRun(run)
        PROVE  UNCHANGED <<now, release, grade, frozen, shown>>
    BY <2>8 DEF ImportRun
  <2>9. CASE Tick
    <3>1. /\ now' = now + 1 /\ now \in Nat /\ grade.at \in Nat /\ frozen.at \in Nat
          /\ UNCHANGED <<release, grade, frozen, shown>>
      BY <2>9 DEF Tick, DeskTypeOK, Grade, Frozen
    <3> QED BY <3>1 DEF WasShown
  <2>10. CASE UNCHANGED deskVars
    BY <2>7, <2>10 DEF deskVars
  <2> QED BY <2>1, <2>2, <2>3, <2>4, <2>5, <2>6, <2>7, <2>8, <2>9, <2>10 DEF DeskNext
<1> QED BY <1>1, <1>2, DeskTypesCorrect, PTL DEF DeskSpec

(* A final GO names a release whose scope was shown READY FOR CUTOVER      *)
(* before it was authorized, and whose live gates were all tested after    *)
(* the cutover: no order of edits, runs, signatures and grades gives one   *)
(* for a scope that was widened since.                                     *)
THEOREM FinalGoWasReady == DeskSpec => FinalWasReady
<1>1. DeskTypeOK /\ BindingInv /\ [DeskNext]_deskVars
        => [(frozen' # frozen /\ frozen'.final = "GO") =>
              /\ \E s \in shown : s[1] = frozen'.scope /\ s[2] <= grade.release.authorizedAt
              /\ \A c \in Gate :
                   (Class[c] = "live" /\ grade.merged[c].applicability = "yes") =>
                     \E run \in log : /\ run.check = c /\ run.scope = frozen'.scope
                                      /\ run.result = "passed"
                                      /\ run.testedAt >= grade.release.cutoverAt]_deskVars
  <2> SUFFICES ASSUME DeskTypeOK, BindingInv, [DeskNext]_deskVars,
                      frozen' # frozen, frozen'.final = "GO"
               PROVE  /\ \E s \in shown : s[1] = frozen'.scope /\ s[2] <= grade.release.authorizedAt
                      /\ \A c \in Gate :
                           (Class[c] = "live" /\ grade.merged[c].applicability = "yes") =>
                             \E run \in log : /\ run.check = c /\ run.scope = frozen'.scope
                                              /\ run.result = "passed"
                                              /\ run.testedAt >= grade.release.cutoverAt
    OBVIOUS
  <2>1. GradeCommits
    BY OnlyCommitsFreeze
  <2>2. /\ grade.phase = "written" /\ frozen'.scope = grade.release.scope
        /\ Cutover(grade.merged, grade.release, log, grade.at).final = "GO"
    BY <2>1 DEF GradeCommits
  <2>3. grade.merged \in [Check -> State] /\ grade.at \in Nat
    BY DEF DeskTypeOK, Grade
  <2>4. /\ RecordValid(grade.release, grade.at)
        /\ \A c \in Gate : grade.merged[c].applicability = "yes" =>
             \E s : Evidenced(c, s, log, grade.release, grade.at)
    BY <2>2, <2>3, FinalIsEvidenced
  <2>5. \E s \in shown : s[1] = frozen'.scope /\ s[2] <= grade.release.authorizedAt
    BY <2>2, <2>4 DEF BindingInv, WasShown, RecordValid
  <2>6. ASSUME NEW c \in Gate, Class[c] = "live", grade.merged[c].applicability = "yes"
        PROVE  \E run \in log : /\ run.check = c /\ run.scope = frozen'.scope
                                /\ run.result = "passed"
                                /\ run.testedAt >= grade.release.cutoverAt
    <3>1. PICK s : Evidenced(c, s, log, grade.release, grade.at)
      BY <2>4, <2>6
    <3>2. /\ Reading(c, s, log, grade.release, grade.at) = "current"
          /\ \A run \in LatestRuns(c, log, grade.release) :
               run.testedAt >= grade.release.cutoverAt
      BY <2>6, <3>1 DEF Evidenced
    <3>3. PICK run \in LatestRuns(c, log, grade.release) : run.result = "passed"
      BY <3>2, CurrentReading
    <3>4. run \in log /\ run.check = c /\ run.scope = grade.release.scope
      BY <3>3 DEF LatestRuns, OwnRuns, InContext
    <3> QED BY <2>2, <3>2, <3>3, <3>4
  <2> QED BY <2>5, <2>6
<1> QED BY <1>1, DeskTypesCorrect, BindingInvHolds, PTL DEF DeskSpec, FinalWasReady

LEMMA TwoAreMany ==
  ASSUME NEW S, IsFiniteSet(S), NEW x \in S, NEW y \in S, x # y
  PROVE  Cardinality(S) > 1
<1>1. Cardinality({x}) = 1 /\ IsFiniteSet({x})
  BY FS_Singleton
<1>2. Cardinality({x} \cup {y}) = 2 /\ IsFiniteSet({x} \cup {y})
  BY <1>1, FS_AddElement
<1>3. ({x} \cup {y}) \in SUBSET S
  OBVIOUS
<1>4. Cardinality({x} \cup {y}) <= Cardinality(S)
  BY <1>3, FS_Subset
<1>5. Cardinality(S) \in Nat
  BY FS_CardinalityType
<1> QED BY <1>2, <1>4, <1>5

(* A regression that was logged holds its gate: READY FOR CUTOVER needs a  *)
(* passing test of that scope later than it, never one of the same moment. *)
THEOREM RegressionsHold == DeskSpec => ReopenedHolds
<1>1. DeskTypeOK /\ LogInv /\ [DeskNext]_deskVars
        => [(frozen' # frozen /\ frozen'.cutover # "HOLD") =>
              \A bad \in log :
                ( /\ bad.result = "reopened" /\ bad.scope = frozen'.scope
                  /\ Class[bad.check] # "live" /\ grade.merged[bad.check].applicability = "yes" )
                  => \E run \in log : /\ run.check = bad.check /\ run.scope = bad.scope
                                      /\ run.result = "passed" /\ run.testedAt > bad.testedAt]_deskVars
  <2> SUFFICES ASSUME DeskTypeOK, LogInv, [DeskNext]_deskVars,
                      frozen' # frozen, frozen'.cutover # "HOLD", NEW bad \in log,
                      bad.result = "reopened", bad.scope = frozen'.scope,
                      Class[bad.check] # "live", grade.merged[bad.check].applicability = "yes"
               PROVE  \E run \in log : /\ run.check = bad.check /\ run.scope = bad.scope
                                       /\ run.result = "passed"
                                       /\ run.testedAt > bad.testedAt
    OBVIOUS
  <2> DEFINE c == bad.check
             latest == LatestRuns(c, log, grade.release)
  <2>1. GradeCommits
    BY OnlyCommitsFreeze
  <2>2. /\ frozen'.scope = grade.release.scope
        /\ Cutover(grade.merged, grade.release, log, grade.at).cutover # "HOLD"
    BY <2>1 DEF GradeCommits
  <2>3. /\ grade.merged \in [Check -> State] /\ grade.at \in Nat
        /\ \A run \in log : run.testedAt \in Nat
    BY DEF DeskTypeOK, Grade, Run
  <2>4. c \in Gate /\ Fits(Class[c], bad.environment) /\ IsFiniteSet(log)
    BY DEF LogInv
  <2>5. PICK s : Evidenced(c, s, log, grade.release, grade.at)
    BY <2>2, <2>3, <2>4, ReadyIsEvidenced
  <2>6. Reading(c, s, log, grade.release, grade.at) = "current"
    BY <2>5 DEF Evidenced
  <2>7. /\ ~(Cardinality(latest) > 1)
        /\ \E run \in latest : run.result = "passed"
    BY <2>6, CurrentReading
  <2>8. PICK run \in latest : run.result = "passed"
    BY <2>7
  <2>9. /\ run \in log /\ run.check = c /\ run.scope = grade.release.scope
        /\ grade.release.scope # 0
    BY <2>8 DEF LatestRuns, OwnRuns, InContext
  <2>10. InContext(bad, c, grade.release)
    BY <2>2, <2>4, <2>9 DEF InContext
  <2>11. bad.testedAt <= run.testedAt
    BY <2>8, <2>10 DEF LatestRuns, OwnRuns
  <2>12. run.testedAt # bad.testedAt
    <3> SUFFICES ASSUME run.testedAt = bad.testedAt PROVE FALSE
      OBVIOUS
    <3>1. bad \in latest
      BY <2>8, <2>10 DEF LatestRuns, OwnRuns
    <3>2. latest \in SUBSET log
      BY DEF LatestRuns, OwnRuns
    <3>3. IsFiniteSet(latest)
      BY <2>4, <3>2, FS_Subset
    <3>4. bad # run
      BY <2>8
    <3> HIDE DEF latest
    <3>5. Cardinality(latest) > 1
      BY <2>8, <3>1, <3>3, <3>4, TwoAreMany
    <3> QED BY <2>7, <3>5
  <2> QED BY <2>2, <2>3, <2>8, <2>9, <2>11, <2>12
<1> QED BY <1>1, DeskTypesCorrect, LogInvHolds, PTL DEF DeskSpec, ReopenedHolds

=============================================================================

----------------------------- MODULE AuditSafety -----------------------------
(***************************************************************************)
(* What is proved of AuditScheduler for every number of workers and        *)
(* audits, whatever fails, crashes or lapses.  Last, for AuditRows: what   *)
(* each step of a queue does to the jobs it is about, and that it leaves   *)
(* the others alone.                                                       *)
(***************************************************************************)
EXTENDS AuditInv, JobQueueImplements

-----------------------------------------------------------------------------
(* Types.                                                                  *)

LEMMA AttendType ==
  ASSUME NEW d \in Duty, NEW m \in Memory
  PROVE  Attend(d, m) \in Duty
<1> DEFINE stage == [j \in Job |->
      CASE j \in m.active /\ d.stage[j] \in {"idle", "reopened"} -> Begins(m.ent[j])
        [] j \in m.active /\ d.stage[j] \notin {"idle", "reopened"} -> d.stage[j]
        [] j \in m.deciding -> IF d.stage[j] = "threw" THEN "asked" ELSE d.stage[j]
        [] OTHER -> "idle"]
    reason == [j \in Job |->
      CASE j \notin m.active -> "none"
        [] j \in m.active /\ d.reason[j] # "none" -> d.reason[j]
        [] OTHER -> IF LeaseLost(m.ent[j]) THEN "lost"
                    ELSE IF m.ent[j].cancelRequested THEN "cancel" ELSE "none"]
<1>1. d.stage \in [Job -> Stage] /\ d.reason \in [Job -> {"none", "cancel", "lost"}]
  BY DEF Duty
<1>2. stage \in [Job -> Stage]
  <2> SUFFICES ASSUME NEW j \in Job PROVE stage[j] \in Stage
    OBVIOUS
  <2>1. d.stage[j] \in Stage
    BY <1>1
  <2> QED BY <2>1 DEF Stage, Begins
<1>3. reason \in [Job -> {"none", "cancel", "lost"}]
  <2> SUFFICES ASSUME NEW j \in Job PROVE reason[j] \in {"none", "cancel", "lost"}
    OBVIOUS
  <2>1. d.reason[j] \in {"none", "cancel", "lost"}
    BY <1>1
  <2> QED BY <2>1
<1>4. Attend(d, m) = [d EXCEPT !.stage = stage, !.reason = reason]
  BY DEF Attend
<1> HIDE DEF stage, reason
<1> QED BY <1>2, <1>3, <1>4 DEF Duty

LEMMA AttendFields ==
  ASSUME NEW d \in Duty, NEW m \in Memory, NEW j \in Job
  PROVE  LET e == Attend(d, m)
         IN /\ e.stage[j] =
                 (CASE j \in m.active /\ d.stage[j] \in {"idle", "reopened"} -> Begins(m.ent[j])
                    [] j \in m.active /\ d.stage[j] \notin {"idle", "reopened"} -> d.stage[j]
                    [] j \in m.deciding -> IF d.stage[j] = "threw" THEN "asked" ELSE d.stage[j]
                    [] OTHER -> "idle")
            /\ e.reason[j] =
                 (CASE j \notin m.active -> "none"
                    [] j \in m.active /\ d.reason[j] # "none" -> d.reason[j]
                    [] OTHER -> IF LeaseLost(m.ent[j]) THEN "lost"
                                ELSE IF m.ent[j].cancelRequested THEN "cancel" ELSE "none")
            /\ e.submit = d.submit /\ e.closing = d.closing /\ e.resets = d.resets
            /\ e.reopen = d.reopen /\ e.known = d.known /\ e.cutoff = d.cutoff
            /\ e.sweep = d.sweep /\ e.live = d.live /\ e.orphans = d.orphans
BY DEF Attend, Duty

LEMMA MarkedType ==
  ASSUME AuditTypeOK, NEW S, NEW error \in BOOLEAN,
         NEW status \in {"pending", "running", "complete", "failed", "cancelled"}
  PROVE  /\ Marked(S, status, error) \in [Job -> AuditRow]
         /\ MarkedKeepingError(S, status) \in [Job -> AuditRow]
BY DEF Marked, MarkedKeepingError, AuditTypeOK, AuditRow, Open

LEMMA VerdictType ==
  ASSUME AuditTypeOK, NEW j \in Job, NEW stage \in {"completing", "failing", "cancelling"}
  PROVE  Verdict(j, stage) \in [Job -> AuditRow]
<1>1. \A status \in {"complete", "failed", "cancelled"}, error \in BOOLEAN :
        Marked({j}, status, error) \in [Job -> AuditRow]
  BY MarkedType
<1> QED BY <1>1 DEF Verdict

LEMMA StageType ==
  ASSUME AuditTypeOK, NEW w \in Worker, NEW j \in Job, NEW stage \in Stage
  PROVE  AtStage(w, j, stage) \in Duty
BY DEF AtStage, AuditTypeOK, Duty

LEMMA CatchType ==
  ASSUME AuditTypeOK, NEW w \in Worker, NEW j \in Job
  PROVE  Catch(w, j) \in Duty
BY StageType DEF Catch, Stage

LEMMA MovesType ==
  ASSUME AuditTypeOK, NEW w \in Worker, NEW d \in Duty, Moves(w, d)
  PROVE  duty' \in [Worker -> Duty]
BY DEF Moves, AuditTypeOK

LEMMA CarriesType ==
  ASSUME AuditTypeOK, TypeOK', NEW w \in Worker, NEW d \in Duty, Carries(w, d)
  PROVE  duty' \in [Worker -> Duty]
<1>1. mem'[w] \in Memory
  BY DEF TypeOK
<1> QED BY <1>1, AttendType DEF Carries, AuditTypeOK

LEMMA EmptyDuties == NoDuty \in Duty /\ JustBooted \in Duty
BY DEF NoDuty, JustBooted, Duty, Submitting, Stage, Sweep

(* Every step above the queue leaves the queue alone, but for what the     *)
(* environment has spent on it.                                            *)
Beneath ==
  \/ [Next]_vars
  \/ /\ UNCHANGED <<row, mem, submitted, lapsed>>
     /\ Spend("error")

LEMMA MovesBeneath ==
  ASSUME NEW w, NEW d, Moves(w, d), UNCHANGED used \/ Spend("error")
  PROVE  Beneath
BY DEF Moves, Beneath, vars

LEMMA SubmitBeneath ==
  ASSUME NEW w \in Worker, NEW j \in Job,
         \/ SubmitInserts(w, j) \/ SubmitEnqueues(w, j) \/ SubmitStored(w, j)
         \/ SubmitRefused(w, j)
  PROVE  Beneath
<1>1. CASE SubmitInserts(w, j) \/ SubmitRefused(w, j)
  BY <1>1, MovesBeneath DEF SubmitInserts, SubmitRefused, Does, Breaks
<1>2. CASE SubmitEnqueues(w, j) \/ SubmitStored(w, j)
  BY <1>2 DEF SubmitEnqueues, SubmitStored, Beneath, Next
<1> QED BY <1>1, <1>2

LEMMA CancelBeneath ==
  ASSUME NEW w \in Worker, NEW j \in Job,
         \/ CancelWaiting(w, j) \/ CancelStarted(w, j) \/ CancelWrites(w, j)
         \/ AdoptionResets(w, j)
  PROVE  Beneath
<1>1. CASE CancelWrites(w, j) \/ AdoptionResets(w, j)
  BY <1>1, MovesBeneath DEF CancelWrites, AdoptionResets, Does, Breaks
<1>2. CASE CancelWaiting(w, j) \/ CancelStarted(w, j)
  BY <1>2 DEF CancelWaiting, CancelStarted, Beneath, Next
<1> QED BY <1>1, <1>2

LEMMA RunBeneath ==
  ASSUME NEW w \in Worker, NEW j \in Job, RunSteps(w, j)
  PROVE  Beneath
<1>1. CASE \/ RunStarts(w, j) \/ RunStops(w, j) \/ RunFails(w, j) \/ RunGraded(w, j)
           \/ RunEnds(w, j) \/ DecideRetry(w, j) \/ RetryReopens(w, j)
  BY <1>1, MovesBeneath DEF RunStarts, RunStops, RunFails, RunGraded, RunEnds,
     DecideRetry, RetryReopens, Does, Breaks
<1>2. CASE RunReturned(w, j) \/ RunThrew(w, j) \/ RetryDecided(w, j)
  BY <1>2 DEF RunReturned, RunThrew, RetryDecided, Beneath, Next
<1> QED BY <1>1, <1>2 DEF RunSteps

LEMMA WorkerBeneath ==
  ASSUME NEW w \in Worker,
         \/ \E b \in Beats : AdoptedHere(w, b)
         \/ Boots(w) \/ CutoffRead(w) \/ Loads(w) \/ RecoverFails(w)
         \/ Restores(w) \/ RecoverReopens(w) \/ Resumes(w)
         \/ SweepAsks(w) \/ SweepReads(w) \/ SweepWrites(w) \/ SweepFails(w)
         \/ Closes(w) \/ Crashes(w) \/ QueueOwnSteps(w)
  PROVE  Beneath
<1>1. CASE \/ CutoffRead(w) \/ RecoverReopens(w) \/ SweepAsks(w) \/ SweepReads(w)
           \/ SweepWrites(w) \/ SweepFails(w)
  BY <1>1, MovesBeneath DEF CutoffRead, RecoverReopens, SweepAsks, SweepReads,
     SweepWrites, SweepFails, Does, Breaks
<1>2. CASE \E b \in Beats : AdoptedHere(w, b)
  BY <1>2 DEF AdoptedHere, Beneath, Next
<1>3. CASE Boots(w) \/ Loads(w) \/ RecoverFails(w) \/ Restores(w) \/ Resumes(w)
           \/ Closes(w) \/ Crashes(w)
  BY <1>3 DEF Boots, Loads, RecoverFails, Restores, Resumes, Closes, Crashes,
     Beneath, Next
<1>4. CASE QueueOwnSteps(w)
  BY <1>4 DEF QueueOwnSteps, Beneath, Next
<1> QED BY <1>1, <1>2, <1>3, <1>4

LEMMA StepBeneath == AuditNext => Beneath
<1> SUFFICES ASSUME AuditNext PROVE Beneath
  OBVIOUS
<1>1. CASE TimePasses
  BY <1>1 DEF TimePasses, Beneath, Next
<1>2. CASE \E w \in Worker, j \in Job :
             \/ SubmitInserts(w, j) \/ SubmitEnqueues(w, j) \/ SubmitStored(w, j)
             \/ SubmitRefused(w, j)
             \/ CancelWaiting(w, j) \/ CancelStarted(w, j) \/ CancelWrites(w, j)
             \/ RunSteps(w, j)
             \/ AdoptionResets(w, j)
  BY <1>2, SubmitBeneath, CancelBeneath, RunBeneath
<1>3. CASE \E w \in Worker :
             \/ \E b \in Beats : AdoptedHere(w, b)
             \/ Boots(w) \/ CutoffRead(w) \/ Loads(w) \/ RecoverFails(w)
             \/ Restores(w) \/ RecoverReopens(w) \/ Resumes(w)
             \/ SweepAsks(w) \/ SweepReads(w) \/ SweepWrites(w) \/ SweepFails(w)
             \/ Closes(w) \/ Crashes(w) \/ QueueOwnSteps(w)
  BY <1>3, WorkerBeneath
<1> QED BY <1>1, <1>2, <1>3 DEF AuditNext

(* What holds of the queue by itself holds of it under the scheduler.      *)
LEMMA QueueCarries ==
  ASSUME TypeOK, AllTidy, Beneath
  PROVE  TypeOK' /\ AllTidy' /\ AllKept
<1>1. CASE [Next]_vars
  BY <1>1, StepType, StepTidy
<1>2. CASE UNCHANGED <<row, mem, submitted, lapsed>> /\ Spend("error")
  <2>1. TypeOK'
    BY <1>2, SpendType, KindsNamed DEF TypeOK
  <2> QED BY <1>2, <2>1, StillTidy
<1> QED BY <1>1, <1>2 DEF Beneath

LEMMA StillBeneath == UNCHANGED auditVars => Beneath
BY DEF auditVars, Beneath

LEMMA ClaimsCarry ==
  ASSUME Mode = "leased", IInv, Beneath
  PROVE  IInv'
<1>1. CASE [Next]_vars
  BY <1>1, StepSafe
<1>2. CASE UNCHANGED <<row, mem, submitted, lapsed>> /\ Spend("error")
  <2>1. TypeOK'
    BY <1>2, SpendType, KindsNamed DEF TypeOK, IInv
  <2>2. ClaimsHold'
    BY <1>2 DEF IInv, ClaimsHold, LaneInv
  <2> QED BY <2>1, <2>2 DEF IInv
<1> QED BY <1>1, <1>2 DEF Beneath

-----------------------------------------------------------------------------
LEMMA SubmitTypes ==
  ASSUME AuditTypeOK, TypeOK', NEW w \in Worker, NEW j \in Job,
         \/ SubmitInserts(w, j) \/ SubmitEnqueues(w, j) \/ SubmitStored(w, j)
         \/ SubmitRefused(w, j)
  PROVE  AuditTypeOK'
<1>1. \A s \in Submitting : [duty[w] EXCEPT !.submit[j] = s] \in Duty
  BY DEF AuditTypeOK, Duty
<1>2. {"no", "inserted", "storing", "refusing"} \subseteq Submitting
  BY DEF Submitting
<1>3. CASE SubmitInserts(w, j)
  BY <1>1, <1>2, <1>3, MovesType, MarkedType DEF SubmitInserts, Does, AuditTypeOK
<1>4. CASE SubmitEnqueues(w, j)
  BY <1>1, <1>2, <1>4, CarriesType DEF SubmitEnqueues, Follows, AuditTypeOK
<1>5. CASE SubmitStored(w, j)
  BY <1>1, <1>2, <1>5, CarriesType DEF SubmitStored, Follows, AuditTypeOK
<1>6. CASE SubmitRefused(w, j)
  <2>1. Marked({j}, "failed", TRUE) \in [Job -> AuditRow]
    BY MarkedType
  <2>2. audit' \in [Job -> AuditRow]
    BY <1>6, <2>1 DEF SubmitRefused, Breaks, AuditTypeOK
  <2> QED BY <1>1, <1>2, <1>6, <2>2, MovesType DEF SubmitRefused, Does, AuditTypeOK
<1> QED BY <1>3, <1>4, <1>5, <1>6

LEMMA CancelTypes ==
  ASSUME AuditTypeOK, TypeOK', NEW w \in Worker, NEW j \in Job,
         \/ CancelWaiting(w, j) \/ CancelStarted(w, j) \/ CancelWrites(w, j)
         \/ AdoptionResets(w, j)
  PROVE  AuditTypeOK'
<1>1. /\ duty[w] \in Duty
      /\ [duty[w] EXCEPT !.closing = @ \cup {j}] \in Duty
      /\ [duty[w] EXCEPT !.closing = @ \ {j}] \in Duty
      /\ [duty[w] EXCEPT !.resets = @ \ {j}] \in Duty
  BY DEF AuditTypeOK, Duty
<1>2. CASE CancelWaiting(w, j)
  BY <1>1, <1>2, CarriesType DEF CancelWaiting, Follows, AuditTypeOK
<1>3. CASE CancelStarted(w, j)
  BY <1>1, <1>3, CarriesType DEF CancelStarted, AuditTypeOK
<1>4. CASE CancelWrites(w, j)
  <2>1. MarkedKeepingError({j}, "cancelled") \in [Job -> AuditRow]
    BY MarkedType
  <2>2. audit' \in [Job -> AuditRow]
    BY <1>4, <2>1 DEF CancelWrites, Breaks, AuditTypeOK
  <2> QED BY <1>1, <1>4, <2>2, MovesType DEF CancelWrites, Does, AuditTypeOK
<1>5. CASE AdoptionResets(w, j)
  <2>1. MarkedKeepingError({j}, "pending") \in [Job -> AuditRow]
    BY MarkedType
  <2>2. audit' \in [Job -> AuditRow]
    BY <1>5, <2>1 DEF AdoptionResets, Breaks, AuditTypeOK
  <2> QED BY <1>1, <1>5, <2>2, MovesType DEF AdoptionResets, AuditTypeOK
<1> QED BY <1>2, <1>3, <1>4, <1>5

LEMMA RunTypes ==
  ASSUME AuditTypeOK, TypeOK', NEW w \in Worker, NEW j \in Job, RunSteps(w, j)
  PROVE  AuditTypeOK'
<1>1. duty[w] \in Duty /\ \A stage \in Stage : AtStage(w, j, stage) \in Duty
  BY StageType DEF AuditTypeOK
<1>2. {"working", "completing", "cancelling", "returned", "threw", "reopening",
       "reopened", "unopened"} \subseteq Stage
  BY DEF Stage
<1>3. CASE RunStarts(w, j)
  <2>1. Marked({j}, "running", FALSE) \in [Job -> AuditRow]
    BY MarkedType
  <2>2. audit' \in [Job -> AuditRow]
    BY <1>3, <2>1 DEF RunStarts, Breaks, AuditTypeOK
  <2> QED BY <1>1, <1>2, <1>3, <2>2, MovesType DEF RunStarts, Does, AuditTypeOK
<1>4. CASE RunStops(w, j)
  BY <1>1, <1>2, <1>4, MovesType, CatchType DEF RunStops, Does, AuditTypeOK
<1>5. CASE RunFails(w, j)
  BY <1>5, MovesType, CatchType DEF RunFails, Does, AuditTypeOK
<1>6. CASE RunGraded(w, j)
  BY <1>1, <1>2, <1>6, MovesType DEF RunGraded, Does, AuditTypeOK
<1>7. CASE RunEnds(w, j)
  <2>1. duty[w].stage[j] \in {"completing", "failing", "cancelling"}
    BY <1>7 DEF RunEnds
  <2>2. Verdict(j, duty[w].stage[j]) \in [Job -> AuditRow]
    BY <2>1, VerdictType
  <2>3. audit' \in [Job -> AuditRow]
    BY <1>7, <2>2 DEF RunEnds, Breaks, AuditTypeOK
  <2>4. duty' \in [Worker -> Duty]
    BY <1>1, <1>2, <1>7, MovesType, CatchType DEF RunEnds, Does
  <2> QED BY <2>3, <2>4 DEF AuditTypeOK
<1>8. CASE RunReturned(w, j) \/ RunThrew(w, j) \/ RetryDecided(w, j)
  BY <1>1, <1>8, CarriesType DEF RunReturned, RunThrew, RetryDecided, Follows, AuditTypeOK
<1>9. CASE DecideRetry(w, j)
  BY <1>1, <1>2, <1>9, MovesType DEF DecideRetry, AuditTypeOK
<1>10. CASE RetryReopens(w, j)
  <2>1. MarkedKeepingError({j}, "pending") \in [Job -> AuditRow]
    BY MarkedType
  <2>2. audit' \in [Job -> AuditRow]
    BY <1>10, <2>1 DEF RetryReopens, Breaks, AuditTypeOK
  <2> QED BY <1>1, <1>2, <1>10, <2>2, MovesType DEF RetryReopens, Does, AuditTypeOK
<1> QED BY <1>3, <1>4, <1>5, <1>6, <1>7, <1>8, <1>9, <1>10 DEF RunSteps

LEMMA RecoverTypes ==
  ASSUME AuditTypeOK, TypeOK, TypeOK', NEW w \in Worker,
         \/ Boots(w) \/ CutoffRead(w) \/ Loads(w) \/ RecoverFails(w)
         \/ Restores(w) \/ RecoverReopens(w) \/ Resumes(w)
         \/ Closes(w) \/ Crashes(w) \/ QueueOwnSteps(w)
         \/ \E b \in Beats : AdoptedHere(w, b)
  PROVE  AuditTypeOK'
<1>1. /\ duty[w] \in Duty
      /\ [duty[w] EXCEPT !.sweep = "skipped"] \in Duty
      /\ \A S \in SUBSET Job :
           /\ [duty[w] EXCEPT !.known = TRUE, !.cutoff = S] \in Duty
           /\ [duty[w] EXCEPT !.reopen = S] \in Duty
           /\ [duty[w] EXCEPT !.resets = S] \in Duty
           /\ [duty[w] EXCEPT !.sweep = "asking", !.live = S] \in Duty
      /\ [duty[w] EXCEPT !.reopen = {}] \in Duty
      /\ [[duty[w] EXCEPT !.reopen = {}] EXCEPT !.sweep = "skipped"] \in Duty
  BY DEF AuditTypeOK, Duty, Sweep
<1>2. CASE Boots(w) \/ Crashes(w)
  BY <1>2, EmptyDuties DEF Boots, Crashes, AuditTypeOK
<1>3. CASE CutoffRead(w)
  <2>1. { j \in Job : audit[j].status # "none" } \in SUBSET Job
    OBVIOUS
  <2> QED BY <1>1, <1>3, <2>1, MovesType DEF CutoffRead, Does, AuditTypeOK
<1>4. CASE Loads(w) \/ RecoverFails(w) \/ Closes(w) \/ QueueOwnSteps(w)
  BY <1>1, <1>4, CarriesType DEF Loads, RecoverFails, Closes, QueueOwnSteps, Follows,
     AuditTypeOK
<1>5. CASE Restores(w)
  <2>1. NewClaims(mem[w], mem[w].loaded) \in SUBSET Job
    BY DEF NewClaims, TypeOK, Memory, Claims
  <2> QED BY <1>1, <1>5, <2>1, CarriesType DEF Restores, Follows, AuditTypeOK
<1>6. CASE RecoverReopens(w)
  BY <1>1, <1>6, MovesType, MarkedType DEF RecoverReopens, Breaks, AuditTypeOK
<1>7. CASE Resumes(w)
  <2> DEFINE L == { j \in Job : mem'[w].ent[j].state \in {"queued", "running"} }
  <2>1. L \in SUBSET Job
    OBVIOUS
  <2>2. PICK S \in SUBSET Job : S = L
    BY <2>1
  <2>3. IF duty[w].sweep # "due" THEN Carries(w, duty[w])
        ELSE Carries(w, [duty[w] EXCEPT !.sweep = "asking", !.live = S])
    BY <1>7, <2>2 DEF Resumes, Follows
  <2> QED BY <1>1, <1>7, <2>3, CarriesType DEF Resumes, AuditTypeOK
<1>8. ASSUME NEW b \in Beats, AdoptedHere(w, b) PROVE AuditTypeOK'
  <2>1. duty[w].resets \cup NewClaims(mem[w], mem[w].beats[b].got) \in SUBSET Job
    BY DEF NewClaims, TypeOK, Memory, Beat, Claims, AuditTypeOK, Duty
  <2> QED BY <1>1, <1>8, <2>1, CarriesType DEF AdoptedHere, Follows, AuditTypeOK
<1> QED BY <1>2, <1>3, <1>4, <1>5, <1>6, <1>7, <1>8

LEMMA SweepTypes ==
  ASSUME AuditTypeOK, NEW w \in Worker,
         SweepAsks(w) \/ SweepReads(w) \/ SweepWrites(w) \/ SweepFails(w)
  PROVE  AuditTypeOK'
<1>1. /\ \A S \in SUBSET Job : [duty[w] EXCEPT !.sweep = "reading", !.live = S] \in Duty
      /\ \A s \in Sweep, S \in SUBSET Job :
           [duty[w] EXCEPT !.sweep = s, !.orphans = S, !.live = {}] \in Duty
      /\ [duty[w] EXCEPT !.sweep = "done", !.orphans = {}] \in Duty
      /\ [[duty[w] EXCEPT !.sweep = "done", !.orphans = {}] EXCEPT !.sweep = "skipped"] \in Duty
      /\ [duty[w] EXCEPT !.sweep = "skipped", !.live = {}] \in Duty
  BY DEF AuditTypeOK, Duty, Sweep
<1>2. CASE SweepAsks(w)
  <2>1. duty[w].live \cup Outstanding(row) \in SUBSET Job
    BY DEF Outstanding, AuditTypeOK, Duty
  <2> QED BY <1>1, <1>2, <2>1, MovesType DEF SweepAsks, AuditTypeOK
<1>3. CASE SweepReads(w)
  <2>1. Orphans(w) \in SUBSET Job /\ {"done", "writing"} \subseteq Sweep
    BY DEF Orphans, AuditTypeOK, Duty, Sweep
  <2> QED BY <1>1, <1>3, <2>1, MovesType DEF SweepReads, Does, AuditTypeOK
<1>4. CASE SweepWrites(w)
  BY <1>1, <1>4, MovesType, MarkedType DEF SweepWrites, Does, Breaks, AuditTypeOK
<1>5. CASE SweepFails(w)
  BY <1>1, <1>5, MovesType DEF SweepFails, Does, AuditTypeOK
<1> QED BY <1>2, <1>3, <1>4, <1>5

LEMMA AuditStepType ==
  ASSUME AuditTypeOK, TypeOK, TypeOK', [AuditNext]_auditVars
  PROVE  AuditTypeOK'
<1>1. CASE UNCHANGED auditVars \/ TimePasses
  BY <1>1 DEF auditVars, TimePasses, AuditTypeOK
<1>2. CASE \E w \in Worker, j \in Job :
             \/ SubmitInserts(w, j) \/ SubmitEnqueues(w, j) \/ SubmitStored(w, j)
             \/ SubmitRefused(w, j)
             \/ CancelWaiting(w, j) \/ CancelStarted(w, j) \/ CancelWrites(w, j)
             \/ RunSteps(w, j)
             \/ AdoptionResets(w, j)
  BY <1>2, SubmitTypes, CancelTypes, RunTypes
<1>3. CASE \E w \in Worker :
             \/ \E b \in Beats : AdoptedHere(w, b)
             \/ Boots(w) \/ CutoffRead(w) \/ Loads(w) \/ RecoverFails(w)
             \/ Restores(w) \/ RecoverReopens(w) \/ Resumes(w)
             \/ SweepAsks(w) \/ SweepReads(w) \/ SweepWrites(w) \/ SweepFails(w)
             \/ Closes(w) \/ Crashes(w) \/ QueueOwnSteps(w)
  BY <1>3, RecoverTypes, SweepTypes
<1> QED BY <1>1, <1>2, <1>3 DEF AuditNext

-----------------------------------------------------------------------------
(* Only a handler that throws and the policy's answer change which jobs    *)
(* are being decided about.                                                *)
Undecided(m, n) == n \in Memory /\ n.deciding = m.deciding /\ n.up = m.up

LEMMA PumpUndecided ==
  ASSUME NEW m, NEW n, Undecided(m, n)
  PROVE  Undecided(m, Pump(n))
<1> DEFINE T == Taken(n, ByPriority(n))
<1>1. n \in Memory /\ T \in SUBSET Job
  BY TakenType DEF Undecided
<1>2. Pump(n) = CheckIdle(ScheduleHeartbeat(Start(n, T)))
  BY DEF Pump
<1> HIDE DEF T
<1>3. Start(n, T) \in Memory /\ Start(n, T).deciding = n.deciding /\ Start(n, T).up = n.up
  BY <1>1, StartType, StartFields DEF AgreeAround
<1> QED BY <1>1, <1>2, <1>3, ScheduleHeartbeatType, CheckIdleType,
        ScheduleHeartbeatAgrees, CheckIdleAgrees DEF Undecided, Agree

LEMMA PullUndecided ==
  ASSUME NEW m, NEW n, Undecided(m, n), NEW S \in SUBSET Job
  PROVE  Undecided(m, Pull(n, S))
BY PullType, PullFields DEF Undecided, AgreeAround

LEMMA PushUndecided ==
  ASSUME NEW m, NEW n, Undecided(m, n), NEW j \in Job
  PROVE  Undecided(m, Push(n, j))
BY PushType, PushFields DEF Undecided, AgreeAround

LEMMA SettleUndecided ==
  ASSUME NEW m, NEW n, Undecided(m, n), NEW S \in SUBSET Job, NEW state \in Terminal
  PROVE  Undecided(m, Settle(n, S, state))
BY SettleType, SettleFields DEF Undecided, SettlesTo, AgreeAround

LEMMA LoseUndecided ==
  ASSUME NEW m, NEW n, Undecided(m, n), NEW S \in SUBSET Job
  PROVE  Undecided(m, Lose(n, S))
BY LoseType, LoseFields DEF Undecided, AgreeAround

LEMMA CheckUndecided ==
  ASSUME NEW m, NEW n, Undecided(m, n)
  PROVE  Undecided(m, CheckIdle(n)) /\ Undecided(m, ScheduleHeartbeat(n))
BY ScheduleHeartbeatType, CheckIdleType, ScheduleHeartbeatAgrees, CheckIdleAgrees
   DEF Undecided, Agree

LEMMA FieldsUndecided ==
  ASSUME NEW m, NEW n, Undecided(m, n)
  PROVE  /\ \A j \in Job, e \in Entry :
              Undecided(m, [n EXCEPT !.ent = [n.ent EXCEPT ![j] = e]])
         /\ \A j \in Job, c \in Seq(Write) :
              Undecided(m, [n EXCEPT !.chain = [n.chain EXCEPT ![j] = c]])
         /\ \A b \in Beats, x \in Beat :
              Undecided(m, [n EXCEPT !.beats = [n.beats EXCEPT ![b] = x]])
<1>1. n \in Memory /\ n.deciding = m.deciding /\ n.up = m.up
  BY DEF Undecided
<1>2. ASSUME NEW j \in Job, NEW e \in Entry
      PROVE  Undecided(m, [n EXCEPT !.ent = [n.ent EXCEPT ![j] = e]])
  BY <1>1, EntryField DEF Undecided, Memory
<1>3. ASSUME NEW j \in Job, NEW c \in Seq(Write)
      PROVE  Undecided(m, [n EXCEPT !.chain = [n.chain EXCEPT ![j] = c]])
  BY <1>1, ChainField DEF Undecided, Memory
<1>4. ASSUME NEW b \in Beats, NEW x \in Beat
      PROVE  Undecided(m, [n EXCEPT !.beats = [n.beats EXCEPT ![b] = x]])
  BY <1>1, BeatField DEF Undecided, Memory
<1> QED BY <1>2, <1>3, <1>4

LEMMA DropUndecided ==
  ASSUME NEW m \in Memory, NEW j \in Job, m.chain[j] # <<>>
  PROVE  Undecided(m, DropHead(m, j))
<1>1. DropHead(m, j).deciding = m.deciding /\ DropHead(m, j).up = m.up
  BY DEF DropHead, Memory
<1> QED BY <1>1, DropHeadType DEF Undecided

LEMMA EndBeatUndecided ==
  ASSUME NEW m, NEW n, Undecided(m, n), NEW b \in Beats
  PROVE  Undecided(m, EndBeat(n, b)) /\ Undecided(m, AskToAdopt(n, b))
<1> DEFINE x == [NoBeat EXCEPT !.phase = "adopting"]
<1>1. NoBeat \in Beat /\ x \in Beat
  BY EmptyTypes DEF NoBeat, Beat
<1>2. /\ Undecided(m, [n EXCEPT !.beats = [n.beats EXCEPT ![b] = NoBeat]])
      /\ Undecided(m, [n EXCEPT !.beats = [n.beats EXCEPT ![b] = x]])
  BY <1>1, FieldsUndecided
<1>3. Undecided(m, EndBeat(n, b))
  BY <1>2, CheckUndecided, PumpUndecided DEF EndBeat
<1> QED BY <1>2, <1>3 DEF AskToAdopt

LEMMA RestoreUndecided ==
  ASSUME NEW m, NEW n, Undecided(m, n), NEW claims \in Claims, NEW age,
         age \subseteq NewClaims(n, claims) \X NewClaims(n, claims)
  PROVE  Undecided(m, RestoreAll(n, claims, age))
<1> DEFINE S == NewClaims(n, claims)
           ent == [j \in Job |->
                     IF j \in S
                     THEN [state |-> "queued", attempt |-> claims.attempt[j],
                           waiting |-> claims.backoff[j], backoff |-> claims.backoff[j],
                           durability |-> "stored", cancelRequested |-> FALSE]
                     ELSE n.ent[j]]
           later == { j \in S : \E i \in S : <<i, j>> \in age }
           queue == n.queue \cup S
           ahead == n.ahead \cup (n.queue \X S) \cup age
           admitted == [n EXCEPT !.ent = ent, !.queue = queue, !.ahead = ahead]
           order == { p \in ByPriority(admitted) : p[1] \notin later /\ p[2] \notin later }
                      \cup { p \in admitted.ahead : p[2] \in later }
           T == Taken(admitted, order)
<1>1. n \in Memory /\ n.deciding = m.deciding /\ n.up = m.up
  BY DEF Undecided
<1>2. RestoreAll(n, claims, age) =
        IF S = {} THEN n ELSE CheckIdle(ScheduleHeartbeat(Start(admitted, T)))
  BY DEF RestoreAll
<1>3. ent \in [Job -> Entry]
  BY <1>1 DEF Claims, Entry, Memory
<1>4. admitted \in Memory /\ admitted.deciding = n.deciding /\ admitted.up = n.up
  <2>1. S \in SUBSET Job /\ age \in SUBSET (Job \X Job)
    BY DEF NewClaims, Claims
  <2>2. queue \in SUBSET Job /\ ahead \in SUBSET (Job \X Job)
    BY <1>1, <2>1 DEF Memory
  <2> HIDE DEF ent, queue, ahead
  <2>3. admitted \in Memory
    BY <1>1, <1>3, <2>2, QueueFields
  <2>4. admitted.deciding = n.deciding /\ admitted.up = n.up
    BY <1>1 DEF Memory
  <2> QED BY <2>3, <2>4
<1>5. T \in SUBSET Job
  <2> HIDE DEF admitted, order
  <2> QED BY <1>4, TakenType
<1> HIDE DEF T, admitted
<1>6. Undecided(m, Start(admitted, T))
  BY <1>1, <1>4, <1>5, StartType, StartFields DEF Undecided, AgreeAround
<1> QED BY <1>2, <1>6, CheckUndecided

Undeciding(w) == \E n : Becomes(w, n) /\ Undecided(mem[w], n)

LEMMA MemoryUndecided ==
  ASSUME TypeOK, NEW w \in Worker
  PROVE  mem[w] \in Memory /\ Undecided(mem[w], mem[w])
BY DEF TypeOK, Undecided

LEMMA ClientUndecided ==
  ASSUME TypeOK, NEW w \in Worker, NEW j \in Job,
         Enqueue(w, j) \/ CancelQueued(w, j) \/ CancelRunning(w, j) \/ Wake(w, j)
  PROVE  Undeciding(w)
<1> DEFINE m == mem[w]
<1>1. m \in Memory /\ Undecided(m, m) /\ m.ent[j] \in Entry
  BY MemoryUndecided DEF Memory
<1>2. CASE Enqueue(w, j)
  <2> DEFINE e == [Unknown EXCEPT !.state = "queued",
                        !.durability = IF Mode = "memory" THEN "none" ELSE "pending"]
             n == [m EXCEPT !.ent = [m.ent EXCEPT ![j] = e]]
             S == {j}
             created == Persist(n, S, "create")
  <2>1. e \in Entry
    BY DEF Unknown, Entry
  <2>2. Becomes(w, Pump(Push(created, j)))
    BY <1>2 DEF Enqueue
  <2>3. Undecided(m, n)
    <3> HIDE DEF m, e
    <3> QED BY <1>1, <2>1, FieldsUndecided
  <2>4. Undecided(m, created)
    <3> HIDE DEF n
    <3> QED BY <2>3, PersistType, PersistFields DEF Undecided, Persisted, AgreeAround
  <2> HIDE DEF created
  <2>5. Undecided(m, Pump(Push(created, j)))
    BY <2>4, PushUndecided, PumpUndecided
  <2> QED BY <2>2, <2>5 DEF Undeciding
<1>3. CASE CancelQueued(w, j)
  <2>1. Undecided(m, Pump(Settle(Pull(m, {j}), {j}, "cancelled")))
    BY <1>1, PullUndecided, SettleUndecided, PumpUndecided DEF Terminal
  <2> QED BY <1>3, <2>1 DEF Undeciding, CancelQueued
<1>4. CASE CancelRunning(w, j)
  <2> DEFINE e == [m.ent[j] EXCEPT !.cancelRequested = TRUE]
             n == [m EXCEPT !.ent = [m.ent EXCEPT ![j] = e]]
  <2>1. e \in Entry
    BY <1>1 DEF Entry
  <2>2. Becomes(w, n)
    BY <1>4 DEF CancelRunning
  <2> HIDE DEF m, e
  <2>3. Undecided(m, n)
    BY <1>1, <2>1, FieldsUndecided
  <2> HIDE DEF n
  <2> QED BY <2>2, <2>3 DEF Undeciding, m
<1>5. CASE Wake(w, j)
  <2> DEFINE e == [m.ent[j] EXCEPT !.waiting = FALSE]
             n == [m EXCEPT !.ent = [m.ent EXCEPT ![j] = e]]
  <2>1. e \in Entry
    BY <1>1 DEF Entry
  <2>2. Becomes(w, IF n.paused THEN n ELSE Pump(n))
    BY <1>5 DEF Wake
  <2> HIDE DEF m, e
  <2>3. Undecided(m, n)
    BY <1>1, <2>1, FieldsUndecided
  <2> HIDE DEF n
  <2> QED BY <2>2, <2>3, PumpUndecided DEF Undeciding, m
<1> QED BY <1>2, <1>3, <1>4, <1>5

LEMMA ChainUndecided ==
  ASSUME TypeOK, NEW w \in Worker, NEW j \in Job,
         \/ StoreExecutes(w, j) \/ StoreFails(w, j) \/ CreateSettles(w, j)
         \/ WriteSettles(w, j) \/ AcquireSettles(w, j)
  PROVE  Undeciding(w)
<1> DEFINE old == mem[w]
           m == DropHead(mem[w], j)
<1>1. old \in Memory /\ Undecided(old, old)
  BY MemoryUndecided
<1>2. old.chain[j] # <<>>
  BY DEF StoreExecutes, StoreFails, CreateSettles, WriteSettles, AcquireSettles, Asked, Answered
<1>3. m \in Memory /\ Undecided(old, m)
  BY <1>1, <1>2, DropHeadType, DropUndecided
<1>4. m.ent[j] \in Entry
  BY <1>3 DEF Memory
<1>5. CASE StoreExecutes(w, j) \/ StoreFails(w, j)
  <2>1. PICK answer \in {"none", "ok", "held", "lost", "error"} :
          Becomes(w, AnswerHead(old, j, answer))
    BY <1>5 DEF StoreExecutes, StoreFails, Answer
  <2>2. AnswerHead(old, j, answer) \in Memory
    BY <1>1, <1>2, AnswerHeadType
  <2>3. AnswerHead(old, j, answer).deciding = old.deciding /\ AnswerHead(old, j, answer).up = old.up
    BY <1>1 DEF AnswerHead, Memory
  <2> QED BY <2>1, <2>2, <2>3 DEF Undeciding, Undecided
<1>6. CASE CreateSettles(w, j)
  <2> DEFINE e == [m.ent[j] EXCEPT !.durability = "stored"]
             stored == [m EXCEPT !.ent = [m.ent EXCEPT ![j] = e]]
  <2>1. e \in Entry
    BY <1>4 DEF Entry
  <2>2. \/ Becomes(w, Pump(stored)) \/ Becomes(w, Pump(m))
        \/ Becomes(w, Pump(Settle(Pull(m, {j}), {j}, "failed")))
    BY <1>6 DEF CreateSettles
  <2> HIDE DEF m, e, old
  <2>3. Undecided(old, stored)
    BY <1>3, <2>1, FieldsUndecided
  <2>4. Undecided(old, Settle(Pull(m, {j}), {j}, "failed"))
    BY <1>3, PullUndecided, SettleUndecided DEF Terminal
  <2> HIDE DEF stored
  <2>5. \A n : Undecided(old, n) => Undecided(old, Pump(n))
    BY PumpUndecided
  <2> QED BY <1>3, <2>2, <2>3, <2>4, <2>5 DEF Undeciding, old
<1>7. CASE WriteSettles(w, j)
  <2>1. Becomes(w, CheckIdle(m)) \/ Becomes(w, CheckIdle(Lose(m, {j})))
    BY <1>7 DEF WriteSettles
  <2> HIDE DEF m, old
  <2>2. Undecided(old, CheckIdle(m)) /\ Undecided(old, CheckIdle(Lose(m, {j})))
    BY <1>3, LoseUndecided, CheckUndecided
  <2> QED BY <2>1, <2>2 DEF Undeciding, old
<1>8. CASE AcquireSettles(w, j)
  <2> DEFINE answer == Head(mem[w].chain[j]).answer
             told == IF answer = "lost" THEN Lose(m, {j}) ELSE m
             freed == [told EXCEPT !.starting = @ \ {j}, !.busy = @ \ {LaneOf[j]}]
             e == [freed.ent[j] EXCEPT !.waiting = TRUE]
             held == [freed EXCEPT !.ent = [freed.ent EXCEPT ![j] = e]]
  <2>1. Undecided(old, told)
    <3> HIDE DEF m, old
    <3> QED BY <1>3, LoseUndecided
  <2>2. Becomes(w, CASE freed.ent[j].state \in Terminal -> Pump(freed)
                     [] freed.ent[j].state \notin Terminal /\ answer = "ok" ->
                          RunClaimed(freed, j)
                     [] OTHER -> Pump(Push(held, j)))
    BY <1>8 DEF AcquireSettles
  <2> HIDE DEF told, answer, old
  <2>3. Undecided(old, freed)
    <3>1. told \in Memory /\ told.deciding = old.deciding /\ told.up = old.up
      BY <2>1 DEF Undecided
    <3>2. freed \in Memory /\ freed.deciding = told.deciding /\ freed.up = told.up
      BY <3>1 DEF Memory
    <3> QED BY <3>1, <3>2 DEF Undecided
  <2> HIDE DEF freed
  <2>4. freed \in Memory /\ freed.ent[j] \in Entry
    BY <2>3 DEF Undecided, Memory
  <2>5. e \in Entry
    BY <2>4 DEF Entry
  <2> HIDE DEF e
  <2>6. Undecided(old, held)
    BY <2>3, <2>5, FieldsUndecided
  <2>7. Undecided(old, RunClaimed(freed, j))
    <3>1. RunClaimed(freed, j).deciding = freed.deciding /\ RunClaimed(freed, j).up = freed.up
      BY <2>4 DEF RunClaimed, Memory
    <3> QED BY <2>3, <2>4, <3>1, RunClaimedType DEF Undecided
  <2> HIDE DEF held
  <2>8. Undecided(old, Pump(freed)) /\ Undecided(old, Pump(Push(held, j)))
    BY <2>3, <2>6, PushUndecided, PumpUndecided
  <2>9. \/ Becomes(w, Pump(freed)) \/ Becomes(w, RunClaimed(freed, j))
        \/ Becomes(w, Pump(Push(held, j)))
    BY <2>2
  <2> QED BY <2>7, <2>8, <2>9 DEF Undeciding, old
<1> QED BY <1>5, <1>6, <1>7, <1>8

LEMMA BeatUndecided ==
  ASSUME TypeOK, NEW w \in Worker, NEW b \in Beats,
         \/ BeatStarts(w, b) \/ RenewExecutes(w, b) \/ Renewed(w, b)
         \/ AdoptExecutes(w, b) \/ Adopted(w, b) \/ BeatFails(w, b)
  PROVE  Undeciding(w)
<1> DEFINE m == mem[w]
<1>1. m \in Memory /\ Undecided(m, m) /\ m.beats[b] \in Beat /\ row \in Table
  BY MemoryUndecided DEF Memory, TypeOK
<1>2. CASE BeatStarts(w, b)
  <2> DEFINE t == [m EXCEPT !.timer = FALSE]
             x == [NoBeat EXCEPT !.phase = "renewing", !.ids = Held(t)]
             n == [t EXCEPT !.beats = [t.beats EXCEPT ![b] = x]]
  <2>1. Becomes(w, IF Held(t) = {} THEN AskToAdopt(t, b) ELSE n)
    BY <1>2 DEF BeatStarts
  <2>2. Undecided(m, t)
    <3> HIDE DEF m
    <3> QED BY <1>1 DEF Undecided, Memory
  <2> HIDE DEF t
  <2>3. x \in Beat
    <3>1. Held(t) \in SUBSET Job /\ NoBeat \in Beat
      BY EmptyTypes DEF Held
    <3> QED BY <3>1 DEF Beat
  <2> HIDE DEF x, m
  <2>4. Undecided(m, n) /\ Undecided(m, AskToAdopt(t, b))
    BY <2>2, <2>3, FieldsUndecided, EndBeatUndecided
  <2> HIDE DEF n
  <2> QED BY <2>1, <2>4 DEF Undeciding, m
<1>3. CASE RenewExecutes(w, b)
  <2> DEFINE lost == RenewLost(row, w, m.beats[b].ids)
             x == [m.beats[b] EXCEPT !.phase = "renewed", !.ids = lost]
             n == [m EXCEPT !.beats = [m.beats EXCEPT ![b] = x]]
  <2>1. Becomes(w, n)
    BY <1>3 DEF RenewExecutes
  <2>2. x \in Beat
    <3>1. lost \in SUBSET Job
      BY <1>1 DEF RenewLost, Beat
    <3> HIDE DEF lost, m
    <3> QED BY <1>1, <3>1 DEF Beat
  <2> HIDE DEF x, m
  <2>3. Undecided(m, n)
    BY <1>1, <2>2, FieldsUndecided
  <2> HIDE DEF n
  <2> QED BY <2>1, <2>3 DEF Undeciding, m
<1>4. CASE Renewed(w, b)
  <2>1. m.beats[b].ids \in SUBSET Job
    BY <1>1 DEF Beat
  <2>2. Undecided(m, AskToAdopt(Lose(m, m.beats[b].ids), b))
    <3> HIDE DEF m
    <3> QED BY <1>1, <2>1, LoseUndecided, EndBeatUndecided
  <2> QED BY <1>4, <2>2 DEF Undeciding, Renewed
<1>5. CASE AdoptExecutes(w, b)
  <2>1. PICK S \in AdoptionBatches(row, w) :
          Becomes(w, [m EXCEPT !.beats[b] =
                        [@ EXCEPT !.phase = "adopted", !.got = ClaimsOf(S)]])
    BY <1>5 DEF AdoptExecutes
  <2> DEFINE x == [m.beats[b] EXCEPT !.phase = "adopted", !.got = ClaimsOf(S)]
             n == [m EXCEPT !.beats = [m.beats EXCEPT ![b] = x]]
  <2>2. Becomes(w, n)
    BY <2>1
  <2>3. x \in Beat
    <3>1. S \in SUBSET Job
      BY DEF AdoptionBatches, Abandoned, Outstanding
    <3>2. ClaimsOf(S) \in Claims
      BY <1>1, <3>1, ClaimsOfType
    <3> HIDE DEF m
    <3> QED BY <1>1, <3>2 DEF Beat
  <2> HIDE DEF x, m
  <2>4. Undecided(m, n)
    BY <1>1, <2>3, FieldsUndecided
  <2> HIDE DEF n
  <2> QED BY <2>2, <2>4 DEF Undeciding, m
<1>6. CASE Adopted(w, b)
  <2> DEFINE got == m.beats[b].got
  <2>1. PICK age \in AgeOrders(NewClaims(m, got)) :
          Becomes(w, EndBeat(RestoreAll(m, got, age), b))
    BY <1>6 DEF Adopted
  <2>2. got \in Claims
    BY <1>1 DEF Beat
  <2> HIDE DEF m, got
  <2>3. age \subseteq NewClaims(m, got) \X NewClaims(m, got)
    BY DEF AgeOrders
  <2>4. Undecided(m, EndBeat(RestoreAll(m, got, age), b))
    BY <1>1, <2>2, <2>3, RestoreUndecided, EndBeatUndecided
  <2> QED BY <2>1, <2>4 DEF Undeciding, m
<1>7. CASE BeatFails(w, b)
  <2>1. Becomes(w, AskToAdopt(m, b)) \/ Becomes(w, EndBeat(m, b))
    BY <1>7 DEF BeatFails
  <2> QED BY <1>1, <2>1, EndBeatUndecided DEF Undeciding
<1> QED BY <1>2, <1>3, <1>4, <1>5, <1>6, <1>7

LEMMA WholeUndecided ==
  ASSUME TypeOK, NEW w \in Worker,
         Resume(w) \/ Close(w) \/ LoadExecutes(w) \/ LoadFails(w) \/ Recovered(w)
  PROVE  Undeciding(w)
<1> DEFINE m == mem[w]
<1>1. m \in Memory /\ Undecided(m, m) /\ row \in Table
  BY MemoryUndecided DEF TypeOK
<1>2. CASE Resume(w)
  <2> DEFINE n == [m EXCEPT !.paused = FALSE]
  <2>1. Undecided(m, n)
    <3> HIDE DEF m
    <3> QED BY <1>1 DEF Undecided, Memory
  <2>2. Becomes(w, Pump(n))
    BY <1>2 DEF Resume
  <2> HIDE DEF n
  <2> QED BY <2>1, <2>2, PumpUndecided DEF Undeciding
<1>3. CASE Close(w)
  <2> DEFINE waiting == m.queue \cup { j \in m.starting : m.ent[j].state = "queued" }
             ent == [j \in Job |-> IF j \in m.active
                                   THEN [m.ent[j] EXCEPT !.cancelRequested = TRUE]
                                   ELSE m.ent[j]]
             shut == [m EXCEPT !.closed = TRUE, !.paused = TRUE, !.timer = FALSE,
                               !.ent = ent]
             settled == Settle(Pull(shut, waiting), waiting, "cancelled")
             told == IF waiting = {} THEN settled ELSE CheckIdle(settled)
             n == [told EXCEPT !.close = Awaited(told)]
  <2>1. Becomes(w, n)
    BY <1>3 DEF Close
  <2> HIDE DEF m
  <2>2. waiting \in SUBSET Job
    BY <1>1 DEF Memory
  <2>3. ent \in [Job -> Entry]
    <3>1. \A j \in Job : m.ent[j] \in Entry
      BY <1>1 DEF Memory
    <3> QED BY <3>1 DEF Entry
  <2>4. Undecided(m, shut)
    <3> HIDE DEF ent
    <3> QED BY <1>1, <2>3 DEF Undecided, Memory
  <2> HIDE DEF shut, waiting
  <2>5. Undecided(m, settled)
    BY <2>2, <2>4, PullUndecided, SettleUndecided DEF Terminal
  <2> HIDE DEF settled
  <2>6. n \in Memory /\ Agree(settled, n)
    BY <2>5, CloseAgrees DEF Undecided
  <2> HIDE DEF n
  <2>7. Undecided(m, n)
    BY <2>5, <2>6 DEF Undecided, Agree
  <2> QED BY <2>1, <2>7 DEF Undeciding, m
<1>4. CASE LoadExecutes(w)
  <2>1. PICK S \in LoadBatches(row, w) :
          Becomes(w, [m EXCEPT !.loading = "answered", !.loaded = ClaimsOf(S)])
    BY <1>4 DEF LoadExecutes
  <2> DEFINE c == ClaimsOf(S)
             n == [m EXCEPT !.loading = "answered", !.loaded = c]
  <2>2. Becomes(w, n)
    BY <2>1
  <2>3. c \in Claims
    <3>1. S \in SUBSET Job
      BY DEF LoadBatches, Loadable, Outstanding
    <3> QED BY <1>1, <3>1, ClaimsOfType
  <2> HIDE DEF m, c
  <2>4. Undecided(m, n)
    BY <1>1, <2>3 DEF Undecided, Memory
  <2> HIDE DEF n
  <2> QED BY <2>2, <2>4 DEF Undeciding, m
<1>5. CASE LoadFails(w)
  <2> DEFINE n == [m EXCEPT !.loading = "no"]
  <2>1. Becomes(w, n)
    BY <1>5 DEF LoadFails
  <2> HIDE DEF m
  <2>2. Undecided(m, n)
    BY <1>1 DEF Undecided, Memory
  <2> HIDE DEF n
  <2> QED BY <2>1, <2>2 DEF Undeciding, m
<1>6. CASE Recovered(w)
  <2> DEFINE n == [m EXCEPT !.loading = "no", !.loaded = NoClaims]
             got == m.loaded
  <2>1. PICK age \in AgeOrders(NewClaims(n, got)) :
          Becomes(w, ScheduleHeartbeat(RestoreAll(n, got, age)))
    BY <1>6 DEF Recovered
  <2> HIDE DEF m
  <2>2. Undecided(m, n) /\ got \in Claims
    BY <1>1, EmptyTypes DEF Undecided, Memory
  <2> HIDE DEF n, got
  <2>3. age \subseteq NewClaims(n, got) \X NewClaims(n, got)
    BY DEF AgeOrders
  <2>4. Undecided(m, ScheduleHeartbeat(RestoreAll(n, got, age)))
    BY <2>2, <2>3, RestoreUndecided, CheckUndecided
  <2> QED BY <2>1, <2>4 DEF Undeciding, m
<1> QED BY <1>2, <1>3, <1>4, <1>5, <1>6

LEMMA ReturnUndecided ==
  ASSUME TypeOK, NEW w \in Worker, NEW j \in Job, HandlerReturns(w, j)
  PROVE  Undeciding(w)
<1> DEFINE m == Released(mem[w], j)
<1>1. mem[w] \in Memory
  BY DEF TypeOK
<1>2. Undecided(mem[w], m)
  <2>1. m.deciding = mem[w].deciding /\ m.up = mem[w].up
    BY <1>1 DEF Released, Memory
  <2> QED BY <1>1, <2>1, ReleasedType DEF Undecided
<1>3. PICK state \in Terminal : Becomes(w, Pump(Settle(m, {j}, state)))
  <2>1. Becomes(w, Pump(Settle(m, {j}, IF LeaseLost(m.ent[j]) THEN "failed"
                             ELSE IF m.ent[j].cancelRequested THEN "cancelled"
                             ELSE "complete")))
    BY DEF HandlerReturns
  <2> HIDE DEF m
  <2> QED BY <2>1 DEF Terminal
<1> HIDE DEF m
<1> QED BY <1>2, <1>3, SettleUndecided, PumpUndecided DEF Undeciding

LEMMA PumpLeaves ==
  ASSUME NEW n \in Memory, NEW j \in Job, j \notin n.active, j \notin Eligible(n)
  PROVE  j \notin Pump(n).active
<1> DEFINE T == Taken(n, ByPriority(n))
<1>1. T \in SUBSET Job /\ j \notin T
  BY DEF Taken, Eligible, Memory
<1>2. Pump(n) = CheckIdle(ScheduleHeartbeat(Start(n, T)))
  BY DEF Pump
<1> HIDE DEF T
<1>3. Start(n, T) \in Memory /\ j \notin Start(n, T).active
  BY <1>1, StartType, StartFields DEF AgreeAround
<1> QED BY <1>2, <1>3, ScheduleHeartbeatType, ScheduleHeartbeatAgrees, CheckIdleAgrees
        DEF Agree

(* A handler that throws adds its own job to those being decided about.    *)
LEMMA ThrowDecides ==
  ASSUME TypeOK, NEW w \in Worker, NEW j \in Job, HandlerThrows(w, j)
  PROVE  /\ mem'[w].deciding \in {mem[w].deciding, mem[w].deciding \cup {j}}
         /\ mem'[w].up
<1> DEFINE m == Released(mem[w], j)
           asked == [m EXCEPT !.deciding = @ \cup {j}]
<1>1. mem[w] \in Memory /\ mem \in [Worker -> Memory] /\ mem[w].up
  BY DEF TypeOK, HandlerThrows
<1>2. Undecided(mem[w], m)
  <2>1. m.deciding = mem[w].deciding /\ m.up = mem[w].up
    BY <1>1 DEF Released, Memory
  <2> QED BY <1>1, <2>1, ReleasedType DEF Undecided
<1>3. \/ \E state \in Terminal : Becomes(w, Pump(Settle(m, {j}, state)))
      \/ Becomes(w, asked)
  <2>1. Becomes(w, CASE LeaseLost(m.ent[j]) -> Pump(Settle(m, {j}, "failed"))
                   [] ~LeaseLost(m.ent[j]) /\ m.ent[j].cancelRequested ->
                        Pump(Settle(m, {j}, "cancelled"))
                   [] OTHER -> IF m.closed THEN Pump(Settle(m, {j}, "failed"))
                               ELSE asked)
    BY DEF HandlerThrows
  <2> HIDE DEF m, asked
  <2> QED BY <2>1 DEF Terminal
<1>4. asked.deciding = m.deciding \cup {j} /\ asked.up = m.up
  <2> HIDE DEF m
  <2> QED BY <1>2 DEF Undecided, Memory
<1> HIDE DEF m, asked
<1>5. \A n : Becomes(w, n) => mem'[w] = n
  BY <1>1 DEF Becomes
<1>6. \A state \in Terminal : Undecided(mem[w], Pump(Settle(m, {j}, state)))
  BY <1>2, SettleUndecided, PumpUndecided
<1> QED BY <1>1, <1>2, <1>3, <1>4, <1>5, <1>6 DEF Undecided

(* The policy's answer takes its job off them, and does not start it: a    *)
(* job that is to be tried again waits first.                              *)
LEMMA AnswerDecides ==
  ASSUME TypeOK, AllTidy, NEW w \in Worker, NEW j \in Job, PolicyAnswers(w, j)
  PROVE  /\ mem'[w].deciding = mem[w].deciding \ {j}
         /\ j \notin mem'[w].active
         /\ mem'[w].up
<1> DEFINE m == mem[w]
           decided == [m EXCEPT !.deciding = @ \ {j}]
           e == [decided.ent[j] EXCEPT !.state = "queued", !.backoff = TRUE, !.waiting = TRUE]
           f == [decided EXCEPT !.ent = [decided.ent EXCEPT ![j] = e]]
           p == Push(f, j)
           S == {j}
           again == Persist(p, S, "save")
<1>1. m \in Memory /\ mem \in [Worker -> Memory] /\ j \in m.deciding /\ m.up
  BY DEF TypeOK, PolicyAnswers
<1>2. j \notin m.queue /\ j \notin m.active
  BY <1>1 DEF AllTidy, Tidy, Sound
<1>3. /\ decided \in Memory /\ decided.deciding = m.deciding \ {j}
      /\ decided.up = m.up /\ decided.queue = m.queue /\ decided.active = m.active /\ decided.ent = m.ent
  <2> HIDE DEF m
  <2> QED BY <1>1 DEF Memory
<1>4. e \in Entry /\ e.waiting
  <2> HIDE DEF decided
  <2>1. decided.ent[j] \in Entry
    BY <1>3 DEF Memory
  <2> QED BY <2>1 DEF Entry
<1>5. \/ \E state \in Terminal : Becomes(w, Pump(Settle(decided, {j}, state)))
      \/ Becomes(w, Pump(again))
  <2>1. \/ Becomes(w, Pump(Settle(decided, {j}, "cancelled")))
        \/ Becomes(w, Pump(Requeue(decided, j)))
        \/ Becomes(w, Pump(Settle(decided, {j}, "failed")))
    BY DEF PolicyAnswers
  <2>2. Requeue(decided, j) = again
    <3> HIDE DEF decided
    <3>1. f = [decided EXCEPT !.ent[j].state = "queued", !.ent[j].backoff = TRUE,
                              !.ent[j].waiting = TRUE]
      BY <1>3 DEF Memory
    <3> HIDE DEF f
    <3> QED BY <3>1 DEF Requeue
  <2> HIDE DEF decided, again
  <2> QED BY <2>1, <2>2 DEF Terminal
<1> HIDE DEF m, decided, e
<1>6. /\ f \in Memory /\ f.deciding = decided.deciding /\ f.up = decided.up
      /\ f.active = decided.active
      /\ f.ent[j] = e
  <2>1. f \in Memory
    BY <1>3, <1>4, EntryField
  <2> QED BY <1>3, <1>4, <2>1 DEF Memory
<1> HIDE DEF f
<1>7. /\ p \in Memory /\ p.deciding = decided.deciding /\ p.up = decided.up
      /\ p.active = decided.active
      /\ p.ent[j] = e
  BY <1>6, PushType, PushFields DEF AgreeAround
<1> HIDE DEF p
<1>8. /\ again \in Memory /\ again.deciding = decided.deciding /\ again.up = decided.up
      /\ again.active = decided.active /\ again.ent[j] = e
  <2>1. S \in SUBSET Job /\ "save" \in {"create", "save", "remove"}
    OBVIOUS
  <2> HIDE DEF S
  <2>2. again \in Memory /\ Persisted(p, again, S, "save")
    BY <1>7, <2>1, PersistType, PersistFields
  <2> HIDE DEF again
  <2> QED BY <1>7, <2>2 DEF Persisted, AgreeAround
<1> HIDE DEF again
<1>9. j \notin Eligible(again)
  BY <1>4, <1>8 DEF Eligible
<1>10. Undecided(decided, Pump(again)) /\ j \notin Pump(again).active
  <2>1. again.deciding = decided.deciding /\ again.up = decided.up /\ j \notin again.active
    BY <1>2, <1>3, <1>8
  <2>2. Undecided(again, Pump(again)) /\ j \notin Pump(again).active
    <3>1. Undecided(again, again)
      BY <1>8 DEF Undecided
    <3> QED BY <1>8, <1>9, <2>1, <3>1, PumpUndecided, PumpLeaves
  <2> QED BY <2>1, <2>2 DEF Undecided
<1>11. ASSUME NEW state \in Terminal
       PROVE  /\ Undecided(decided, Pump(Settle(decided, {j}, state)))
              /\ j \notin Pump(Settle(decided, {j}, state)).active
  <2> DEFINE n == Settle(decided, S, state)
  <2>1. n \in Memory /\ SettlesTo(decided, n, S, state)
    BY <1>3, SettleType, SettleFields
  <2> HIDE DEF n
  <2>2. /\ n.queue = decided.queue /\ n.active = decided.active
        /\ n.deciding = decided.deciding /\ n.up = decided.up
    BY <2>1 DEF SettlesTo, AgreeAround
  <2>3. j \notin Eligible(n)
    BY <1>2, <1>3, <2>2 DEF Eligible
  <2> QED BY <1>2, <1>3, <2>1, <2>2, <2>3, PumpUndecided, PumpLeaves DEF Undecided, n
<1>12. \A n : Becomes(w, n) => mem'[w] = n
  BY <1>1 DEF Becomes
<1> QED BY <1>1, <1>3, <1>5, <1>10, <1>11, <1>12 DEF Undecided, m

-----------------------------------------------------------------------------
(* Attended, one step at a time.                                           *)

(* What a step of a live process's queue owes to Attended.                 *)
Heeds(d, m, n) ==
  \A k \in Job :
    /\ k \in n.deciding => k \in m.deciding \/ d.stage[k] = "threw"
    /\ k \in m.deciding => k \notin n.active
    /\ ~(k \in n.active /\ k \in n.deciding)
    /\ m.ent[k].cancelRequested => n.ent[k].cancelRequested

LEMMA AttendAttends ==
  ASSUME NEW c \in Duty, NEW d \in Duty, NEW m \in Memory, NEW n \in Memory,
         AttendedTo(c, m), d.stage = c.stage, d.reason = c.reason, Heeds(c, m, n)
  PROVE  AttendedTo(Attend(d, n), n)
<1> DEFINE a == Attend(d, n)
<1> SUFFICES ASSUME NEW j \in Job
             PROVE  /\ a.stage[j] \in Handling <=> j \in n.active
                    /\ a.stage[j] \in Deciding <=> j \in n.deciding
                    /\ a.reason[j] # "none" => j \in n.active
                    /\ a.reason[j] = "cancel" => n.ent[j].cancelRequested
                    /\ (j \in n.active /\ LeaseLost(n.ent[j]) /\ ~n.ent[j].cancelRequested)
                         => a.reason[j] = "lost"
  BY DEF AttendedTo
<1>1. /\ c.stage[j] \in Stage /\ c.reason[j] \in {"none", "cancel", "lost"}
      /\ m.ent[j].cancelRequested \in BOOLEAN /\ n.ent[j].cancelRequested \in BOOLEAN
  BY DEF Duty, Memory, Entry
<1>2. /\ c.stage[j] \in Handling <=> j \in m.active
      /\ c.stage[j] \in Deciding <=> j \in m.deciding
      /\ c.reason[j] # "none" => j \in m.active
      /\ c.reason[j] = "cancel" => m.ent[j].cancelRequested
  BY DEF AttendedTo
<1>3. /\ j \in n.deciding => j \in m.deciding \/ c.stage[j] = "threw"
      /\ j \in m.deciding => j \notin n.active
      /\ ~(j \in n.active /\ j \in n.deciding)
      /\ m.ent[j].cancelRequested => n.ent[j].cancelRequested
  BY DEF Heeds
<1>4. /\ a.stage[j] =
           (CASE j \in n.active /\ c.stage[j] \in {"idle", "reopened"} -> Begins(n.ent[j])
              [] j \in n.active /\ c.stage[j] \notin {"idle", "reopened"} -> c.stage[j]
              [] j \in n.deciding -> IF c.stage[j] = "threw" THEN "asked" ELSE c.stage[j]
              [] OTHER -> "idle")
      /\ a.reason[j] =
           (CASE j \notin n.active -> "none"
              [] j \in n.active /\ c.reason[j] # "none" -> c.reason[j]
              [] OTHER -> IF LeaseLost(n.ent[j]) THEN "lost"
                          ELSE IF n.ent[j].cancelRequested THEN "cancel" ELSE "none")
  BY AttendFields
<1> HIDE DEF a
<1>5. CASE j \in n.active
  <2>1. j \notin n.deciding /\ j \notin m.deciding
    BY <1>3, <1>5
  <2>2. c.stage[j] \in Handling \cup {"idle"}
    BY <1>1, <1>2, <2>1 DEF Stage, Handling, Deciding
  <2>3. a.stage[j] \in Handling
    <3>1. CASE c.stage[j] = "idle"
      <4>1. a.stage[j] = Begins(n.ent[j])
        BY <1>4, <1>5, <2>1, <3>1
      <4> QED BY <4>1 DEF Begins, Handling
    <3>2. CASE c.stage[j] \in Handling
      <4>1. c.stage[j] \notin {"idle", "reopened"}
        BY <3>2 DEF Handling
      <4>2. a.stage[j] = c.stage[j]
        BY <1>4, <1>5, <2>1, <4>1
      <4> QED BY <3>2, <4>2
    <3> QED BY <2>2, <3>1, <3>2
  <2>4. a.stage[j] \notin Deciding
    BY <2>3 DEF Handling, Deciding
  <2>5. CASE c.reason[j] = "none"
    <3>1. a.reason[j] = IF LeaseLost(n.ent[j]) THEN "lost"
                        ELSE IF n.ent[j].cancelRequested THEN "cancel" ELSE "none"
      BY <1>4, <1>5, <2>5
    <3>2. CASE LeaseLost(n.ent[j])
      BY <1>5, <2>1, <2>3, <2>4, <3>1, <3>2
    <3>3. CASE ~LeaseLost(n.ent[j])
      BY <1>5, <2>1, <2>3, <2>4, <3>1, <3>3
    <3> QED BY <3>2, <3>3
  <2>6. CASE c.reason[j] # "none"
    BY <1>1, <1>2, <1>3, <1>4, <1>5, <2>1, <2>3, <2>4, <2>6
  <2> QED BY <2>5, <2>6
<1>6. CASE j \notin n.active /\ j \in n.deciding
  <2>1. a.stage[j] = IF c.stage[j] = "threw" THEN "asked" ELSE c.stage[j]
    BY <1>4, <1>6
  <2>2. a.stage[j] \in Deciding
    BY <1>2, <1>3, <1>6, <2>1 DEF Deciding
  <2>3. a.stage[j] \notin Handling
    BY <2>2 DEF Handling, Deciding
  <2>4. a.reason[j] = "none"
    BY <1>4, <1>6
  <2> QED BY <1>6, <2>2, <2>3, <2>4
<1>7. CASE j \notin n.active /\ j \notin n.deciding
  <2>1. a.stage[j] = "idle" /\ a.reason[j] = "none"
    BY <1>4, <1>7
  <2> QED BY <1>7, <2>1 DEF Handling, Deciding
<1> QED BY <1>5, <1>6, <1>7

(* The premises of every step.                                             *)
Going ==
  /\ TypeOK /\ TypeOK' /\ AllTidy /\ AllTidy' /\ AllKept
  /\ AuditTypeOK /\ Attended

LEMMA CarriesAttends ==
  ASSUME Going, NEW w \in Worker, NEW n, Becomes(w, n), mem[w].up, n.up,
         NEW d \in Duty, d.stage = duty[w].stage, d.reason = duty[w].reason,
         Carries(w, d),
         \A k \in Job : /\ k \in n.deciding => k \in mem[w].deciding \/ duty[w].stage[k] = "threw"
                        /\ k \in mem[w].deciding => k \notin n.active
  PROVE  Attended'
<1>1. /\ mem \in [Worker -> Memory] /\ mem' \in [Worker -> Memory]
      /\ duty \in [Worker -> Duty]
  BY DEF Going, TypeOK, AuditTypeOK
<1>2. mem'[w] = n /\ \A v \in Worker \ {w} : mem'[v] = mem[v]
  BY <1>1 DEF Becomes
<1>3. duty'[w] = Attend(d, n) /\ \A v \in Worker \ {w} : duty'[v] = duty[v]
  BY <1>1, <1>2 DEF Carries
<1>4. Kept(mem[w], n) /\ Tidy(n)
  BY <1>2 DEF Going, AllKept, AllTidy
<1>5. Heeds(duty[w], mem[w], n)
  BY <1>4 DEF Heeds, Kept, Tidy, Sound
<1>6. AttendedTo(duty[w], mem[w])
  BY DEF Going, Attended
<1>7. AttendedTo(duty'[w], mem'[w])
  BY <1>1, <1>2, <1>3, <1>5, <1>6, AttendAttends
<1>8. \A v \in Worker \ {w} : AttendedTo(duty'[v], mem'[v])
  BY <1>2, <1>3 DEF Going, Attended
<1> QED BY <1>7, <1>8 DEF Attended

(* A step of the queue that decides nothing.                               *)
LEMMA UndecidingAttends ==
  ASSUME Going, NEW w \in Worker, Undeciding(w), mem[w].up,
         NEW d \in Duty, d.stage = duty[w].stage, d.reason = duty[w].reason,
         Carries(w, d)
  PROVE  Attended'
<1>1. PICK n : Becomes(w, n) /\ Undecided(mem[w], n)
  BY DEF Undeciding
<1>2. mem'[w] = n
  BY <1>1 DEF Becomes, Going, TypeOK
<1>3. Tidy(n)
  BY <1>2 DEF Going, AllTidy
<1>4. /\ n.up
      /\ \A k \in Job : /\ k \in n.deciding => k \in mem[w].deciding
                        /\ k \in mem[w].deciding => k \notin n.active
  BY <1>1, <1>3 DEF Undecided, Tidy, Sound
<1> QED BY <1>1, <1>2, <1>4, CarriesAttends

(* A step above the queue that goes on with a run or a decision.           *)
LEMMA MovesAttends ==
  ASSUME Going, NEW w \in Worker, NEW d \in Duty, Moves(w, d),
         d.reason = duty[w].reason,
         \A k \in Job : d.stage[k] # duty[w].stage[k] =>
           \/ d.stage[k] \in Handling /\ duty[w].stage[k] \in Handling
           \/ d.stage[k] \in Deciding /\ duty[w].stage[k] \in Deciding
  PROVE  Attended'
<1>1. mem' = mem /\ duty \in [Worker -> Duty]
  BY DEF Moves, Going, AuditTypeOK
<1>2. duty'[w] = d /\ \A v \in Worker \ {w} : duty'[v] = duty[v]
  BY <1>1 DEF Moves
<1>3. AttendedTo(duty[w], mem[w])
  BY DEF Going, Attended
<1>4. AttendedTo(d, mem[w])
  BY <1>3 DEF AttendedTo, Handling, Deciding
<1> QED BY <1>1, <1>2, <1>4 DEF Going, Attended

(* The runs and the decisions of a process are where they were, but for    *)
(* what Attend makes of a step of its queue that decides nothing.          *)
Elsewhere(w) ==
  \E d \in Duty :
    /\ d.stage = duty[w].stage /\ d.reason = duty[w].reason
    /\ Moves(w, d) \/ (Carries(w, d) /\ Undeciding(w) /\ mem[w].up)

LEMMA ElsewhereAttends ==
  ASSUME Going, NEW w \in Worker, Elsewhere(w)
  PROVE  Attended'
BY MovesAttends, UndecidingAttends DEF Elsewhere

LEMMA ScheduledElsewhere ==
  ASSUME Going, NEW w \in Worker, NEW j \in Job,
         \/ SubmitInserts(w, j) \/ SubmitEnqueues(w, j) \/ SubmitStored(w, j)
         \/ SubmitRefused(w, j)
         \/ CancelWaiting(w, j) \/ CancelStarted(w, j) \/ CancelWrites(w, j)
         \/ AdoptionResets(w, j)
  PROVE  Elsewhere(w)
<1>1. duty[w] \in Duty /\ TypeOK
  BY DEF Going, AuditTypeOK
<1>2. /\ \A s \in Submitting :
           LET d == [duty[w] EXCEPT !.submit[j] = s]
           IN d \in Duty /\ d.stage = duty[w].stage /\ d.reason = duty[w].reason
      /\ \A S \in SUBSET Job :
           LET d == [duty[w] EXCEPT !.closing = S]
               e == [duty[w] EXCEPT !.resets = S]
           IN /\ d \in Duty /\ d.stage = duty[w].stage /\ d.reason = duty[w].reason
              /\ e \in Duty /\ e.stage = duty[w].stage /\ e.reason = duty[w].reason
  BY <1>1 DEF Duty
<1>3. /\ {"no", "inserted", "storing", "refusing"} \subseteq Submitting
      /\ duty[w].closing \cup {j} \in SUBSET Job /\ duty[w].closing \ {j} \in SUBSET Job
      /\ duty[w].resets \ {j} \in SUBSET Job
  BY <1>1 DEF Submitting, Duty
<1>4. \A d \in Duty : (Moves(w, d) /\ d.stage = duty[w].stage /\ d.reason = duty[w].reason)
                        => Elsewhere(w)
  BY DEF Elsewhere
<1>5. \A d \in Duty :
        (/\ Undeciding(w) /\ mem[w].up
         /\ d.stage = duty[w].stage /\ d.reason = duty[w].reason /\ Carries(w, d))
          => Elsewhere(w)
  BY DEF Elsewhere
<1>6. CASE SubmitInserts(w, j)
  <2>1. Moves(w, [duty[w] EXCEPT !.submit[j] = "inserted"])
    BY <1>6 DEF SubmitInserts, Does
  <2> QED BY <1>2, <1>3, <1>4, <2>1
<1>7. CASE SubmitRefused(w, j)
  <2>1. Moves(w, [duty[w] EXCEPT !.submit[j] = "no"])
    BY <1>7 DEF SubmitRefused, Does
  <2> QED BY <1>2, <1>3, <1>4, <2>1
<1>8. CASE CancelWrites(w, j)
  <2>1. Moves(w, [duty[w] EXCEPT !.closing = duty[w].closing \ {j}])
    BY <1>8 DEF CancelWrites, Does
  <2> QED BY <1>2, <1>3, <1>4, <2>1
<1>9. CASE AdoptionResets(w, j)
  <2>1. Moves(w, [duty[w] EXCEPT !.resets = duty[w].resets \ {j}])
    BY <1>9 DEF AdoptionResets
  <2> QED BY <1>2, <1>3, <1>4, <2>1
<1>10. CASE SubmitEnqueues(w, j)
  <2>1. /\ Carries(w, [duty[w] EXCEPT !.submit[j] = "storing"])
        /\ Undeciding(w) /\ mem[w].up
    BY <1>1, <1>10, ClientUndecided DEF SubmitEnqueues, Follows, Enqueue
  <2> QED BY <1>2, <1>3, <1>5, <2>1
<1>11. CASE SubmitStored(w, j)
  <2>1. PICK s \in {"no", "refusing"} : Carries(w, [duty[w] EXCEPT !.submit[j] = s])
    BY <1>11 DEF SubmitStored, Follows
  <2>2. Undeciding(w) /\ mem[w].up
    BY <1>1, <1>11, ChainUndecided DEF SubmitStored, CreateSettles
  <2> QED BY <1>2, <1>3, <1>5, <2>1, <2>2
<1>12. CASE CancelWaiting(w, j)
  <2>1. /\ Carries(w, [duty[w] EXCEPT !.closing = duty[w].closing \cup {j}])
        /\ Undeciding(w) /\ mem[w].up
    BY <1>1, <1>12, ClientUndecided DEF CancelWaiting, Follows, CancelQueued
  <2> QED BY <1>2, <1>3, <1>5, <2>1
<1>13. CASE CancelStarted(w, j)
  <2>1. Carries(w, duty[w]) /\ Undeciding(w) /\ mem[w].up
    BY <1>1, <1>13, ClientUndecided DEF CancelStarted, CancelRunning
  <2> QED BY <1>1, <1>5, <2>1
<1> QED BY <1>6, <1>7, <1>8, <1>9, <1>10, <1>11, <1>12, <1>13

LEMMA RunAttends ==
  ASSUME Going, NEW w \in Worker, NEW j \in Job, RunSteps(w, j)
  PROVE  Attended'
<1>1. duty[w] \in Duty /\ TypeOK /\ AllTidy
  BY DEF Going, AuditTypeOK
<1>2. \A stage \in Stage :
        LET d == AtStage(w, j, stage)
        IN /\ d \in Duty /\ d.reason = duty[w].reason
           /\ d.stage[j] = stage /\ \A k \in Job \ {j} : d.stage[k] = duty[w].stage[k]
  BY <1>1 DEF AtStage, Duty
<1>3. Handling \subseteq Stage /\ Deciding \subseteq Stage
  BY DEF Handling, Deciding, Stage
<1>4. ASSUME NEW stage \in Stage, Moves(w, AtStage(w, j, stage)),
             \/ stage \in Handling /\ duty[w].stage[j] \in Handling
             \/ stage \in Deciding /\ duty[w].stage[j] \in Deciding
      PROVE  Attended'
  <2> DEFINE d == AtStage(w, j, stage)
  <2>1. /\ d \in Duty /\ d.reason = duty[w].reason
        /\ d.stage[j] = stage /\ \A k \in Job \ {j} : d.stage[k] = duty[w].stage[k]
    BY <1>2
  <2>2. Moves(w, d)
    BY <1>4
  <2> HIDE DEF d
  <2>3. \A k \in Job : d.stage[k] # duty[w].stage[k] =>
           \/ d.stage[k] \in Handling /\ duty[w].stage[k] \in Handling
           \/ d.stage[k] \in Deciding /\ duty[w].stage[k] \in Deciding
    BY <1>4, <2>1
  <2> QED BY <2>1, <2>2, <2>3, MovesAttends
<1>5. \A d : Moves(w, d) /\ d = Catch(w, j) =>
        \E stage \in {"threw", "failing"} : Moves(w, AtStage(w, j, stage))
  BY DEF Catch
<1>6. CASE \/ RunStarts(w, j) \/ RunStops(w, j) \/ RunFails(w, j) \/ RunGraded(w, j)
           \/ RunEnds(w, j)
  <2>1. duty[w].stage[j] \in Handling
    BY <1>6 DEF RunStarts, RunStops, RunFails, RunGraded, RunEnds, Handling
  <2>2. \E stage \in Handling : Moves(w, AtStage(w, j, stage))
    BY <1>5, <1>6 DEF RunStarts, RunStops, RunFails, RunGraded, RunEnds, Does, Handling
  <2> QED BY <1>3, <1>4, <2>1, <2>2
<1>7. CASE DecideRetry(w, j) \/ RetryReopens(w, j)
  <2>1. duty[w].stage[j] \in Deciding
    BY <1>7 DEF DecideRetry, RetryReopens, Deciding
  <2>2. \E stage \in Deciding : Moves(w, AtStage(w, j, stage))
    BY <1>7 DEF DecideRetry, RetryReopens, Does, Deciding
  <2> QED BY <1>3, <1>4, <2>1, <2>2
<1>8. CASE RunReturned(w, j)
  <2>1. Carries(w, duty[w]) /\ Undeciding(w) /\ mem[w].up
    BY <1>1, <1>8, ReturnUndecided DEF RunReturned, Follows, HandlerReturns
  <2> QED BY <1>1, <2>1, UndecidingAttends
<1>9. ASSUME HandlerThrows(w, j) \/ PolicyAnswers(w, j), Carries(w, duty[w]), mem'[w].up,
             \A k \in Job :
               /\ k \in mem'[w].deciding => k \in mem[w].deciding \/ duty[w].stage[k] = "threw"
               /\ k \in mem[w].deciding => k \notin mem'[w].active
      PROVE  Attended'
  <2>1. PICK n : Becomes(w, n)
    BY <1>9 DEF HandlerThrows, PolicyAnswers
  <2>2. mem'[w] = n /\ mem[w].up
    BY <1>1, <1>9, <2>1 DEF Becomes, TypeOK, HandlerThrows, PolicyAnswers
  <2> QED BY <1>1, <1>9, <2>1, <2>2, CarriesAttends
<1>10. CASE RunThrew(w, j)
  <2>1. HandlerThrows(w, j) /\ Carries(w, duty[w]) /\ duty[w].stage[j] = "threw"
    BY <1>10 DEF RunThrew, Follows
  <2>2. mem'[w].deciding \in {mem[w].deciding, mem[w].deciding \cup {j}} /\ mem'[w].up
    BY <1>1, <2>1, ThrowDecides
  <2>3. \A k \in Job : ~(k \in mem'[w].active /\ k \in mem'[w].deciding)
    BY DEF Going, AllTidy, Tidy, Sound
  <2> QED BY <1>9, <2>1, <2>2, <2>3
<1>11. CASE RetryDecided(w, j)
  <2>1. PolicyAnswers(w, j) /\ Carries(w, duty[w])
    BY <1>11 DEF RetryDecided, Follows
  <2>2. /\ mem'[w].deciding = mem[w].deciding \ {j}
        /\ j \notin mem'[w].active
        /\ mem'[w].up
    BY <1>1, <2>1, AnswerDecides
  <2>3. \A k \in Job : ~(k \in mem'[w].active /\ k \in mem'[w].deciding)
    BY DEF Going, AllTidy, Tidy, Sound
  <2> QED BY <1>9, <2>1, <2>2, <2>3
<1> QED BY <1>6, <1>7, <1>8, <1>10, <1>11 DEF RunSteps

LEMMA IdleDuties ==
  ASSUME NEW d \in {NoDuty, JustBooted}, NEW j \in Job
  PROVE  d.stage[j] = "idle" /\ d.reason[j] = "none"
<1>1. NoDuty.stage[j] = "idle" /\ NoDuty.reason[j] = "none"
  BY DEF NoDuty
<1>2. JustBooted.stage = NoDuty.stage /\ JustBooted.reason = NoDuty.reason
  BY EmptyDuties DEF JustBooted, Duty
<1> QED BY <1>1, <1>2

LEMMA EmptyAttends ==
  ASSUME NEW d \in {NoDuty, JustBooted}, NEW m \in Memory,
         m.active = {}, m.deciding = {}
  PROVE  AttendedTo(d, m)
<1>1. \A j \in Job : d.stage[j] = "idle" /\ d.reason[j] = "none"
  BY IdleDuties
<1> QED BY <1>1 DEF AttendedTo, Handling, Deciding

LEMMA ProcessAttends ==
  ASSUME Going, NEW w \in Worker, Boots(w) \/ Crashes(w)
  PROVE  Attended'
<1>1. /\ mem \in [Worker -> Memory] /\ mem' \in [Worker -> Memory]
      /\ duty \in [Worker -> Duty]
  BY DEF Going, TypeOK, AuditTypeOK
<1>2. /\ mem'[w].active = {} /\ mem'[w].deciding = {}
      /\ \A v \in Worker \ {w} : mem'[v] = mem[v]
  <2>1. Fresh.active = {} /\ Fresh.deciding = {}
    BY DEF Fresh
  <2>2. Down.active = {} /\ Down.deciding = {}
    BY <2>1, EmptyTypes DEF Down, Memory
  <2>3. LET n == [Fresh EXCEPT !.paused = TRUE,
                              !.loading = IF Mode = "memory" THEN "no" ELSE "asked"]
        IN n.active = {} /\ n.deciding = {}
    BY <2>1, EmptyTypes DEF Memory
  <2> QED BY <1>1, <2>2, <2>3 DEF Boots, Crashes, Boot, Crash, Becomes
<1>3. duty'[w] \in {NoDuty, JustBooted} /\ \A v \in Worker \ {w} : duty'[v] = duty[v]
  BY <1>1 DEF Boots, Crashes
<1>4. AttendedTo(duty'[w], mem'[w])
  BY <1>1, <1>2, <1>3, EmptyAttends
<1> QED BY <1>2, <1>3, <1>4 DEF Going, Attended

LEMMA WorkerMovesElsewhere ==
  ASSUME Going, NEW w \in Worker,
         \/ CutoffRead(w) \/ RecoverReopens(w)
         \/ SweepAsks(w) \/ SweepReads(w) \/ SweepWrites(w) \/ SweepFails(w)
  PROVE  Elsewhere(w)
<1>1. duty[w] \in Duty /\ duty \in [Worker -> Duty]
  BY DEF Going, AuditTypeOK
<1>2. AuditTypeOK'
  BY RecoverTypes, SweepTypes DEF Going
<1>3. \E d : /\ Moves(w, d)
             /\ d.stage = duty[w].stage /\ d.reason = duty[w].reason
  <2>1. CASE CutoffRead(w)
    <3> DEFINE d == [duty[w] EXCEPT !.known = TRUE,
                       !.cutoff = { j \in Job : audit[j].status # "none" }]
    <3>1. d.stage = duty[w].stage /\ d.reason = duty[w].reason
      BY <1>1 DEF Duty
    <3> QED BY <2>1, <3>1 DEF CutoffRead, Does
  <2>2. CASE RecoverReopens(w)
    <3> DEFINE d == [duty[w] EXCEPT !.reopen = {}]
               e == [d EXCEPT !.sweep = "skipped"]
    <3>1. /\ d.stage = duty[w].stage /\ d.reason = duty[w].reason
          /\ e.stage = duty[w].stage /\ e.reason = duty[w].reason
      BY <1>1 DEF Duty
    <3>2. Moves(w, d) \/ Moves(w, e)
      BY <2>2 DEF RecoverReopens
    <3> QED BY <3>1, <3>2
  <2>3. CASE SweepAsks(w)
    <3> DEFINE d == [duty[w] EXCEPT !.sweep = "reading", !.live = @ \cup Outstanding(row)]
    <3>1. d.stage = duty[w].stage /\ d.reason = duty[w].reason
      BY <1>1 DEF Duty
    <3> QED BY <2>3, <3>1 DEF SweepAsks
  <2>4. CASE SweepReads(w)
    <3> DEFINE d == [duty[w] EXCEPT !.sweep = IF Orphans(w) = {} THEN "done" ELSE "writing",
                       !.orphans = Orphans(w), !.live = {}]
    <3>1. d.stage = duty[w].stage /\ d.reason = duty[w].reason
      BY <1>1 DEF Duty
    <3> QED BY <2>4, <3>1 DEF SweepReads, Does
  <2>5. CASE SweepWrites(w)
    <3> DEFINE d == [duty[w] EXCEPT !.sweep = "done", !.orphans = {}]
               e == [d EXCEPT !.sweep = "skipped"]
    <3>1. /\ d.stage = duty[w].stage /\ d.reason = duty[w].reason
          /\ e.stage = duty[w].stage /\ e.reason = duty[w].reason
      BY <1>1 DEF Duty
    <3>2. Moves(w, d) \/ Moves(w, e)
      BY <2>5 DEF SweepWrites, Does
    <3> QED BY <3>1, <3>2
  <2>6. CASE SweepFails(w)
    <3> DEFINE d == [duty[w] EXCEPT !.sweep = "skipped", !.live = {}]
    <3>1. d.stage = duty[w].stage /\ d.reason = duty[w].reason
      BY <1>1 DEF Duty
    <3> QED BY <2>6, <3>1 DEF SweepFails, Does
  <2> QED BY <2>1, <2>2, <2>3, <2>4, <2>5, <2>6
<1>4. PICK d : Moves(w, d) /\ d.stage = duty[w].stage /\ d.reason = duty[w].reason
  BY <1>3
<1>5. duty'[w] = d
  BY <1>1, <1>4 DEF Moves
<1>6. d \in Duty
  BY <1>2, <1>5 DEF AuditTypeOK
<1> QED BY <1>4, <1>6 DEF Elsewhere

LEMMA WorkerElsewhere ==
  ASSUME Going, NEW w \in Worker,
         \/ Loads(w) \/ RecoverFails(w) \/ Restores(w) \/ Resumes(w)
         \/ Closes(w) \/ QueueOwnSteps(w)
         \/ \E b \in Beats : AdoptedHere(w, b)
  PROVE  Elsewhere(w)
<1>1. duty[w] \in Duty /\ TypeOK /\ mem[w] \in Memory
  BY DEF Going, AuditTypeOK, TypeOK
<1>2. /\ \A S \in SUBSET Job :
           LET d == [duty[w] EXCEPT !.reopen = S]
               e == [duty[w] EXCEPT !.resets = S]
               f == [duty[w] EXCEPT !.sweep = "asking", !.live = S]
           IN /\ d \in Duty /\ d.stage = duty[w].stage /\ d.reason = duty[w].reason
              /\ e \in Duty /\ e.stage = duty[w].stage /\ e.reason = duty[w].reason
              /\ f \in Duty /\ f.stage = duty[w].stage /\ f.reason = duty[w].reason
      /\ LET d == [duty[w] EXCEPT !.sweep = "skipped"]
         IN d \in Duty /\ d.stage = duty[w].stage /\ d.reason = duty[w].reason
  BY <1>1 DEF Duty, Sweep
<1>3. \A d \in Duty :
        (/\ Undeciding(w) /\ mem[w].up
         /\ d.stage = duty[w].stage /\ d.reason = duty[w].reason /\ Carries(w, d))
          => Elsewhere(w)
  BY DEF Elsewhere
<1>4. CASE Loads(w) \/ Closes(w)
  <2>1. Carries(w, duty[w]) /\ (LoadExecutes(w) \/ Close(w))
    BY <1>4 DEF Loads, Closes, Follows
  <2>2. Undeciding(w) /\ mem[w].up
    BY <1>1, <2>1, WholeUndecided DEF LoadExecutes, Close
  <2> QED BY <1>1, <1>3, <2>1, <2>2
<1>5. CASE RecoverFails(w)
  <2>1. Carries(w, [duty[w] EXCEPT !.sweep = "skipped"]) /\ LoadFails(w)
    BY <1>5 DEF RecoverFails, Follows
  <2>2. Undeciding(w) /\ mem[w].up
    BY <1>1, <2>1, WholeUndecided DEF LoadFails
  <2> QED BY <1>2, <1>3, <2>1, <2>2
<1>6. CASE Restores(w)
  <2>1. NewClaims(mem[w], mem[w].loaded) \in SUBSET Job
    BY <1>1 DEF NewClaims, Memory, Claims
  <2>2. PICK S \in SUBSET Job : S = NewClaims(mem[w], mem[w].loaded)
    BY <2>1
  <2>3. Carries(w, [duty[w] EXCEPT !.reopen = S]) /\ Recovered(w)
    BY <1>6, <2>2 DEF Restores, Follows
  <2>4. Undeciding(w) /\ mem[w].up
    BY <1>1, <2>3, WholeUndecided DEF Recovered
  <2> QED BY <1>2, <1>3, <2>3, <2>4
<1>7. CASE Resumes(w)
  <2> DEFINE L == { j \in Job : mem'[w].ent[j].state \in {"queued", "running"} }
  <2>1. L \in SUBSET Job
    OBVIOUS
  <2>2. PICK S \in SUBSET Job : S = L
    BY <2>1
  <2>3. /\ IF duty[w].sweep # "due" THEN Carries(w, duty[w])
           ELSE Carries(w, [duty[w] EXCEPT !.sweep = "asking", !.live = S])
        /\ Resume(w)
    BY <1>7, <2>2 DEF Resumes, Follows
  <2>4. Undeciding(w) /\ mem[w].up
    BY <1>1, <2>3, WholeUndecided DEF Resume
  <2> QED BY <1>1, <1>2, <1>3, <2>3, <2>4
<1>8. ASSUME NEW b \in Beats, AdoptedHere(w, b) PROVE Elsewhere(w)
  <2> DEFINE R == duty[w].resets \cup NewClaims(mem[w], mem[w].beats[b].got)
  <2>1. R \in SUBSET Job
    BY <1>1 DEF NewClaims, Duty, Memory, Beat, Claims
  <2>2. PICK S \in SUBSET Job : S = R
    BY <2>1
  <2>3. Carries(w, [duty[w] EXCEPT !.resets = S]) /\ Adopted(w, b)
    BY <1>8, <2>2 DEF AdoptedHere, Follows
  <2>4. Undeciding(w) /\ mem[w].up
    BY <1>1, <2>3, BeatUndecided DEF Adopted
  <2> QED BY <1>2, <1>3, <2>3, <2>4
<1>9. CASE QueueOwnSteps(w)
  <2>1. Carries(w, duty[w])
    BY <1>9 DEF QueueOwnSteps, Follows
  <2>2. CASE \E j \in Job : \/ StoreExecutes(w, j) \/ StoreFails(w, j)
                            \/ WriteSettles(w, j) \/ AcquireSettles(w, j) \/ Wake(w, j)
    <3>1. PICK j \in Job : \/ StoreExecutes(w, j) \/ StoreFails(w, j)
                           \/ WriteSettles(w, j) \/ AcquireSettles(w, j) \/ Wake(w, j)
      BY <2>2
    <3>2. Undeciding(w)
      BY <1>1, <3>1, ChainUndecided, ClientUndecided
    <3>3. mem[w].up
      BY <3>1 DEF StoreExecutes, StoreFails, WriteSettles, AcquireSettles, Wake
    <3> QED BY <1>1, <1>3, <2>1, <3>2, <3>3
  <2>3. CASE \E b \in Beats : \/ BeatStarts(w, b) \/ RenewExecutes(w, b) \/ Renewed(w, b)
                              \/ AdoptExecutes(w, b) \/ BeatFails(w, b)
    <3>1. PICK b \in Beats : \/ BeatStarts(w, b) \/ RenewExecutes(w, b) \/ Renewed(w, b)
                             \/ AdoptExecutes(w, b) \/ BeatFails(w, b)
      BY <2>3
    <3>2. Undeciding(w)
      BY <1>1, <3>1, BeatUndecided
    <3>3. mem[w].up
      BY <3>1 DEF BeatStarts, RenewExecutes, Renewed, AdoptExecutes, BeatFails
    <3> QED BY <1>1, <1>3, <2>1, <3>2, <3>3
  <2> QED BY <1>9, <2>2, <2>3 DEF QueueOwnSteps
<1> QED BY <1>4, <1>5, <1>6, <1>7, <1>8, <1>9

LEMMA StillAttends ==
  ASSUME Going, UNCHANGED duty,
         \A w \in Worker : mem'[w] = mem[w]
  PROVE  Attended'
BY DEF Going, Attended

LEMMA StepAttends ==
  ASSUME Going, [AuditNext]_auditVars
  PROVE  Attended'
<1>1. ASSUME NEW w \in Worker, NEW j \in Job,
             \/ SubmitInserts(w, j) \/ SubmitEnqueues(w, j) \/ SubmitStored(w, j)
             \/ SubmitRefused(w, j)
             \/ CancelWaiting(w, j) \/ CancelStarted(w, j) \/ CancelWrites(w, j)
             \/ RunSteps(w, j) \/ AdoptionResets(w, j)
      PROVE  Attended'
  BY <1>1, ScheduledElsewhere, ElsewhereAttends, RunAttends
<1>2. ASSUME NEW w \in Worker,
             \/ \E b \in Beats : AdoptedHere(w, b)
             \/ Boots(w) \/ CutoffRead(w) \/ Loads(w) \/ RecoverFails(w)
             \/ Restores(w) \/ RecoverReopens(w) \/ Resumes(w)
             \/ SweepAsks(w) \/ SweepReads(w) \/ SweepWrites(w) \/ SweepFails(w)
             \/ Closes(w) \/ Crashes(w) \/ QueueOwnSteps(w)
      PROVE  Attended'
  BY <1>2, ProcessAttends, WorkerMovesElsewhere, WorkerElsewhere, ElsewhereAttends
<1>3. CASE TimePasses
  BY <1>3, StillAttends DEF TimePasses, LeaseAges, LeaseLapses
<1>4. CASE UNCHANGED auditVars
  BY <1>4, StillAttends DEF auditVars, vars
<1> QED BY <1>1, <1>2, <1>3, <1>4 DEF AuditNext

LEMMA InitAttended == AuditInit => AuditTypeOK /\ Attended
<1> SUFFICES ASSUME AuditInit PROVE AuditTypeOK /\ Attended
  OBVIOUS
<1>1. AuditTypeOK
  BY EmptyDuties DEF AuditInit, AuditTypeOK, AuditRow
<1>2. ASSUME NEW w \in Worker PROVE AttendedTo(duty[w], mem[w])
  <2>1. mem[w] \in Memory
    BY InitType DEF AuditInit, TypeOK
  <2>2. duty[w] = NoDuty
    BY DEF AuditInit
  <2>3. mem[w].active = {} /\ mem[w].deciding = {}
    BY DEF AuditInit, Init, Fresh, ScheduleHeartbeat
  <2> QED BY <2>1, <2>2, <2>3, EmptyAttends
<1> QED BY <1>1, <1>2 DEF Attended

-----------------------------------------------------------------------------
(* A run that is told its lease is gone.                                   *)

(* A run of w's whose lease is gone begins nothing, and says no new word.   *)
Yields(w) ==
  \A j \in Job :
    ( /\ mem[w].up /\ mem'[w].up /\ LeaseLost(mem[w].ent[j])
      /\ ~mem[w].ent[j].cancelRequested /\ duty'[w].stage[j] # duty[w].stage[j] )
      => duty'[w].stage[j] \notin {"starting", "completing", "failing", "cancelling"}

LEMMA CarriesYields ==
  ASSUME Going, NEW w \in Worker, NEW d \in Duty, d.stage = duty[w].stage,
         Moves(w, d) \/ Carries(w, d)
  PROVE  \A v \in Worker : Yields(v)
<1>1. duty \in [Worker -> Duty] /\ mem'[w] \in Memory
  BY DEF Going, AuditTypeOK, TypeOK
<1>2. ASSUME NEW j \in Job, mem[w].up, mem'[w].up, LeaseLost(mem[w].ent[j]),
             duty'[w].stage[j] # duty[w].stage[j]
      PROVE  duty'[w].stage[j] \notin {"starting", "completing", "failing", "cancelling"}
  <2>1. CASE Moves(w, d)
    BY <1>1, <1>2, <2>1 DEF Moves
  <2>2. CASE Carries(w, d)
    <3> DEFINE m == mem'[w]
               a == Attend(d, m)
    <3>1. duty'[w] = a
      BY <1>1, <2>2 DEF Carries
    <3>2. a.stage[j] =
           (CASE j \in m.active /\ d.stage[j] \in {"idle", "reopened"} -> Begins(m.ent[j])
              [] j \in m.active /\ d.stage[j] \notin {"idle", "reopened"} -> d.stage[j]
              [] j \in m.deciding -> IF d.stage[j] = "threw" THEN "asked" ELSE d.stage[j]
              [] OTHER -> "idle")
      BY <1>1, AttendFields
    <3>3. LeaseLost(m.ent[j])
      BY <1>2 DEF Going, AllKept, Kept
    <3> HIDE DEF a, m
    <3>4. Begins(m.ent[j]) = "threw"
      BY <3>3 DEF Begins
    <3>5. a.stage[j] \in {"threw", "asked", "idle", d.stage[j]}
      BY <3>2, <3>4
    <3> QED BY <1>2, <3>1, <3>5
  <2> QED BY <2>1, <2>2
<1>3. \A v \in Worker \ {w} : duty'[v] = duty[v]
  BY <1>1 DEF Moves, Carries
<1> QED BY <1>2, <1>3 DEF Yields

LEMMA ElsewhereYields ==
  ASSUME Going, NEW w \in Worker, Elsewhere(w)
  PROVE  \A v \in Worker : Yields(v)
BY CarriesYields DEF Elsewhere

LEMMA RunYields ==
  ASSUME Going, NEW w \in Worker, NEW j \in Job, RunSteps(w, j)
  PROVE  \A v \in Worker : Yields(v)
<1>1. duty \in [Worker -> Duty] /\ TypeOK
  BY DEF Going, AuditTypeOK
<1>2. \A stage : LET d == AtStage(w, j, stage)
                 IN /\ d.stage[j] = stage
                    /\ \A k \in Job \ {j} : d.stage[k] = duty[w].stage[k]
  BY <1>1 DEF AtStage, Duty
<1>3. ASSUME NEW stage, Moves(w, AtStage(w, j, stage)),
             \/ stage \notin {"starting", "completing", "failing", "cancelling"}
             \/ duty[w].stage[j] \in Handling /\ duty[w].reason[j] # "lost"
      PROVE  \A v \in Worker : Yields(v)
  <2> DEFINE d == AtStage(w, j, stage)
  <2>1. Moves(w, d) /\ d.stage[j] = stage /\ \A k \in Job \ {j} : d.stage[k] = duty[w].stage[k]
    BY <1>2, <1>3
  <2> HIDE DEF d
  <2>2. duty'[w] = d /\ \A v \in Worker \ {w} : duty'[v] = duty[v]
    BY <1>1, <2>1 DEF Moves
  <2>3. (/\ LeaseLost(mem[w].ent[j]) /\ ~mem[w].ent[j].cancelRequested
         /\ duty[w].stage[j] \in Handling)
          => duty[w].reason[j] = "lost"
    BY DEF Going, Attended, AttendedTo
  <2> QED BY <1>3, <2>1, <2>2, <2>3 DEF Yields
<1>4. CASE RunReturned(w, j)
  <2>1. Carries(w, duty[w]) /\ Undeciding(w) /\ mem[w].up
    BY <1>1, <1>4, ReturnUndecided DEF RunReturned, Follows, HandlerReturns
  <2> QED BY <1>1, <2>1, ElsewhereYields DEF Elsewhere, Going
<1>5. CASE RunThrew(w, j) \/ RetryDecided(w, j)
  <2>1. Carries(w, duty[w])
    BY <1>5 DEF RunThrew, RetryDecided, Follows
  <2> QED BY <1>1, <2>1, CarriesYields DEF Going, TypeOK
<1>6. CASE RunStarts(w, j) \/ DecideRetry(w, j) \/ RetryReopens(w, j)
  <2>1. \E stage \in {"working", "threw", "reopening", "reopened", "unopened"} :
          Moves(w, AtStage(w, j, stage))
    BY <1>6 DEF RunStarts, DecideRetry, RetryReopens, Does
  <2> QED BY <1>3, <2>1
<1>7. CASE RunEnds(w, j)
  <2>1. duty[w].stage[j] \in Handling
    BY <1>7 DEF RunEnds, Handling
  <2>2. \/ \E stage \in {"returned", "threw"} : Moves(w, AtStage(w, j, stage))
        \/ duty[w].reason[j] # "lost" /\ Moves(w, AtStage(w, j, "failing"))
    BY <1>7 DEF RunEnds, Does, Catch
  <2> QED BY <1>3, <2>1, <2>2
<1>8. CASE RunStops(w, j) \/ RunFails(w, j) \/ RunGraded(w, j)
  <2>1. duty[w].stage[j] \in Handling
    BY <1>8 DEF RunStops, RunFails, RunGraded, Handling
  <2>2. \/ Moves(w, AtStage(w, j, "threw"))
        \/ duty[w].reason[j] # "lost" /\ Moves(w, AtStage(w, j, "completing"))
        \/ duty[w].reason[j] # "lost" /\ Moves(w, AtStage(w, j, "failing"))
        \/ duty[w].reason[j] # "lost" /\ Moves(w, AtStage(w, j, "cancelling"))
    BY <1>8 DEF RunStops, RunFails, RunGraded, Does, Catch
  <2> QED BY <1>3, <2>1, <2>2
<1> QED BY <1>4, <1>5, <1>6, <1>7, <1>8 DEF RunSteps

LEMMA StepYields ==
  ASSUME Going, [AuditNext]_auditVars
  PROVE  \A v \in Worker : Yields(v)
<1>1. duty \in [Worker -> Duty]
  BY DEF Going, AuditTypeOK
<1>2. ASSUME NEW w \in Worker, NEW j \in Job,
             \/ SubmitInserts(w, j) \/ SubmitEnqueues(w, j) \/ SubmitStored(w, j)
             \/ SubmitRefused(w, j)
             \/ CancelWaiting(w, j) \/ CancelStarted(w, j) \/ CancelWrites(w, j)
             \/ RunSteps(w, j) \/ AdoptionResets(w, j)
      PROVE  \A v \in Worker : Yields(v)
  BY <1>2, ScheduledElsewhere, ElsewhereYields, RunYields DEF Going
<1>3. ASSUME NEW w \in Worker,
             \/ \E b \in Beats : AdoptedHere(w, b)
             \/ CutoffRead(w) \/ Loads(w) \/ RecoverFails(w)
             \/ Restores(w) \/ RecoverReopens(w) \/ Resumes(w)
             \/ SweepAsks(w) \/ SweepReads(w) \/ SweepWrites(w) \/ SweepFails(w)
             \/ Closes(w) \/ QueueOwnSteps(w)
      PROVE  \A v \in Worker : Yields(v)
  BY <1>3, WorkerMovesElsewhere, WorkerElsewhere, ElsewhereYields DEF Going
<1>4. ASSUME NEW w \in Worker, Boots(w) \/ Crashes(w)
      PROVE  \A v \in Worker : Yields(v)
  <2>1. duty'[w] \in {NoDuty, JustBooted} /\ \A v \in Worker \ {w} : duty'[v] = duty[v]
    BY <1>1, <1>4 DEF Boots, Crashes
  <2>2. \A j \in Job : duty'[w].stage[j] = "idle"
    BY <2>1, IdleDuties
  <2> QED BY <2>1, <2>2 DEF Yields
<1>5. CASE UNCHANGED duty
  BY <1>5 DEF Yields
<1> QED BY <1>2, <1>3, <1>4, <1>5 DEF AuditNext, TimePasses, auditVars

-----------------------------------------------------------------------------
(* What holds of every behaviour of the scheduler.                         *)

(* The queue is the one JobQueue describes, whatever is written above it:  *)
(* its types and its invariant hold of it there too.                       *)
LEMMA QueueBeneath == AuditSpec => [](TypeOK /\ AllTidy)
<1>1. AuditInit => TypeOK /\ AllTidy
  BY InitType, InitTidy DEF AuditInit
<1>2. TypeOK /\ AllTidy /\ [AuditNext]_auditVars => (TypeOK /\ AllTidy)'
  BY StepBeneath, StillBeneath, QueueCarries
<1> QED BY <1>1, <1>2, PTL DEF AuditSpec

(* AuditTypeOK: every status, stage and set of the scheduler is one its    *)
(* code knows.                                                             *)
THEOREM AuditTypeCorrect == AuditSpec => []AuditTypeOK
<1>1. AuditInit => AuditTypeOK
  BY InitAttended
<1>2. TypeOK /\ TypeOK' /\ AuditTypeOK /\ [AuditNext]_auditVars => AuditTypeOK'
  BY AuditStepType
<1> QED BY <1>1, <1>2, QueueBeneath, PTL DEF AuditSpec

(* Attended: runAudit is between two awaits exactly for the jobs the queue *)
(* calls active, #decideRetry exactly for those it is asked about, and no  *)
(* run has lost its lease without its signal saying so.                    *)
THEOREM RunsAreAttended == AuditSpec => []Attended
<1>1. AuditInit => Attended
  BY InitAttended
<1>2. /\ TypeOK /\ TypeOK' /\ AllTidy /\ AllTidy' /\ AuditTypeOK
      /\ Attended /\ [AuditNext]_auditVars
      => Attended'
  BY StepBeneath, StillBeneath, QueueCarries, StepAttends DEF Going
<1> QED BY <1>1, <1>2, QueueBeneath, AuditTypeCorrect, PTL DEF AuditSpec

(* The store's claims, and with them SafeClaims' guarantees, hold beneath  *)
(* the scheduler: a leased job is never run by two workers that both still *)
(* think it theirs.                                                        *)
THEOREM ClaimsBeneath ==
  ASSUME Mode = "leased"
  PROVE  AuditSpec => []ClaimsHold
<1>1. AuditInit => IInv
  BY InitType, InitSafe DEF IInv, AuditInit
<1>2. IInv /\ [AuditNext]_auditVars => IInv'
  BY StepBeneath, StillBeneath, ClaimsCarry
<1>3. IInv => ClaimsHold
  BY DEF IInv
<1> QED BY <1>1, <1>2, <1>3, PTL DEF AuditSpec

(* SupersededStops: a run whose lease is gone, and that nobody has         *)
(* cancelled, does not begin, does not go on to record a grade, and is     *)
(* never turned into one that writes that its audit failed or was          *)
(* cancelled (stopIfCancelled, the catch of runAudit).  The write it was   *)
(* at when the lease went is not taken back.                               *)
THEOREM SupersededStandsDown == AuditSpec => SupersededStops
<1>1. /\ TypeOK /\ TypeOK' /\ AllTidy /\ AllTidy' /\ AuditTypeOK
      /\ Attended /\ [AuditNext]_auditVars
      => [\A w \in Worker, j \in Job :
            ( /\ mem[w].up /\ mem'[w].up /\ LeaseLost(mem[w].ent[j])
              /\ ~mem[w].ent[j].cancelRequested /\ duty'[w].stage[j] # duty[w].stage[j] )
              => duty'[w].stage[j] \notin
                   {"starting", "completing", "failing", "cancelling"}]_auditVars
  BY StepBeneath, StillBeneath, QueueCarries, StepYields DEF Going, Yields
<1> QED BY <1>1, QueueBeneath, AuditTypeCorrect, RunsAreAttended, PTL
        DEF AuditSpec, SupersededStops

-----------------------------------------------------------------------------
(* What a step of a queue leaves of the jobs it is not about.              *)

(* From m to n job k is where it was, or a queued one now runs.            *)
Steps(m, n, k) ==
  /\ n.ent[k].durability = m.ent[k].durability
  /\ n.ent[k].cancelRequested = m.ent[k].cancelRequested
  /\ \/ n.ent[k].state = m.ent[k].state
     \/ m.ent[k].state = "queued" /\ n.ent[k].state = "running"
  /\ k \in n.deciding <=> k \in m.deciding

(* From m to n only a job whose lane was being asked for starts.           *)
Rests(m, n, k) ==
  /\ k \in n.starting => k \in m.starting
  /\ n.ent[k].state = m.ent[k].state \/ k \in m.starting

(* A create that heads a chain in n headed it in m, unless it is waiting   *)
(* or has gone well.                                                       *)
Heads(m, n, k) ==
  (n.chain[k] # <<>> /\ n.chain[k][1].op = "create")
    => \/ n.chain[k][1].answer = "none" \/ n.chain[k][1].answer = "ok"
       \/ m.chain[k] # <<>> /\ n.chain[k][1] = m.chain[k][1]

Flags(m, n) ==
  n.up = m.up /\ n.closed = m.closed /\ n.paused = m.paused /\ n.loading = m.loading

(* From m to n nothing has happened to a job outside X, but for starts.    *)
GoesOn(m, n, X) ==
  /\ n \in Memory
  /\ Flags(m, n)
  /\ \A k \in Job : Heads(m, n, k)
  /\ \A k \in Job \ X : Steps(m, n, k) /\ (m.paused => Rests(m, n, k))

LEMMA GoesOnTransitive ==
  ASSUME NEW m, NEW n, NEW p, NEW X, NEW Y, GoesOn(m, n, X), GoesOn(n, p, Y)
  PROVE  GoesOn(m, p, X \cup Y)
<1>1. p \in Memory /\ Flags(m, p) /\ n.paused = m.paused
  BY DEF GoesOn, Flags
<1>2. ASSUME NEW k \in Job
      PROVE  Heads(m, p, k)
  BY DEF GoesOn, Heads
<1>3. ASSUME NEW k \in Job \ (X \cup Y)
      PROVE  Steps(m, p, k) /\ (m.paused => Rests(m, p, k))
  BY <1>1 DEF GoesOn, Steps, Rests
<1> QED BY <1>1, <1>2, <1>3 DEF GoesOn

LEMMA GoesOnMore ==
  ASSUME NEW m, NEW n, NEW X, NEW Y, GoesOn(m, n, X), X \subseteq Y
  PROVE  GoesOn(m, n, Y)
BY DEF GoesOn

LEMMA GoesNowhere ==
  ASSUME NEW m, NEW n \in Memory, Flags(m, n), n.ent = m.ent, n.chain = m.chain,
         n.deciding = m.deciding, n.starting \subseteq m.starting
  PROVE  GoesOn(m, n, {})
BY DEF GoesOn, Steps, Rests, Heads

(* A chain that grows keeps its head.                                      *)
LEMMA HeadStays ==
  ASSUME NEW c \in Seq(Write), NEW x \in Write
  PROVE  LET d == Append(c, x)
         IN d # <<>> /\ d[1] = IF c = <<>> THEN x ELSE c[1]
<1> DEFINE d == Append(c, x)
<1>1. /\ Len(c) \in Nat /\ Len(d) = Len(c) + 1 /\ d[Len(c) + 1] = x
      /\ \A i \in 1..Len(c) : d[i] = c[i]
  OBVIOUS
<1>2. d # <<>>
  <2>1. Len(d) # 0
    BY <1>1
  <2> QED BY <2>1, EmptySeq
<1>3. CASE c = <<>>
  <2>1. Len(c) = 0
    BY <1>3
  <2> HIDE DEF d
  <2>2. d[1] = x
    BY <1>1, <2>1
  <2> QED BY <1>2, <1>3, <2>2 DEF d
<1>4. CASE c # <<>>
  <2>1. Len(c) # 0
    BY <1>4, EmptySeq
  <2>2. 1 \in 1..Len(c)
    BY <1>1, <2>1
  <2> HIDE DEF d
  <2>3. d[1] = c[1]
    BY <1>1, <2>2
  <2> QED BY <1>2, <1>4, <2>3 DEF d
<1> QED BY <1>3, <1>4

LEMMA PullGoesOn ==
  ASSUME NEW m \in Memory, NEW S \in SUBSET Job
  PROVE  GoesOn(m, Pull(m, S), {})
BY PullType, PullFields, PullRest, GoesNowhere DEF AgreeAround, SameFlags, Flags

LEMMA PushGoesOn ==
  ASSUME NEW m \in Memory, NEW j \in Job
  PROVE  GoesOn(m, Push(m, j), {})
BY PushType, PushFields, PushRest, GoesNowhere DEF AgreeAround, SameFlags, Flags

LEMMA TellGoesOn ==
  ASSUME NEW m \in Memory
  PROVE  GoesOn(m, CheckIdle(m), {}) /\ GoesOn(m, ScheduleHeartbeat(m), {})
BY CheckIdleType, CheckIdleAgrees, CheckIdleRest, ScheduleHeartbeatType,
   ScheduleHeartbeatAgrees, ScheduleHeartbeatRest, GoesNowhere DEF Agree, Flags

LEMMA SettleGoesOn ==
  ASSUME NEW m \in Memory, NEW S \in SUBSET Job, NEW state \in Terminal
  PROVE  LET n == Settle(m, S, state)
         IN /\ GoesOn(m, n, S)
            /\ \A j \in S : /\ n.ent[j].state = state
                            /\ n.ent[j].durability = m.ent[j].durability
                            /\ n.ent[j].cancelRequested = m.ent[j].cancelRequested
<1> DEFINE n == Settle(m, S, state)
<1>1. n \in Memory /\ SettlesTo(m, n, S, state) /\ SameFlags(m, n)
  BY SettleType, SettleFields, SettleRest
<1> HIDE DEF n
<1>2. \A j \in Job : m.ent[j] \in Entry /\ m.chain[j] \in Seq(Write)
  BY DEF Memory
<1>3. ASSUME NEW j \in S
      PROVE  /\ n.ent[j].state = state
             /\ n.ent[j].durability = m.ent[j].durability
             /\ n.ent[j].cancelRequested = m.ent[j].cancelRequested
  BY <1>1, <1>2 DEF SettlesTo, Entry
<1>4. ASSUME NEW k \in Job
      PROVE  Heads(m, n, k)
  <2>1. \/ n.chain[k] = m.chain[k] \/ n.chain[k] = Append(m.chain[k], Removal)
    BY <1>1 DEF SettlesTo
  <2>2. CASE n.chain[k] = m.chain[k]
    BY <2>2 DEF Heads
  <2>3. CASE n.chain[k] = Append(m.chain[k], Removal)
    <3>1. n.chain[k][1] = IF m.chain[k] = <<>> THEN Removal ELSE m.chain[k][1]
      BY <1>2, <2>3, HeadStays, RemovalFields
    <3> QED BY <3>1, RemovalFields DEF Heads
  <2> QED BY <2>1, <2>2, <2>3
<1>5. ASSUME NEW k \in Job \ S
      PROVE  Steps(m, n, k) /\ Rests(m, n, k)
  BY <1>1 DEF SettlesTo, Steps, Rests
<1>6. Flags(m, n)
  BY <1>1 DEF Flags, SettlesTo, AgreeAround, SameFlags
<1>7. GoesOn(m, n, S)
  BY <1>1, <1>4, <1>5, <1>6 DEF GoesOn
<1> QED BY <1>3, <1>7 DEF n

LEMMA StartGoesOn ==
  ASSUME NEW m, Calm(m), NEW S \in SUBSET Eligible(m), m.paused => S = {}
  PROVE  GoesOn(m, Start(m, S), {})
<1> DEFINE n == Start(m, S)
<1>1. m \in Memory /\ S \in SUBSET Job /\ \A j \in S : m.ent[j].state = "queued"
  BY DEF Calm, Eligible, Memory
<1>2. n \in Memory
  BY <1>1, StartType
<1>3. /\ AgreeAround(m, n) /\ SameFlags(m, n)
      /\ n.starting = m.starting \cup Asks(m, S) /\ n.deciding = m.deciding
      /\ \A j \in Job :
           /\ n.ent[j] = IF j \in S \ Asks(m, S) THEN Running(m.ent[j]) ELSE m.ent[j]
           /\ n.chain[j] =
                IF j \in Asks(m, S)
                THEN Append(m.chain[j], Snapshot(Running(m.ent[j]), "acquire"))
                ELSE IF j \in S \ Asks(m, S) /\ m.ent[j].durability \notin {"none", "lost"}
                THEN Append(m.chain[j], Snapshot(Running(m.ent[j]), "save"))
                ELSE m.chain[j]
  BY <1>1, StartFields, StartRest
<1> HIDE DEF n
<1>4. \A j \in Job : m.ent[j] \in Entry /\ m.chain[j] \in Seq(Write)
  BY <1>1 DEF Memory
<1>5. ASSUME NEW k \in Job
      PROVE  Heads(m, n, k)
  <2> DEFINE r == Running(m.ent[k])
  <2>1. r \in Entry
    BY <1>4, RunningFields
  <2>2. \/ n.chain[k] = m.chain[k]
        \/ \E op \in {"acquire", "save"} : n.chain[k] = Append(m.chain[k], Snapshot(r, op))
    BY <1>3
  <2> HIDE DEF r
  <2>3. CASE n.chain[k] = m.chain[k]
    BY <2>3 DEF Heads
  <2>4. ASSUME NEW op \in {"acquire", "save"}, n.chain[k] = Append(m.chain[k], Snapshot(r, op))
        PROVE  Heads(m, n, k)
    <3>1. Snapshot(r, op) \in Write /\ Snapshot(r, op).op # "create"
      BY <2>1, SnapshotFields
    <3>2. n.chain[k][1] = IF m.chain[k] = <<>> THEN Snapshot(r, op) ELSE m.chain[k][1]
      BY <1>4, <2>4, <3>1, HeadStays
    <3> QED BY <3>1, <3>2 DEF Heads
  <2> QED BY <2>2, <2>3, <2>4
<1>6. ASSUME NEW k \in Job
      PROVE  Steps(m, n, k) /\ (m.paused => Rests(m, n, k))
  <2>1. /\ Running(m.ent[k]).state = "running"
        /\ Running(m.ent[k]).durability = m.ent[k].durability
        /\ Running(m.ent[k]).cancelRequested = m.ent[k].cancelRequested
    BY <1>4 DEF Running, Entry
  <2>2. m.paused => Asks(m, S) = {}
    BY DEF Asks
  <2> QED BY <1>1, <1>3, <2>1, <2>2 DEF Steps, Rests
<1>7. Flags(m, n)
  BY <1>3 DEF Flags, AgreeAround, SameFlags
<1>8. GoesOn(m, n, {})
  BY <1>2, <1>5, <1>6, <1>7 DEF GoesOn
<1> QED BY <1>8 DEF n

LEMMA StartedGoesOn ==
  ASSUME NEW m, Calm(m), NEW order
  PROVE  GoesOn(m, CheckIdle(ScheduleHeartbeat(Start(m, Taken(m, order)))), {})
<1> DEFINE T == Taken(m, order)
           n == Start(m, T)
           h == ScheduleHeartbeat(n)
<1>1. T \in SUBSET Eligible(m) /\ (m.paused => T = {})
  BY DEF Taken
<1> HIDE DEF T
<1>2. GoesOn(m, n, {})
  BY <1>1, StartGoesOn
<1> HIDE DEF n
<1>3. GoesOn(m, h, {})
  <2>1. n \in Memory
    BY <1>2 DEF GoesOn
  <2>2. GoesOn(n, h, {})
    BY <2>1, TellGoesOn
  <2> QED BY <1>2, <2>2, GoesOnTransitive, GoesOnMore
<1> HIDE DEF h
<1>4. GoesOn(m, CheckIdle(h), {})
  <2>1. h \in Memory
    BY <1>3 DEF GoesOn
  <2>2. GoesOn(h, CheckIdle(h), {})
    BY <2>1, TellGoesOn
  <2> QED BY <1>3, <2>2, GoesOnTransitive, GoesOnMore
<1> QED BY <1>4 DEF h, n, T

LEMMA PumpGoesOn ==
  ASSUME NEW m, Calm(m)
  PROVE  GoesOn(m, Pump(m), {})
BY StartedGoesOn DEF Pump

(* What a step does, and the pump that ends it.                            *)
LEMMA ThenPumps ==
  ASSUME NEW m, NEW n, NEW X, GoesOn(m, n, X), Calm(n)
  PROVE  GoesOn(m, Pump(n), X) /\ GoesOn(n, Pump(n), {})
BY PumpGoesOn, GoesOnTransitive, GoesOnMore

LEMMA PullSettleGoesOn ==
  ASSUME NEW m, Calm(m), NEW S \in SUBSET Job, NEW state \in Terminal
  PROVE  LET n == Settle(Pull(m, S), S, state)
         IN /\ GoesOn(m, n, S)
            /\ \A j \in S : /\ n.ent[j].state = state
                            /\ n.ent[j].durability = m.ent[j].durability
                            /\ n.ent[j].cancelRequested = m.ent[j].cancelRequested
<1> DEFINE p == Pull(m, S)
           n == Settle(p, S, state)
<1>1. p \in Memory /\ GoesOn(m, p, {}) /\ p.ent = m.ent
  BY PullGoesOn, PullFields DEF Calm, GoesOn
<1> HIDE DEF p
<1>2. /\ GoesOn(p, n, S)
      /\ \A j \in S : /\ n.ent[j].state = state
                      /\ n.ent[j].durability = m.ent[j].durability
                      /\ n.ent[j].cancelRequested = m.ent[j].cancelRequested
  BY <1>1, SettleGoesOn
<1> HIDE DEF n
<1>3. GoesOn(m, n, S)
  BY <1>1, <1>2, GoesOnTransitive, GoesOnMore
<1> QED BY <1>2, <1>3 DEF n, p

LEMMA BecomesIt ==
  ASSUME TypeOK, NEW w \in Worker, NEW n, Becomes(w, n)
  PROVE  mem'[w] = n /\ \A v \in Worker \ {w} : mem'[v] = mem[v]
BY DEF TypeOK, Becomes

(* Fields of a memory change that no scheduler looks at.                   *)
LEMMA GoesQuietly ==
  ASSUME NEW m, NEW n \in Memory, NEW X, Flags(m, n), n.chain = m.chain,
         n.starting \subseteq m.starting,
         \A k \in Job \ X : /\ k \in n.deciding <=> k \in m.deciding
                           /\ n.ent[k].state = m.ent[k].state
                           /\ n.ent[k].durability = m.ent[k].durability
                           /\ n.ent[k].cancelRequested = m.ent[k].cancelRequested
  PROVE  GoesOn(m, n, X)
BY DEF GoesOn, Steps, Rests, Heads

(* One entry changes.                                                      *)
LEMMA EntryGoesOn ==
  ASSUME NEW m \in Memory, NEW j \in Job, NEW e \in Entry
  PROVE  LET n == [m EXCEPT !.ent = [m.ent EXCEPT ![j] = e]]
         IN /\ GoesOn(m, n, {j})
            /\ n.ent[j] = e /\ n.deciding = m.deciding /\ n.starting = m.starting
            /\ n.queue = m.queue
            /\ (/\ e.state = m.ent[j].state /\ e.durability = m.ent[j].durability
                /\ e.cancelRequested = m.ent[j].cancelRequested) => GoesOn(m, n, {})
            /\ (Calm(m) /\ e.state = m.ent[j].state) => Calm(n)
<1> DEFINE n == [m EXCEPT !.ent = [m.ent EXCEPT ![j] = e]]
<1>1. /\ n \in Memory /\ AgreeAround(m, n) /\ SameFlags(m, n) /\ SameSlots(m, n)
      /\ n.chain = m.chain /\ n.deciding = m.deciding
      /\ n.ent[j] = e /\ \A k \in Job : k # j => n.ent[k] = m.ent[k]
  BY EntryFields
<1> HIDE DEF n
<1>2. Flags(m, n) /\ n.starting = m.starting /\ n.queue = m.queue
  BY <1>1 DEF AgreeAround, SameFlags, SameSlots, Flags
<1>3. GoesOn(m, n, {j})
  BY <1>1, <1>2, GoesQuietly
<1>4. ASSUME /\ e.state = m.ent[j].state /\ e.durability = m.ent[j].durability
             /\ e.cancelRequested = m.ent[j].cancelRequested
      PROVE  GoesOn(m, n, {})
  BY <1>1, <1>2, <1>4, GoesQuietly
<1>5. ASSUME Calm(m), e.state = m.ent[j].state
      PROVE  Calm(n)
  <2>1. m.queue \subseteq Job
    BY DEF Memory
  <2> QED BY <1>1, <1>2, <1>5, <2>1 DEF Calm
<1> QED BY <1>1, <1>2, <1>3, <1>4, <1>5 DEF n

LEMMA WakeGoesOn ==
  ASSUME IInv, Founded, NEW w \in Worker, NEW j \in Job, Wake(w, j)
  PROVE  GoesOn(mem[w], mem'[w], {})
<1> DEFINE m == mem[w]
           e == [m.ent[j] EXCEPT !.waiting = FALSE]
           due == [m EXCEPT !.ent = [m.ent EXCEPT ![j] = e]]
<1>1. Calm(m) /\ m \in Memory /\ TypeOK
  BY CalmMemory DEF IInv, Calm
<1>2. /\ e \in Entry /\ e.state = m.ent[j].state /\ e.durability = m.ent[j].durability
      /\ e.cancelRequested = m.ent[j].cancelRequested
  <2>1. m.ent[j] \in Entry
    BY <1>1 DEF Memory
  <2> QED BY <2>1 DEF Entry
<1>3. Becomes(w, due) \/ Becomes(w, Pump(due))
  <2>1. due = [m EXCEPT !.ent[j].waiting = FALSE]
    BY <1>1 DEF Memory
  <2> HIDE DEF due
  <2> QED BY <2>1 DEF Wake
<1>4. mem'[w] = due \/ mem'[w] = Pump(due)
  BY <1>1, <1>3, BecomesIt
<1> HIDE DEF m, e
<1>5. GoesOn(m, due, {}) /\ Calm(due)
  BY <1>1, <1>2, EntryGoesOn
<1> HIDE DEF due
<1>6. GoesOn(m, Pump(due), {})
  BY <1>5, ThenPumps
<1> QED BY <1>4, <1>5, <1>6 DEF m

(* Jobs that are not in the queue are settled, and the queue pumped.       *)
SettledAs(m, n, j, state) ==
  /\ n.ent[j].state = state
  /\ n.ent[j].durability = m.ent[j].durability
  /\ n.ent[j].cancelRequested = m.ent[j].cancelRequested
  /\ m.paused => (j \in n.starting => j \in m.starting)

LEMMA SettledPumpGoesOn ==
  ASSUME NEW m, Calm(m), NEW j \in Job, NEW state \in Terminal,
         Known(m, j), ~Ended(m, j), j \notin m.queue
  PROVE  LET n == Pump(Settle(m, {j}, state))
         IN GoesOn(m, n, {j}) /\ SettledAs(m, n, j, state)
<1> DEFINE S == {j}
           s == Settle(m, S, state)
           n == Pump(s)
<1>1. m \in Memory /\ S \in SUBSET Job
      /\ \A k \in S : Known(m, k) /\ ~Ended(m, k) /\ k \notin m.queue
  BY DEF Calm
<1>2. j \in S
  OBVIOUS
<1>0. GoesOn(m, n, S) /\ SettledAs(m, n, j, state)
  <2> HIDE DEF S
  <2>1. Calm(s)
    BY <1>1, SettledCalm
  <2>2. /\ GoesOn(m, s, S) /\ s.starting = m.starting
        /\ s.ent[j].state = state
        /\ s.ent[j].durability = m.ent[j].durability
        /\ s.ent[j].cancelRequested = m.ent[j].cancelRequested
    <3>1. /\ GoesOn(m, s, S)
          /\ \A k \in S : /\ s.ent[k].state = state
                          /\ s.ent[k].durability = m.ent[k].durability
                          /\ s.ent[k].cancelRequested = m.ent[k].cancelRequested
      BY <1>1, SettleGoesOn
    <3>2. SettlesTo(m, s, S, state)
      BY <1>1, SettleFields
    <3> HIDE DEF s
    <3> QED BY <1>2, <3>1, <3>2 DEF SettlesTo
  <2> HIDE DEF s
  <2>3. GoesOn(m, n, S) /\ GoesOn(s, n, {})
    BY <2>1, <2>2, ThenPumps
  <2> HIDE DEF n
  <2>4. Steps(s, n, j) /\ (s.paused => Rests(s, n, j)) /\ s.paused = m.paused
    BY <2>2, <2>3 DEF GoesOn, Flags
  <2>5. state # "queued"
    BY DEF Terminal
  <2> QED BY <2>2, <2>3, <2>4, <2>5 DEF Steps, Rests, SettledAs
<1> QED BY <1>0

LEMMA CancelQueuedGoesOn ==
  ASSUME IInv, Founded, NEW w \in Worker, NEW j \in Job, CancelQueued(w, j)
  PROVE  GoesOn(mem[w], mem'[w], {j}) /\ SettledAs(mem[w], mem'[w], j, "cancelled")
<1> DEFINE m == mem[w]
           p == Pull(m, {j})
           n == Pump(Settle(p, {j}, "cancelled"))
<1>1. Calm(m) /\ m \in Memory /\ TypeOK
  BY CalmMemory DEF IInv, Calm
<1>2. Becomes(w, n) /\ m.ent[j].state = "queued"
  BY DEF CancelQueued
<1>3. mem'[w] = n
  BY <1>1, <1>2, BecomesIt
<1> HIDE DEF m
<1>4. Calm(p) /\ p.ent = m.ent /\ p.queue = m.queue \ {j}
  <2>1. {j} \in SUBSET Job
    OBVIOUS
  <2> QED BY <1>1, <2>1, PullCalls
<1>5. GoesOn(m, p, {}) /\ p.starting = m.starting
  <2>1. {j} \in SUBSET Job
    OBVIOUS
  <2> QED BY <1>1, <2>1, PullGoesOn, PullFields
<1> HIDE DEF p
<1>6. "cancelled" \in Terminal /\ Known(p, j) /\ ~Ended(p, j) /\ j \notin p.queue
  BY <1>2, <1>4 DEF Terminal, Known, Ended
<1>7. GoesOn(p, n, {j}) /\ SettledAs(p, n, j, "cancelled")
  BY <1>4, <1>6, SettledPumpGoesOn
<1> HIDE DEF n
<1>8. GoesOn(m, n, {j})
  BY <1>5, <1>7, GoesOnTransitive, GoesOnMore
<1>9. SettledAs(m, n, j, "cancelled")
  BY <1>4, <1>5, <1>7 DEF SettledAs, GoesOn, Flags
<1> QED BY <1>3, <1>8, <1>9 DEF m

LEMMA CancelRunningGoesOn ==
  ASSUME IInv, Founded, NEW w \in Worker, NEW j \in Job, CancelRunning(w, j)
  PROVE  /\ GoesOn(mem[w], mem'[w], {j})
         /\ mem'[w].ent[j].state = "running" /\ mem[w].ent[j].state = "running"
         /\ mem'[w].ent[j].durability = mem[w].ent[j].durability
         /\ mem'[w].ent[j].cancelRequested
<1> DEFINE m == mem[w]
           e == [m.ent[j] EXCEPT !.cancelRequested = TRUE]
           n == [m EXCEPT !.ent = [m.ent EXCEPT ![j] = e]]
<1>1. m \in Memory /\ TypeOK /\ m.ent[j].state = "running"
  BY CalmMemory DEF IInv, Calm, CancelRunning
<1>2. /\ e \in Entry /\ e.state = m.ent[j].state /\ e.durability = m.ent[j].durability
      /\ e.cancelRequested
  <2>1. m.ent[j] \in Entry
    BY <1>1 DEF Memory
  <2> QED BY <2>1 DEF Entry
<1>3. Becomes(w, n)
  <2>1. n = [m EXCEPT !.ent[j].cancelRequested = TRUE]
    BY <1>1 DEF Memory
  <2> HIDE DEF n
  <2> QED BY <2>1 DEF CancelRunning
<1>4. mem'[w] = n
  BY <1>1, <1>3, BecomesIt
<1> HIDE DEF m, e
<1>5. GoesOn(m, n, {j}) /\ n.ent[j] = e
  BY <1>1, <1>2, EntryGoesOn
<1> HIDE DEF n
<1> QED BY <1>1, <1>2, <1>4, <1>5 DEF m

-----------------------------------------------------------------------------
(* The handler and the policy.                                             *)

LEMMA ReleasedGoesOn ==
  ASSUME NEW m \in Memory, NEW j \in Job
  PROVE  LET n == Released(m, j)
         IN /\ GoesOn(m, n, {}) /\ n.ent = m.ent /\ n.queue = m.queue
            /\ n.deciding = m.deciding /\ n.starting = m.starting /\ n.closed = m.closed
            /\ Calm(m) => Calm(n)
<1> DEFINE n == Released(m, j)
<1>1. n \in Memory
  BY ReleasedType
<1>2. /\ Flags(m, n) /\ n.ent = m.ent /\ n.queue = m.queue /\ n.chain = m.chain
      /\ n.deciding = m.deciding /\ n.starting = m.starting /\ n.closed = m.closed
  BY DEF Released, Memory, Flags
<1> HIDE DEF n
<1>3. GoesOn(m, n, {})
  BY <1>1, <1>2, GoesNowhere
<1> QED BY <1>1, <1>2, <1>3 DEF Calm, n

LEMMA HandlerReturnsGoesOn ==
  ASSUME IInv, Founded, NEW w \in Worker, NEW j \in Job, HandlerReturns(w, j)
  PROVE  /\ GoesOn(mem[w], mem'[w], {j})
         /\ SettledAs(mem[w], mem'[w], j,
              IF mem[w].ent[j].cancelRequested THEN "cancelled" ELSE "complete")
<1> DEFINE m == mem[w]
           freed == Released(m, j)
           state == IF m.ent[j].cancelRequested THEN "cancelled" ELSE "complete"
           n == Pump(Settle(freed, {j}, state))
<1>1. Calm(m) /\ m \in Memory /\ WorkerInv(w, m, row) /\ j \in m.active /\ TypeOK
  BY CalmMemory DEF IInv, Calm, HandlerReturns
<1>2. Known(m, j) /\ ~Ended(m, j) /\ j \notin m.queue /\ ~LeaseLost(m.ent[j])
  <2>1. Placed(m, j)
    BY <1>1 DEF WorkerInv, JobInv
  <2> HIDE DEF m
  <2> QED BY <1>1, <2>1 DEF Placed, Ended, Terminal, Known, LeaseLost
<1>3. /\ Calm(freed) /\ GoesOn(m, freed, {}) /\ freed.ent = m.ent
      /\ freed.queue = m.queue /\ freed.starting = m.starting
  BY <1>1, ReleasedGoesOn
<1>4. Becomes(w, n)
  <2>1. Becomes(w, Pump(Settle(freed, {j},
               IF LeaseLost(freed.ent[j]) THEN "failed"
               ELSE IF freed.ent[j].cancelRequested THEN "cancelled" ELSE "complete")))
    BY DEF HandlerReturns
  <2> HIDE DEF freed
  <2> QED BY <1>2, <1>3, <2>1
<1>5. mem'[w] = n
  BY <1>1, <1>4, BecomesIt
<1>6. state \in Terminal
  BY DEF Terminal
<1> HIDE DEF m, freed, state
<1>7. Known(freed, j) /\ ~Ended(freed, j) /\ j \notin freed.queue
  BY <1>2, <1>3 DEF Known, Ended
<1>8. GoesOn(freed, n, {j}) /\ SettledAs(freed, n, j, state)
  BY <1>3, <1>6, <1>7, SettledPumpGoesOn
<1> HIDE DEF n
<1>9. GoesOn(m, n, {j})
  BY <1>3, <1>8, GoesOnTransitive, GoesOnMore
<1>10. SettledAs(m, n, j, state)
  BY <1>3, <1>8 DEF SettledAs, GoesOn, Flags
<1> QED BY <1>5, <1>9, <1>10 DEF m, state

LEMMA HandlerThrowsGoesOn ==
  ASSUME IInv, Founded, NEW w \in Worker, NEW j \in Job, HandlerThrows(w, j)
  PROVE  /\ GoesOn(mem[w], mem'[w], {j})
         /\ \/ /\ mem[w].ent[j].cancelRequested
               /\ SettledAs(mem[w], mem'[w], j, "cancelled")
            \/ mem[w].closed /\ SettledAs(mem[w], mem'[w], j, "failed")
            \/ ~mem[w].closed /\ SettledAs(mem[w], mem'[w], j, "running")
<1> DEFINE m == mem[w]
           freed == Released(m, j)
           asked == [freed EXCEPT !.deciding = @ \cup {j}]
<1>1. Calm(m) /\ m \in Memory /\ WorkerInv(w, m, row) /\ j \in m.active /\ TypeOK
  BY CalmMemory DEF IInv, Calm, HandlerThrows
<1>2. Known(m, j) /\ ~Ended(m, j) /\ j \notin m.queue /\ ~LeaseLost(m.ent[j])
      /\ m.ent[j].state = "running"
  <2>1. Placed(m, j)
    BY <1>1 DEF WorkerInv, JobInv
  <2> HIDE DEF m
  <2> QED BY <1>1, <2>1 DEF Placed, Ended, Terminal, Known, LeaseLost
<1>3. /\ Calm(freed) /\ GoesOn(m, freed, {}) /\ freed.ent = m.ent /\ freed \in Memory
      /\ freed.queue = m.queue /\ freed.starting = m.starting /\ freed.closed = m.closed
  BY <1>1, ReleasedGoesOn DEF GoesOn
<1>4. \/ m.ent[j].cancelRequested /\ Becomes(w, Pump(Settle(freed, {j}, "cancelled")))
      \/ m.closed /\ Becomes(w, Pump(Settle(freed, {j}, "failed")))
      \/ ~m.closed /\ Becomes(w, asked)
  <2>1. Becomes(w, CASE LeaseLost(freed.ent[j]) -> Pump(Settle(freed, {j}, "failed"))
                     [] ~LeaseLost(freed.ent[j]) /\ freed.ent[j].cancelRequested ->
                          Pump(Settle(freed, {j}, "cancelled"))
                     [] OTHER -> IF freed.closed THEN Pump(Settle(freed, {j}, "failed"))
                                 ELSE asked)
    BY ZenonT(30) DEF HandlerThrows
  <2>2. ~LeaseLost(freed.ent[j]) /\ freed.ent[j] = m.ent[j]
    BY <1>2, <1>3
  <2> HIDE DEF freed, asked
  <2> QED BY <1>3, <2>1, <2>2
<1>5. /\ GoesOn(freed, asked, {j}) /\ asked.ent = freed.ent /\ asked.starting = freed.starting
  <2> HIDE DEF freed
  <2>1. asked \in Memory /\ Flags(freed, asked) /\ asked.ent = freed.ent
        /\ asked.chain = freed.chain /\ asked.starting = freed.starting
        /\ asked.deciding = freed.deciding \cup {j}
    BY <1>3 DEF Memory, Flags
  <2> HIDE DEF asked
  <2> QED BY <2>1, GoesQuietly
<1>6. Known(freed, j) /\ ~Ended(freed, j) /\ j \notin freed.queue
  BY <1>2, <1>3 DEF Known, Ended
<1> HIDE DEF freed, asked, m
<1>7. ASSUME NEW state \in Terminal, Becomes(w, Pump(Settle(freed, {j}, state)))
      PROVE  GoesOn(m, mem'[w], {j}) /\ SettledAs(m, mem'[w], j, state)
  <2> DEFINE n == Pump(Settle(freed, {j}, state))
  <2>1. GoesOn(freed, n, {j}) /\ SettledAs(freed, n, j, state)
    BY <1>3, <1>6, SettledPumpGoesOn
  <2>2. mem'[w] = n
    BY <1>1, <1>7, BecomesIt
  <2> HIDE DEF n
  <2>3. GoesOn(m, n, {j})
    BY <1>3, <2>1, GoesOnTransitive, GoesOnMore
  <2>4. SettledAs(m, n, j, state)
    BY <1>3, <2>1 DEF SettledAs, GoesOn, Flags
  <2> QED BY <2>2, <2>3, <2>4
<1>8. ASSUME Becomes(w, asked)
      PROVE  GoesOn(m, mem'[w], {j}) /\ SettledAs(m, mem'[w], j, "running")
  <2>1. mem'[w] = asked
    BY <1>1, <1>8, BecomesIt
  <2>2. GoesOn(m, asked, {j})
    BY <1>3, <1>5, GoesOnTransitive, GoesOnMore
  <2>3. SettledAs(m, asked, j, "running")
    BY <1>2, <1>3, <1>5 DEF SettledAs
  <2> QED BY <2>1, <2>2, <2>3
<1>9. "cancelled" \in Terminal /\ "failed" \in Terminal
  BY DEF Terminal
<1> QED BY <1>4, <1>7, <1>8, <1>9 DEF m

(* A job that cannot start is not what the pump starts.                    *)
LEMMA PumpSkips ==
  ASSUME NEW m, Calm(m), NEW j \in Job, j \notin Eligible(m)
  PROVE  Pump(m).ent[j].state = m.ent[j].state /\ Pump(m).starting \cap {j} \subseteq m.starting
<1> DEFINE T == Taken(m, ByPriority(m))
           s == Start(m, T)
           b == ScheduleHeartbeat(s)
<1>1. T \in SUBSET Job /\ j \notin T /\ m \in Memory
  <2>1. T \in SUBSET Eligible(m) /\ Eligible(m) \subseteq m.queue
    BY DEF Taken, Eligible
  <2>2. m.queue \subseteq Job
    BY DEF Memory, Calm
  <2> HIDE DEF T
  <2> QED BY <2>1, <2>2 DEF Calm
<1>2. Pump(m) = CheckIdle(b)
  BY DEF Pump
<1> HIDE DEF T
<1>3. /\ s \in Memory /\ s.ent[j] = m.ent[j] /\ s.starting = m.starting \cup Asks(m, T)
  <2>1. s \in Memory
    BY <1>1, StartType
  <2>2. /\ s.starting = m.starting \cup Asks(m, T)
        /\ \A k \in Job : s.ent[k] = IF k \in T \ Asks(m, T) THEN Running(m.ent[k])
                                     ELSE m.ent[k]
    BY <1>1, StartFields
  <2> HIDE DEF s
  <2> QED BY <1>1, <2>1, <2>2
<1>4. Asks(m, T) \subseteq T
  BY DEF Asks
<1> HIDE DEF s
<1>5. b \in Memory /\ b.ent = s.ent /\ b.starting = s.starting
  BY <1>3, ScheduleHeartbeatType, ScheduleHeartbeatAgrees DEF Agree
<1> HIDE DEF b
<1>6. CheckIdle(b).ent = b.ent /\ CheckIdle(b).starting = b.starting
  BY <1>5, CheckIdleAgrees DEF Agree
<1> QED BY <1>1, <1>2, <1>3, <1>4, <1>5, <1>6

-----------------------------------------------------------------------------

LEMMA PersistGoesOn ==
  ASSUME NEW m \in Memory, NEW S \in SUBSET Job, NEW op \in {"create", "save"}
  PROVE  GoesOn(m, Persist(m, S, op), {})
<1> DEFINE n == Persist(m, S, op)
<1>1. n \in Memory /\ Persisted(m, n, S, op) /\ SameFlags(m, n)
  BY PersistType, PersistFields, PersistRest
<1> HIDE DEF n
<1>2. \A k \in Job : m.ent[k] \in Entry /\ m.chain[k] \in Seq(Write)
  BY DEF Memory
<1>3. Flags(m, n)
  BY <1>1 DEF Persisted, AgreeAround, SameFlags, Flags
<1>4. ASSUME NEW k \in Job
      PROVE  Heads(m, n, k)
  <2> DEFINE x == Snapshot(m.ent[k], op)
  <2>1. x \in Write /\ x.answer = "none"
    <3>1. x \in Write
      BY <1>2, SnapshotFields
    <3> QED BY <3>1 DEF Snapshot
  <2>2. n.chain[k] = m.chain[k] \/ n.chain[k] = Append(m.chain[k], x)
    BY <1>1 DEF Persisted
  <2> HIDE DEF x
  <2>3. CASE n.chain[k] = m.chain[k]
    BY <2>3 DEF Heads
  <2>4. CASE n.chain[k] = Append(m.chain[k], x)
    <3>1. n.chain[k][1] = IF m.chain[k] = <<>> THEN x ELSE m.chain[k][1]
      BY <1>2, <2>1, <2>4, HeadStays
    <3> QED BY <2>1, <3>1 DEF Heads
  <2> QED BY <2>2, <2>3, <2>4
<1>5. ASSUME NEW k \in Job
      PROVE  Steps(m, n, k) /\ Rests(m, n, k)
  BY <1>1 DEF Persisted, Steps, Rests
<1> QED BY <1>1, <1>3, <1>4, <1>5 DEF GoesOn, n

LEMMA RequeueGoesOn ==
  ASSUME NEW m \in Memory, NEW j \in Job
  PROVE  LET n == Requeue(m, j)
         IN /\ GoesOn(m, n, {j})
            /\ n.ent[j].state = "queued" /\ n.ent[j].waiting
            /\ n.ent[j].durability = m.ent[j].durability
            /\ n.ent[j].cancelRequested = m.ent[j].cancelRequested
            /\ n.deciding = m.deciding /\ n.starting = m.starting
<1> DEFINE e == [m.ent[j] EXCEPT !.state = "queued", !.backoff = TRUE, !.waiting = TRUE]
           f == [m EXCEPT !.ent = [m.ent EXCEPT ![j] = e]]
           p == Push(f, j)
           S == {j}
           n == Persist(p, S, "save")
<1>1. /\ e \in Entry /\ e.state = "queued" /\ e.waiting
      /\ e.durability = m.ent[j].durability
      /\ e.cancelRequested = m.ent[j].cancelRequested
  <2>1. m.ent[j] \in Entry
    BY DEF Memory
  <2> QED BY <2>1 DEF Entry
<1>2. Requeue(m, j) = n
  <2>1. f = [m EXCEPT !.ent[j].state = "queued", !.ent[j].backoff = TRUE,
                      !.ent[j].waiting = TRUE]
    BY DEF Memory
  <2> HIDE DEF f
  <2> QED BY <2>1 DEF Requeue
<1> HIDE DEF e
<1>3. GoesOn(m, f, {j}) /\ f.ent[j] = e /\ f.deciding = m.deciding /\ f.starting = m.starting
  BY <1>1, EntryGoesOn
<1> HIDE DEF f
<1>4. GoesOn(f, p, {}) /\ p.ent = f.ent /\ p.deciding = f.deciding /\ p.starting = f.starting
  BY <1>3, PushGoesOn, PushFields DEF GoesOn
<1> HIDE DEF p
<1>5. S \in SUBSET Job
  OBVIOUS
<1> HIDE DEF S
<1>6. GoesOn(p, n, {}) /\ n.ent = p.ent /\ n.deciding = p.deciding /\ n.starting = p.starting
  BY <1>4, <1>5, PersistGoesOn, PersistFields DEF GoesOn, Persisted
<1> HIDE DEF n
<1>7. GoesOn(m, n, {j})
  BY <1>3, <1>4, <1>6, GoesOnTransitive, GoesOnMore
<1> QED BY <1>1, <1>2, <1>3, <1>4, <1>6, <1>7

(* What the policy's answer makes of the job.                              *)
LEMMA PolicyAnswersGoesOn ==
  ASSUME IInv, Founded, NEW w \in Worker, NEW j \in Job, PolicyAnswers(w, j)
  PROVE  /\ GoesOn(mem[w], mem'[w], {j})
         /\ \/ /\ mem[w].ent[j].cancelRequested
               /\ SettledAs(mem[w], mem'[w], j, "cancelled")
            \/ /\ ~mem[w].ent[j].cancelRequested
               /\ \E state \in {"queued", "failed"} : SettledAs(mem[w], mem'[w], j, state)
<1> DEFINE m == mem[w]
           decided == [m EXCEPT !.deciding = @ \ {j}]
<1>1. Calm(m) /\ m \in Memory /\ WorkerInv(w, m, row) /\ j \in m.deciding /\ TypeOK
  BY CalmMemory DEF IInv, Calm, PolicyAnswers
<1>2. /\ Known(m, j) /\ ~Ended(m, j) /\ j \notin m.queue
      /\ m.ent[j].state = "running" /\ m.ent[j].durability = "stored"
  <2>1. Placed(m, j)
    BY <1>1 DEF WorkerInv, JobInv
  <2> HIDE DEF m
  <2> QED BY <1>1, <2>1 DEF Placed, Ended, Terminal, Known
<1>3. \/ m.ent[j].cancelRequested /\ Becomes(w, Pump(Settle(decided, {j}, "cancelled")))
      \/ /\ ~m.ent[j].cancelRequested
         /\ Becomes(w, Pump(Requeue(decided, j)))
      \/ /\ ~m.ent[j].cancelRequested
         /\ Becomes(w, Pump(Settle(decided, {j}, "failed")))
  <2>1. PICK again \in BOOLEAN :
          Becomes(w, Pump(CASE m.ent[j].cancelRequested -> Settle(decided, {j}, "cancelled")
                            [] ~m.ent[j].cancelRequested /\ again -> Requeue(decided, j)
                            [] OTHER -> Settle(decided, {j}, "failed")))
    BY ZenonT(30) DEF PolicyAnswers
  <2> HIDE DEF decided
  <2> QED BY <2>1
<1> HIDE DEF m
<1>4. /\ decided \in Memory /\ GoesOn(m, decided, {j}) /\ decided.ent = m.ent
      /\ decided.queue = m.queue /\ decided.starting = m.starting
  <2>1. /\ decided \in Memory /\ Flags(m, decided) /\ decided.ent = m.ent
        /\ decided.chain = m.chain /\ decided.starting = m.starting
        /\ decided.deciding = m.deciding \ {j} /\ decided.queue = m.queue
    BY <1>1 DEF Memory, Flags
  <2> HIDE DEF decided
  <2> QED BY <2>1, GoesQuietly
<1> HIDE DEF decided
<1>5. Calm(decided) /\ Known(decided, j) /\ ~Ended(decided, j) /\ j \notin decided.queue
  BY <1>1, <1>2, <1>4 DEF Calm, Known, Ended
<1>6. ASSUME NEW state \in Terminal, Becomes(w, Pump(Settle(decided, {j}, state)))
      PROVE  GoesOn(m, mem'[w], {j}) /\ SettledAs(m, mem'[w], j, state)
  <2> DEFINE n == Pump(Settle(decided, {j}, state))
  <2>1. GoesOn(decided, n, {j}) /\ SettledAs(decided, n, j, state)
    BY <1>5, SettledPumpGoesOn
  <2>2. mem'[w] = n
    BY <1>1, <1>6, BecomesIt
  <2> HIDE DEF n
  <2>3. GoesOn(m, n, {j})
    BY <1>4, <2>1, GoesOnTransitive, GoesOnMore
  <2>4. SettledAs(m, n, j, state)
    BY <1>4, <2>1 DEF SettledAs, GoesOn, Flags
  <2> QED BY <2>2, <2>3, <2>4
<1>7. ASSUME Becomes(w, Pump(Requeue(decided, j)))
      PROVE  GoesOn(m, mem'[w], {j}) /\ SettledAs(m, mem'[w], j, "queued")
  <2> DEFINE q == Requeue(decided, j)
             n == Pump(q)
  <2>1. /\ GoesOn(decided, q, {j}) /\ q.ent[j].state = "queued" /\ q.ent[j].waiting
        /\ q.ent[j].durability = decided.ent[j].durability
        /\ q.ent[j].cancelRequested = decided.ent[j].cancelRequested
        /\ q.starting = decided.starting
    BY <1>4, RequeueGoesOn
  <2>2. Calm(q)
    BY <1>2, <1>4, <1>5, RequeueCalls
  <2>3. mem'[w] = n
    BY <1>1, <1>7, BecomesIt
  <2> HIDE DEF q
  <2>4. GoesOn(q, n, {}) /\ n.ent[j].state = "queued" /\ n.starting \cap {j} \subseteq q.starting
    <3>1. j \notin Eligible(q)
      BY <2>1 DEF Eligible
    <3> QED BY <2>1, <2>2, <3>1, PumpGoesOn, PumpSkips
  <2> HIDE DEF n
  <2>5. GoesOn(m, n, {j})
    BY <1>4, <2>1, <2>4, GoesOnTransitive, GoesOnMore
  <2>6. Steps(q, n, j)
    BY <2>4 DEF GoesOn
  <2>7. SettledAs(m, n, j, "queued")
    BY <1>4, <2>1, <2>4, <2>6 DEF SettledAs, Steps
  <2> QED BY <2>3, <2>5, <2>7
<1>8. "cancelled" \in Terminal /\ "failed" \in Terminal
  BY DEF Terminal
<1> QED BY <1>3, <1>6, <1>7, <1>8 DEF m

-----------------------------------------------------------------------------
(* The store's answers.                                                    *)

LEMMA DropGoesOn ==
  ASSUME NEW m \in Memory, NEW j \in Job, m.chain[j] # <<>>, Chained(m, j)
  PROVE  LET n == DropHead(m, j)
         IN /\ GoesOn(m, n, {}) /\ n.ent = m.ent /\ n.queue = m.queue
            /\ n.starting = m.starting /\ n.deciding = m.deciding
            /\ Calm(m) => Calm(n)
<1> DEFINE n == DropHead(m, j)
           c == m.chain[j]
           d == Tail(c)
<1>1. /\ n \in Memory /\ AgreeAround(m, n) /\ Dropped(m, n, j) /\ n.ent = m.ent
      /\ n.queue = m.queue /\ n.starting = m.starting /\ n.deciding = m.deciding
  BY DropFields
<1>2. n.closed = m.closed
  BY DEF DropHead, Memory
<1> HIDE DEF n
<1>3. /\ c \in Seq(Write) /\ c # <<>> /\ (j \in m.starting) \in BOOLEAN
      /\ ChainShape(c, m.ent[j], j \in m.starting)
  BY DEF Memory, Chained
<1>4. \A i \in 1..Len(d) : d[i].op # "create"
  <2> HIDE DEF c
  <2> QED BY <1>3, TailFacts
<1>5. d # <<>> => d[1].op # "create"
  <2>1. d \in Seq(Write)
    <3> HIDE DEF c
    <3> QED BY <1>3, HeadTailProperties DEF c
  <2> HIDE DEF c, d
  <2>2. d # <<>> => 1 \in 1..Len(d)
    BY <2>1, EmptySeq
  <2> QED BY <1>4, <2>2
<1>6. \A k \in Job : Heads(m, n, k)
  BY <1>1, <1>5 DEF Heads, Dropped
<1>7. Flags(m, n)
  BY <1>1, <1>2 DEF Flags, AgreeAround
<1>8. \A k \in Job : Steps(m, n, k) /\ Rests(m, n, k)
  BY <1>1 DEF Steps, Rests
<1> QED BY <1>1, <1>6, <1>7, <1>8 DEF GoesOn, Calm, n

LEMMA LoseGoesOn ==
  ASSUME NEW m \in Memory, NEW S \in SUBSET Job,
         \A k \in S : m.ent[k].state \notin {"queued", "running"}
  PROVE  LET n == Lose(m, S)
         IN n \in Memory /\ Agree(m, n) /\ GoesOn(m, n, {})
<1> DEFINE n == Lose(m, S)
<1>1. n \in Memory /\ Agree(m, n) /\ SameFlags(m, n)
  BY LoseNothing, LoseFields
<1> HIDE DEF n
<1>2. GoesOn(m, n, {})
  BY <1>1, GoesNowhere DEF Agree, SameFlags, Flags
<1> QED BY <1>1, <1>2 DEF n

(* An answer of `lost` finds its job settled.                              *)
LEMMA ToldGoesOn ==
  ASSUME NEW m \in Memory, NEW j \in Job, Chained(m, j), m.chain[j] # <<>>,
         m.chain[j][1].op # "create", NEW d \in Memory, d.ent = m.ent, Calm(d),
         NEW answer, answer = m.chain[j][1].answer
  PROVE  LET told == IF answer = "lost" THEN Lose(d, {j}) ELSE d
         IN /\ told \in Memory /\ Agree(d, told) /\ GoesOn(d, told, {})
            /\ Calm(told)
<1> DEFINE told == IF answer = "lost" THEN Lose(d, {j}) ELSE d
<1>0. ASSUME NEW n \in Memory, Agree(d, n), GoesOn(d, n, {}), told = n
      PROVE  told \in Memory /\ Agree(d, told) /\ GoesOn(d, told, {}) /\ Calm(told)
  BY <1>0 DEF Agree, Calm
<1>1. CASE answer = "lost"
  <2>1. m.ent[j].state \in Terminal
    <3>1. m.chain[j] \in Seq(Write)
      BY DEF Memory
    <3>2. 1 \in 1..Len(m.chain[j])
      BY <3>1, EmptySeq
    <3> QED BY <1>1, <3>2 DEF Chained, ChainShape
  <2>2. \A k \in {j} : d.ent[k].state \notin {"queued", "running"}
    BY <2>1 DEF Terminal
  <2>3. Lose(d, {j}) \in Memory /\ Agree(d, Lose(d, {j})) /\ GoesOn(d, Lose(d, {j}), {})
    BY <2>2, LoseGoesOn
  <2>4. told = Lose(d, {j})
    BY <1>1
  <2> QED BY <1>0, <2>3, <2>4
<1>2. CASE answer # "lost"
  <2>1. told = d
    BY <1>2
  <2>2. GoesOn(d, d, {})
    BY GoesNowhere DEF Flags
  <2>3. Agree(d, d)
    BY DEF Agree
  <2> QED BY <1>0, <2>1, <2>2, <2>3
<1> QED BY <1>1, <1>2

LEMMA WriteSettlesGoesOn ==
  ASSUME IInv, Founded, NEW w \in Worker, NEW j \in Job, WriteSettles(w, j)
  PROVE  GoesOn(mem[w], mem'[w], {})
<1> DEFINE m == mem[w]
           d == DropHead(m, j)
           answer == m.chain[j][1].answer
           told == IF answer = "lost" THEN Lose(d, {j}) ELSE d
           n == CheckIdle(told)
<1>1. /\ Calm(m) /\ m \in Memory /\ m.chain[j] # <<>> /\ TypeOK
      /\ m.chain[j][1].op # "create" /\ Chained(m, j)
  <2>1. Calm(m) /\ m \in Memory /\ Chained(m, j) /\ TypeOK
    BY CalmMemory DEF IInv, Calm, WorkerInv, JobInv
  <2>2. m.chain[j] # <<>> /\ Head(m.chain[j]).op \in {"save", "remove"}
    BY DEF WriteSettles, Answered
  <2>3. m.chain[j] \in Seq(Write)
    BY <2>1 DEF Memory
  <2> HIDE DEF m
  <2> QED BY <2>1, <2>2, <2>3
<1>2. Becomes(w, n)
  BY DEF WriteSettles
<1>3. mem'[w] = n
  BY <1>1, <1>2, BecomesIt
<1>0. answer = m.chain[j][1].answer
  OBVIOUS
<1> HIDE DEF m, answer
<1>4. GoesOn(m, d, {}) /\ d \in Memory /\ d.ent = m.ent /\ Calm(d)
  BY <1>1, DropGoesOn DEF GoesOn
<1> HIDE DEF d
<1>5. told \in Memory /\ GoesOn(d, told, {})
  BY <1>0, <1>1, <1>4, ToldGoesOn
<1> HIDE DEF told
<1>6. GoesOn(told, n, {})
  BY <1>5, TellGoesOn
<1> HIDE DEF n
<1>7. GoesOn(m, n, {})
  BY <1>4, <1>5, <1>6, GoesOnTransitive, GoesOnMore
<1> QED BY <1>3, <1>7 DEF m

LEMMA CreateSettlesGoesOn ==
  ASSUME IInv, Founded, NEW w \in Worker, NEW j \in Job, CreateSettles(w, j),
         Head(mem[w].chain[j]).answer = "ok"
  PROVE  /\ GoesOn(mem[w], mem'[w], {j})
         /\ mem'[w].ent[j].durability = "stored" /\ mem[w].ent[j].durability = "pending"
         /\ mem'[w].ent[j].cancelRequested = mem[w].ent[j].cancelRequested
         /\ \/ mem'[w].ent[j].state = mem[w].ent[j].state
            \/ mem[w].ent[j].state = "queued" /\ mem'[w].ent[j].state = "running"
         /\ mem[w].paused => Rests(mem[w], mem'[w], j)
         /\ j \in mem'[w].deciding <=> j \in mem[w].deciding
         /\ mem[w].chain[j] # <<>> /\ mem[w].chain[j][1].op = "create"
         /\ mem[w].chain[j][1].answer = "ok"
<1> DEFINE m == mem[w]
           d == DropHead(m, j)
           e == [d.ent[j] EXCEPT !.durability = "stored"]
           stored == [d EXCEPT !.ent = [d.ent EXCEPT ![j] = e]]
           n == Pump(stored)
<1>1. /\ Calm(m) /\ m \in Memory /\ m.chain[j] # <<>> /\ TypeOK
      /\ m.chain[j][1].op = "create" /\ m.chain[j][1].answer = "ok" /\ Chained(m, j)
  <2>1. Calm(m) /\ m \in Memory /\ Chained(m, j) /\ TypeOK
    BY CalmMemory DEF IInv, Calm, WorkerInv, JobInv
  <2>2. m.chain[j] # <<>> /\ Head(m.chain[j]).op = "create" /\ Head(m.chain[j]).answer = "ok"
    BY DEF CreateSettles, Answered
  <2>3. m.chain[j] \in Seq(Write)
    BY <2>1 DEF Memory
  <2> HIDE DEF m
  <2> QED BY <2>1, <2>2, <2>3
<1>2. m.ent[j].durability = "pending"
  <2>1. 1 \in 1..Len(m.chain[j])
    <3>1. m.chain[j] \in Seq(Write)
      BY <1>1 DEF Memory
    <3> HIDE DEF m
    <3> QED BY <1>1, <3>1, EmptySeq
  <2> QED BY <1>1, <2>1 DEF Chained, ChainShape
<1>3. Becomes(w, Pump([d EXCEPT !.ent[j].durability = "stored"]))
  BY DEF CreateSettles
<1> HIDE DEF m
<1>4. GoesOn(m, d, {}) /\ d \in Memory /\ d.ent = m.ent /\ Calm(d) /\ d.starting = m.starting
      /\ d.deciding = m.deciding
  BY <1>1, DropGoesOn DEF GoesOn
<1> HIDE DEF d
<1>5. mem'[w] = n
  <2>1. stored = [d EXCEPT !.ent[j].durability = "stored"]
    BY <1>4 DEF Memory
  <2> HIDE DEF stored
  <2> QED BY <1>1, <1>3, <2>1, BecomesIt
<1>6. /\ e \in Entry /\ e.state = m.ent[j].state /\ e.durability = "stored"
      /\ e.cancelRequested = m.ent[j].cancelRequested
  <2>1. d.ent[j] \in Entry
    BY <1>4 DEF Memory
  <2> QED BY <1>4, <2>1 DEF Entry
<1> HIDE DEF e
<1>7. /\ GoesOn(d, stored, {j}) /\ stored.ent[j] = e /\ stored.deciding = d.deciding
      /\ stored.starting = d.starting /\ Calm(stored)
  BY <1>4, <1>6, EntryGoesOn
<1> HIDE DEF stored
<1>8. GoesOn(stored, n, {}) /\ GoesOn(d, n, {j})
  BY <1>7, ThenPumps
<1> HIDE DEF n
<1>9. GoesOn(m, n, {j})
  BY <1>4, <1>8, GoesOnTransitive, GoesOnMore
<1>10. Steps(stored, n, j) /\ (stored.paused => Rests(stored, n, j)) /\ stored.paused = m.paused
  BY <1>4, <1>7, <1>8 DEF GoesOn, Flags
<1>11. /\ n.ent[j].durability = "stored"
       /\ n.ent[j].cancelRequested = m.ent[j].cancelRequested
       /\ \/ n.ent[j].state = m.ent[j].state
          \/ m.ent[j].state = "queued" /\ n.ent[j].state = "running"
       /\ m.paused => Rests(m, n, j)
       /\ j \in n.deciding <=> j \in m.deciding
  BY <1>4, <1>6, <1>7, <1>10 DEF Steps, Rests
<1> QED BY <1>1, <1>2, <1>5, <1>9, <1>11 DEF m

LEMMA AcquireSettlesGoesOn ==
  ASSUME IInv, Founded, NEW w \in Worker, NEW j \in Job, AcquireSettles(w, j)
  PROVE  GoesOn(mem[w], mem'[w], {})
<1> DEFINE m == mem[w]
           answer == Head(m.chain[j]).answer
           d == DropHead(m, j)
           told == IF answer = "lost" THEN Lose(d, {j}) ELSE d
           freed == [told EXCEPT !.starting = @ \ {j}, !.busy = @ \ {LaneOf[j]}]
           waits == [freed EXCEPT !.ent[j].waiting = TRUE]
           claimed == RunClaimed(freed, j)
           back == Push(waits, j)
<1>1. /\ Calm(m) /\ m \in Memory /\ m.chain[j] # <<>> /\ m.chain[j][1].op = "acquire"
      /\ answer = m.chain[j][1].answer /\ JobInv(w, m, row, j) /\ TypeOK
  <2>1. Calm(m) /\ m \in Memory /\ JobInv(w, m, row, j) /\ TypeOK
    BY CalmMemory DEF IInv, Calm, WorkerInv
  <2>2. m.chain[j] # <<>> /\ Head(m.chain[j]).op = "acquire"
    BY ZenonT(30) DEF AcquireSettles, Answered
  <2>3. m.chain[j] \in Seq(Write)
    BY <2>1 DEF Memory
  <2> HIDE DEF m
  <2> QED BY <2>1, <2>2, <2>3
<1>2. \/ Becomes(w, Pump(freed))
      \/ ~Ended(freed, j) /\ Becomes(w, claimed)
      \/ ~Ended(freed, j) /\ Becomes(w, Pump(back))
  BY ZenonT(30) DEF AcquireSettles, Ended
<1> HIDE DEF m, answer
<1>3. j \in m.starting
  <2>1. m.chain[j] \in Seq(Write)
    BY <1>1 DEF Memory
  <2>2. 1 \in 1..Len(m.chain[j])
    BY <1>1, <2>1, EmptySeq
  <2> QED BY <1>1, <2>2 DEF JobInv, Chained, ChainShape
<1>4. /\ GoesOn(m, d, {}) /\ d \in Memory /\ d.ent = m.ent /\ Calm(d)
      /\ d.starting = m.starting
  BY <1>1, DropGoesOn DEF GoesOn, JobInv
<1> HIDE DEF d
<1>5. told \in Memory /\ GoesOn(d, told, {}) /\ Calm(told) /\ Agree(d, told)
  <2>1. m.chain[j][1].op # "create"
    BY <1>1
  <2> QED BY <1>1, <1>4, <2>1, ToldGoesOn DEF JobInv
<1> HIDE DEF told
<1>6. /\ freed \in Memory /\ freed.ent = told.ent /\ freed.queue = told.queue
      /\ GoesOn(told, freed, {})
  <2>1. /\ freed \in Memory /\ freed.ent = told.ent /\ freed.chain = told.chain
        /\ freed.queue = told.queue /\ Flags(told, freed)
        /\ freed.deciding = told.deciding /\ freed.starting = told.starting \ {j}
    BY <1>5 DEF Memory, Flags
  <2> HIDE DEF freed
  <2> QED BY <2>1, GoesNowhere
<1> HIDE DEF freed
<1>7. GoesOn(m, freed, {}) /\ Calm(freed)
  <2>1. GoesOn(m, told, {})
    BY <1>4, <1>5, GoesOnTransitive, GoesOnMore
  <2> QED BY <1>5, <1>6, <2>1, GoesOnTransitive, GoesOnMore DEF Calm
<1>8. ASSUME ~Ended(freed, j)
      PROVE  freed.ent[j] \in Entry /\ freed.ent[j].state = "queued" /\ freed.ent[j] = m.ent[j]
  <2>1. freed.ent[j] = m.ent[j]
    BY <1>4, <1>5, <1>6 DEF Agree
  <2> QED BY <1>1, <1>3, <1>8, <2>1 DEF JobInv, Placed, Ended, Memory
<1>9. CASE Becomes(w, Pump(freed))
  <2>1. GoesOn(m, Pump(freed), {})
    BY <1>7, ThenPumps
  <2>2. mem'[w] = Pump(freed)
    BY <1>1, <1>9, BecomesIt
  <2> QED BY <2>1, <2>2 DEF m
<1>10. CASE ~Ended(freed, j) /\ Becomes(w, claimed)
  <2> DEFINE e == Running(freed.ent[j])
  <2>1. /\ e.state = "running" /\ e.durability = freed.ent[j].durability
        /\ e.cancelRequested = freed.ent[j].cancelRequested
    BY <1>8, <1>10 DEF Running, Entry
  <2>2. claimed \in Memory
    BY <1>6, RunClaimedType
  <2>3. /\ claimed.chain = freed.chain /\ claimed.starting = freed.starting
        /\ claimed.deciding = freed.deciding /\ Flags(freed, claimed)
        /\ \A k \in Job : claimed.ent[k] = IF k = j THEN e ELSE freed.ent[k]
    <3>1. claimed = [freed EXCEPT !.ent = [freed.ent EXCEPT ![j] = e],
                                  !.active = freed.active \cup {j},
                                  !.busy = freed.busy \cup LanesOf({j})]
      BY <1>6 DEF RunClaimed, Memory
    <3> HIDE DEF claimed, e
    <3> QED BY <1>6, <3>1 DEF Memory, Flags
  <2> HIDE DEF claimed, e
  <2>4. \A k \in Job : Heads(m, claimed, k)
    BY <1>7, <2>3 DEF GoesOn, Heads
  <2>5. ASSUME NEW k \in Job
        PROVE  Steps(m, claimed, k) /\ (m.paused => Rests(m, claimed, k))
    <3>1. Steps(m, freed, k) /\ (m.paused => Rests(m, freed, k))
      BY <1>7 DEF GoesOn
    <3> QED BY <1>3, <1>8, <1>10, <2>1, <2>3, <3>1 DEF Steps, Rests
  <2>6. GoesOn(m, claimed, {})
    BY <1>7, <2>2, <2>3, <2>4, <2>5 DEF GoesOn, Flags
  <2>7. mem'[w] = claimed
    BY <1>1, <1>10, BecomesIt
  <2> QED BY <2>6, <2>7 DEF m
<1>11. CASE ~Ended(freed, j) /\ Becomes(w, Pump(back))
  <2> DEFINE e == [freed.ent[j] EXCEPT !.waiting = TRUE]
             x == [freed EXCEPT !.ent = [freed.ent EXCEPT ![j] = e]]
  <2>1. /\ e \in Entry /\ e.state = freed.ent[j].state /\ e.state = "queued"
        /\ e.durability = freed.ent[j].durability
        /\ e.cancelRequested = freed.ent[j].cancelRequested
    BY <1>8, <1>11 DEF Entry
  <2>2. waits = x
    BY <1>6 DEF Memory
  <2> HIDE DEF e, waits
  <2>3. GoesOn(freed, x, {}) /\ x.ent[j] = e /\ Calm(x) /\ x \in Memory
    BY <1>6, <1>7, <2>1, EntryGoesOn DEF GoesOn
  <2> HIDE DEF x
  <2>4. back = Push(x, j)
    BY <2>2
  <2>5. GoesOn(x, back, {}) /\ back.ent = x.ent /\ back.queue = x.queue \cup {j}
    BY <2>3, <2>4, PushGoesOn, PushFields
  <2> HIDE DEF back
  <2>6. Calm(back) /\ GoesOn(m, back, {})
    <3>1. GoesOn(m, x, {})
      BY <1>7, <2>3, GoesOnTransitive, GoesOnMore
    <3>2. GoesOn(m, back, {})
      BY <2>5, <3>1, GoesOnTransitive, GoesOnMore
    <3> QED BY <2>1, <2>3, <2>5, <3>2 DEF Calm, GoesOn
  <2>7. GoesOn(m, Pump(back), {})
    BY <2>6, ThenPumps
  <2>8. mem'[w] = Pump(back)
    BY <1>1, <1>11, BecomesIt
  <2> QED BY <2>7, <2>8 DEF m
<1> QED BY <1>2, <1>9, <1>10, <1>11

-----------------------------------------------------------------------------
(* The heartbeat.                                                          *)

LEMMA BeatGoesOn ==
  ASSUME NEW m \in Memory, NEW b \in Beats, NEW x \in Beat
  PROVE  LET n == [m EXCEPT !.beats = [m.beats EXCEPT ![b] = x]]
         IN GoesOn(m, n, {}) /\ n.paused = m.paused /\ (Calm(m) => Calm(n))
<1> DEFINE n == [m EXCEPT !.beats = [m.beats EXCEPT ![b] = x]]
<1>1. /\ n \in Memory /\ n.ent = m.ent /\ n.chain = m.chain /\ n.queue = m.queue
      /\ n.deciding = m.deciding /\ n.starting = m.starting /\ Flags(m, n)
  BY BeatField DEF Memory, Flags
<1> HIDE DEF n
<1>2. GoesOn(m, n, {})
  BY <1>1, GoesNowhere
<1> QED BY <1>1, <1>2 DEF Calm, Flags, n

LEMMA EndBeatGoesOn ==
  ASSUME NEW m, Calm(m), NEW b \in Beats
  PROVE  GoesOn(m, EndBeat(m, b), {})
<1> DEFINE n == [m EXCEPT !.beats = [m.beats EXCEPT ![b] = NoBeat]]
           armed == ScheduleHeartbeat(n)
<1>1. m \in Memory /\ NoBeat \in Beat
  BY EmptyTypes DEF NoBeat, Calm
<1>2. EndBeat(m, b) = Pump(armed)
  BY <1>1 DEF EndBeat, Memory
<1>3. GoesOn(m, n, {}) /\ Calm(n) /\ n \in Memory
  BY <1>1, BeatGoesOn DEF Calm
<1> HIDE DEF n
<1>4. GoesOn(n, armed, {}) /\ Calm(armed)
  BY <1>3, TellGoesOn, ScheduleHeartbeatType, ScheduleHeartbeatAgrees DEF Agree, Calm
<1> HIDE DEF armed
<1>5. GoesOn(m, armed, {})
  BY <1>3, <1>4, GoesOnTransitive, GoesOnMore
<1> QED BY <1>2, <1>4, <1>5, ThenPumps

LEMMA AskToAdoptGoesOn ==
  ASSUME NEW m, Calm(m), NEW b \in Beats
  PROVE  GoesOn(m, AskToAdopt(m, b), {})
<1> DEFINE x == [NoBeat EXCEPT !.phase = "adopting"]
           n == [m EXCEPT !.beats = [m.beats EXCEPT ![b] = x]]
<1>1. m \in Memory
  BY DEF Calm
<1>2. x \in Beat
  BY DEF NoBeat, NoClaims, Beat, Claims
<1>3. AskToAdopt(m, b) = IF m.paused \/ m.closed THEN EndBeat(m, b) ELSE n
  BY <1>1 DEF AskToAdopt, Memory
<1> HIDE DEF x
<1>4. GoesOn(m, n, {})
  BY <1>1, <1>2, BeatGoesOn
<1> HIDE DEF n
<1> QED BY <1>3, <1>4, EndBeatGoesOn

LEMMA BeatStartsGoesOn ==
  ASSUME IInv, Founded, NEW w \in Worker, NEW b \in Beats, BeatStarts(w, b)
  PROVE  GoesOn(mem[w], mem'[w], {})
<1> DEFINE m == mem[w]
           fired == [m EXCEPT !.timer = FALSE]
           x == [NoBeat EXCEPT !.phase = "renewing", !.ids = Held(fired)]
           renews == [fired EXCEPT !.beats = [fired.beats EXCEPT ![b] = x]]
           n == IF Held(fired) = {} THEN AskToAdopt(fired, b) ELSE renews
<1>1. Calm(m) /\ m \in Memory /\ TypeOK
  BY CalmMemory DEF IInv, Calm
<1>2. fired \in Memory /\ Calm(fired) /\ GoesOn(m, fired, {})
  <2> HIDE DEF m
  <2>1. /\ fired \in Memory /\ fired.ent = m.ent /\ fired.chain = m.chain
        /\ fired.deciding = m.deciding /\ fired.starting = m.starting /\ Flags(m, fired)
        /\ fired.queue = m.queue
    BY <1>1 DEF Memory, Flags
  <2> HIDE DEF fired
  <2>2. GoesOn(m, fired, {})
    BY <2>1, GoesNowhere
  <2> QED BY <1>1, <2>1, <2>2 DEF Calm
<1>3. Becomes(w, n)
  <2>1. renews = [fired EXCEPT !.beats[b] = x]
    BY <1>2 DEF Memory
  <2> HIDE DEF renews
  <2> QED BY <2>1 DEF BeatStarts
<1>4. x \in Beat
  <2>1. NoBeat \in Beat
    BY EmptyTypes DEF NoBeat
  <2>2. Held(fired) \in SUBSET Job
    BY DEF Held
  <2> QED BY <2>1, <2>2 DEF Beat
<1>5. mem'[w] = n
  BY <1>1, <1>3, BecomesIt
<1> HIDE DEF m, fired, x
<1>6. GoesOn(fired, AskToAdopt(fired, b), {}) /\ GoesOn(fired, renews, {})
  BY <1>2, <1>4, AskToAdoptGoesOn, BeatGoesOn
<1>7. GoesOn(fired, n, {})
  <2> HIDE DEF renews
  <2> QED BY <1>6
<1> HIDE DEF n
<1>8. GoesOn(m, n, {})
  BY <1>2, <1>7, GoesOnTransitive, GoesOnMore
<1> QED BY <1>5, <1>8 DEF m

LEMMA RenewedGoesOn ==
  ASSUME IInv, Founded, NEW w \in Worker, NEW b \in Beats, Renewed(w, b)
  PROVE  GoesOn(mem[w], mem'[w], {})
<1> DEFINE m == mem[w]
           S == m.beats[b].ids
           told == Lose(m, S)
           n == AskToAdopt(told, b)
<1>1. Calm(m) /\ m \in Memory /\ TypeOK /\ WorkerInv(w, m, row)
      /\ m.beats[b].phase = "renewed"
  BY CalmMemory DEF IInv, Calm, Renewed
<1>2. Becomes(w, n)
  BY DEF Renewed
<1>3. mem'[w] = n
  BY <1>1, <1>2, BecomesIt
<1>4. S \in SUBSET Job
  BY <1>1 DEF Memory, Beat
<1> HIDE DEF m
<1>5. \A k \in S : m.ent[k].state \notin {"queued", "running"}
  <2> TAKE k \in S
  <2>1. k \in Job
    BY <1>4
  <2>2. Ended(m, k)
    BY <1>1, <2>1 DEF WorkerInv, JobInv, Pending
  <2> QED BY <2>2 DEF Ended, Terminal
<1> HIDE DEF S
<1>6. told \in Memory /\ Agree(m, told) /\ GoesOn(m, told, {})
  BY <1>1, <1>4, <1>5, LoseGoesOn
<1> HIDE DEF told
<1>7. Calm(told)
  BY <1>1, <1>6 DEF Calm, Agree
<1>8. GoesOn(told, n, {})
  BY <1>7, AskToAdoptGoesOn
<1> HIDE DEF n
<1>9. GoesOn(m, n, {})
  BY <1>6, <1>8, GoesOnTransitive, GoesOnMore
<1> QED BY <1>3, <1>9 DEF m

LEMMA ExecutesGoesOn ==
  ASSUME IInv, Founded, NEW w \in Worker, NEW b \in Beats,
         RenewExecutes(w, b) \/ AdoptExecutes(w, b)
  PROVE  GoesOn(mem[w], mem'[w], {})
<1> DEFINE m == mem[w]
<1>1. m \in Memory /\ TypeOK
  BY CalmMemory DEF IInv, Calm
<1>2. m.beats[b] \in Beat
  BY <1>1 DEF Memory
<1>3. \E x \in Beat : Becomes(w, [m EXCEPT !.beats[b] = x])
  <2>1. CASE RenewExecutes(w, b)
    <3> DEFINE S == RenewLost(row, w, m.beats[b].ids)
               x == [m.beats[b] EXCEPT !.phase = "renewed", !.ids = S]
    <3>1. Becomes(w, [m EXCEPT !.beats[b] = x])
      BY <2>1 DEF RenewExecutes
    <3>2. S \in SUBSET Job
      BY <1>2 DEF RenewLost, Beat
    <3> HIDE DEF m, S
    <3>3. x \in Beat
      BY <1>2, <3>2 DEF Beat
    <3> HIDE DEF x
    <3> QED BY <3>1, <3>3
  <2>2. CASE AdoptExecutes(w, b)
    <3>1. PICK S \in AdoptionBatches(row, w) :
            Becomes(w, [m EXCEPT !.beats[b] =
                         [@ EXCEPT !.phase = "adopted", !.got = ClaimsOf(S)]])
      BY <2>2 DEF AdoptExecutes
    <3> DEFINE c == ClaimsOf(S)
               x == [m.beats[b] EXCEPT !.phase = "adopted", !.got = c]
    <3>2. Becomes(w, [m EXCEPT !.beats[b] = x])
      BY <3>1
    <3>3. c \in Claims
      <4>1. S \in SUBSET Job
        BY DEF AdoptionBatches, Abandoned, Outstanding
      <4> QED BY <1>1, <4>1, ClaimsOfType DEF TypeOK
    <3> HIDE DEF m, c
    <3>4. x \in Beat
      BY <1>2, <3>3 DEF Beat
    <3> HIDE DEF x
    <3> QED BY <3>2, <3>4
  <2> QED BY <2>1, <2>2
<1>4. PICK x \in Beat : Becomes(w, [m EXCEPT !.beats[b] = x])
  BY <1>3
<1> DEFINE n == [m EXCEPT !.beats = [m.beats EXCEPT ![b] = x]]
<1> HIDE DEF m
<1>5. mem'[w] = n
  <2>1. n = [m EXCEPT !.beats[b] = x]
    BY <1>1 DEF Memory
  <2> QED BY <1>1, <1>4, <2>1, BecomesIt
<1>6. GoesOn(m, n, {})
  BY <1>1, BeatGoesOn
<1> HIDE DEF n
<1> QED BY <1>5, <1>6 DEF m

(* A create finds no row, and is answered `ok`.                            *)
LEMMA StoreExecutesGoesOn ==
  ASSUME IInv, Founded, NEW w \in Worker, NEW j \in Job, StoreExecutes(w, j)
  PROVE  GoesOn(mem[w], mem'[w], {})
<1> DEFINE m == mem[w]
           c == m.chain[j]
           x == Head(c)
           a == Answer(w, j, x)
           n == AnswerHead(m, j, a)
           d == n.chain[j]
<1>1. TypeOK /\ m \in Memory /\ c # <<>> /\ x.answer = "none"
  BY CalmMemory DEF IInv, Calm, StoreExecutes, Asked
<1>2. a \in {"none", "ok", "held", "lost", "error"}
  BY DEF Answer
<1>3. mem'[w] = n
  <2>1. Becomes(w, n)
    BY DEF StoreExecutes
  <2> QED BY <1>1, <2>1, BecomesIt
<1>4. c \in Seq(Write) /\ Len(c) \in Nat /\ 1 \in 1..Len(c) /\ x = c[1] /\ x \in Write
  <2>1. c \in Seq(Write)
    BY <1>1 DEF Memory
  <2> HIDE DEF c
  <2> QED BY <1>1, <2>1, EmptySeq
<1>5. x.op = "create" => a = "ok"
  <2>1. x.op = "create" => row[j].state = "absent"
    BY <1>1, <1>4 DEF Founded, Creating
  <2> HIDE DEF x
  <2> QED BY <2>1 DEF Answer, Writable
<1>6. n \in Memory
  BY <1>1, <1>2, AnswerHeadType
<1> HIDE DEF a
<1>7. /\ d = [c EXCEPT ![1].answer = a]
      /\ \A k \in Job : k # j => n.chain[k] = m.chain[k]
      /\ n.ent = m.ent /\ n.deciding = m.deciding /\ n.starting = m.starting /\ Flags(m, n)
  <2> HIDE DEF m
  <2> QED BY <1>1 DEF AnswerHead, Memory, Flags
<1> HIDE DEF n, x, m
<1>8. d[1].op = x.op /\ d[1].answer = a
  <2> HIDE DEF c, d
  <2> QED BY <1>4, <1>7 DEF Write
<1>9. \A k \in Job : Heads(m, n, k)
  BY <1>5, <1>7, <1>8 DEF Heads
<1>10. \A k \in Job : Steps(m, n, k) /\ Rests(m, n, k)
  BY <1>7 DEF Steps, Rests
<1>11. GoesOn(m, n, {})
  BY <1>6, <1>7, <1>9, <1>10 DEF GoesOn
<1> QED BY <1>3, <1>11 DEF m

(* What no scheduler asks for, while no call fails.                        *)
LEMMA QueueOwnGoesOn ==
  ASSUME IInv, Founded, NEW w \in Worker, used'["error"] = 0,
         \/ \E j \in Job : \/ StoreExecutes(w, j) \/ StoreFails(w, j)
                           \/ WriteSettles(w, j) \/ AcquireSettles(w, j) \/ Wake(w, j)
         \/ \E b \in Beats : \/ BeatStarts(w, b) \/ RenewExecutes(w, b) \/ Renewed(w, b)
                             \/ AdoptExecutes(w, b) \/ BeatFails(w, b)
  PROVE  GoesOn(mem[w], mem'[w], {})
<1>1. \A j \in Job : ~StoreFails(w, j)
  BY SpentError DEF StoreFails, IInv, TypeOK
<1>2. \A b \in Beats : ~BeatFails(w, b)
  BY SpentError DEF BeatFails, IInv, TypeOK
<1> QED BY <1>1, <1>2, StoreExecutesGoesOn, WriteSettlesGoesOn, AcquireSettlesGoesOn, WakeGoesOn,
        BeatStartsGoesOn, ExecutesGoesOn, RenewedGoesOn

-----------------------------------------------------------------------------
(* Jobs come in.                                                           *)

(* The jobs taken up wait, or run where the queue is not held.             *)
TakenUp(m, n, k) ==
  /\ n.ent[k].durability = "stored" /\ ~n.ent[k].cancelRequested
  /\ n.ent[k].state = "queued" \/ n.ent[k].state = "running"
  /\ m.paused => n.ent[k].state = "queued" /\ k \notin n.starting

LEMMA RestoreGoesOn ==
  ASSUME NEW m, Calm(m), NEW claims \in Claims, NEW age,
         age \subseteq NewClaims(m, claims) \X NewClaims(m, claims),
         \A k \in Job : k \in m.starting => Known(m, k)
  PROVE  LET n == RestoreAll(m, claims, age)
             S == NewClaims(m, claims)
         IN /\ GoesOn(m, n, S) /\ Calm(n) /\ S \subseteq Job
            /\ \A k \in S : TakenUp(m, n, k)
<1> DEFINE S == NewClaims(m, claims)
           fresh(j) == [state |-> "queued", attempt |-> claims.attempt[j],
                        waiting |-> claims.backoff[j], backoff |-> claims.backoff[j],
                        durability |-> "stored", cancelRequested |-> FALSE]
           ent == [j \in Job |-> IF j \in S THEN fresh(j) ELSE m.ent[j]]
           later == { j \in S : \E i \in S : <<i, j>> \in age }
           admitted == [m EXCEPT !.ent = ent, !.queue = @ \cup S,
                                 !.ahead = @ \cup (m.queue \X S) \cup age]
           order == { p \in ByPriority(admitted) : p[1] \notin later /\ p[2] \notin later }
                      \cup { p \in admitted.ahead : p[2] \in later }
           n == CheckIdle(ScheduleHeartbeat(Start(admitted, Taken(admitted, order))))
<1>1. m \in Memory
  BY DEF Calm
<1>2. S \in SUBSET Job /\ \A k \in S : k \notin m.starting
  BY DEF NewClaims, Claims
<1>3. ent \in [Job -> Entry]
  <2>1. ASSUME NEW j \in Job PROVE fresh(j) \in Entry /\ m.ent[j] \in Entry
    BY <1>1 DEF Entry, Claims, Memory
  <2> QED BY <2>1
<1>4. \A j \in Job : IF j \in S
                     THEN /\ ent[j].state = "queued" /\ ent[j].durability = "stored"
                          /\ ~ent[j].cancelRequested
                     ELSE ent[j] = m.ent[j]
  OBVIOUS
<1>5. RestoreAll(m, claims, age) = IF S = {} THEN m ELSE n
  BY DEF RestoreAll
<1>6. admitted \in Memory
  <2> HIDE DEF ent, S
  <2>1. age \subseteq S \X S
    BY DEF S
  <2>2. m.queue \in SUBSET Job /\ m.ahead \in SUBSET (Job \X Job)
    BY <1>1 DEF Memory
  <2> DEFINE q == m.queue \cup S
             a == m.ahead \cup (m.queue \X S) \cup age
  <2>3. q \in SUBSET Job /\ a \in SUBSET (Job \X Job)
    BY <1>2, <2>1, <2>2
  <2>4. admitted = [m EXCEPT !.ent = ent, !.queue = q, !.ahead = a]
    OBVIOUS
  <2> HIDE DEF q, a, admitted
  <2> QED BY <1>1, <1>3, <2>3, <2>4, QueueFields
<1>7. /\ admitted.ent = ent /\ admitted.chain = m.chain /\ admitted.queue = m.queue \cup S
      /\ admitted.deciding = m.deciding /\ admitted.starting = m.starting
      /\ Flags(m, admitted)
  <2> HIDE DEF ent, S
  <2> QED BY <1>1 DEF Memory, Flags
<1> HIDE DEF ent, S, admitted, order
<1>8. Calm(admitted)
  <2>1. m.queue \subseteq Job
    BY <1>1 DEF Memory
  <2> QED BY <1>2, <1>4, <1>6, <1>7, <2>1 DEF Calm
<1>9. GoesOn(m, admitted, S)
  BY <1>4, <1>6, <1>7, GoesQuietly
<1>10. GoesOn(admitted, n, {})
  BY <1>8, StartedGoesOn
<1>11. Calm(n)
  <2>1. Taken(admitted, order) \in SUBSET Eligible(admitted)
    BY DEF Taken
  <2> QED BY <1>8, <2>1, StartedCalm
<1> HIDE DEF n
<1>12. GoesOn(m, n, S)
  BY <1>9, <1>10, GoesOnTransitive, GoesOnMore
<1>13. ASSUME NEW k \in S
       PROVE  TakenUp(m, n, k)
  <2>1. /\ k \in Job /\ admitted.paused = m.paused
        /\ Steps(admitted, n, k) /\ (admitted.paused => Rests(admitted, n, k))
    BY <1>2, <1>7, <1>10 DEF GoesOn, Flags
  <2>2. /\ admitted.ent[k].state = "queued" /\ admitted.ent[k].durability = "stored"
        /\ ~admitted.ent[k].cancelRequested
    BY <1>4, <1>7, <2>1
  <2>3. m.paused => n.ent[k].state = "queued" /\ k \notin n.starting
    BY <1>2, <1>7, <2>1, <2>2 DEF Rests
  <2> QED BY <1>7, <2>1, <2>2, <2>3 DEF Steps, Rests, TakenUp
<1>14. GoesOn(m, m, {}) /\ GoesOn(m, m, S)
  BY <1>1, GoesNowhere, GoesOnMore DEF Flags
<1> QED BY <1>2, <1>5, <1>11, <1>12, <1>13, <1>14 DEF S

LEMMA TakenUpOn ==
  ASSUME NEW m, NEW n, NEW p, NEW X, NEW k \in Job, TakenUp(m, n, k), n.paused = m.paused,
         GoesOn(n, p, {})
  PROVE  TakenUp(m, p, k)
<1>1. Steps(n, p, k) /\ (n.paused => Rests(n, p, k))
  BY DEF GoesOn
<1> QED BY <1>1 DEF TakenUp, Steps, Rests

LEMMA AdoptedGoesOn ==
  ASSUME IInv, Founded, NEW w \in Worker, NEW b \in Beats, Adopted(w, b)
  PROVE  LET S == NewClaims(mem[w], mem[w].beats[b].got)
         IN /\ S \subseteq Job /\ GoesOn(mem[w], mem'[w], S)
            /\ \A k \in S : TakenUp(mem[w], mem'[w], k)
<1> DEFINE m == mem[w]
           got == m.beats[b].got
           S == NewClaims(m, got)
<1>1. Calm(m) /\ m \in Memory /\ TypeOK /\ WorkerInv(w, m, row)
  BY CalmMemory DEF IInv, Calm
<1>2. PICK age \in AgeOrders(S) : Becomes(w, EndBeat(RestoreAll(m, got, age), b))
  BY DEF Adopted
<1>3. got \in Claims /\ age \subseteq S \X S
  BY <1>1 DEF Memory, Beat, AgeOrders
<1>4. \A k \in Job : k \in m.starting => Known(m, k)
  BY <1>1 DEF WorkerInv, JobInv, Placed, Known
<1> DEFINE r == RestoreAll(m, got, age)
           n == EndBeat(r, b)
<1>5. mem'[w] = n
  BY <1>1, <1>2, BecomesIt
<1> HIDE DEF m, got
<1>6. GoesOn(m, r, S) /\ Calm(r) /\ S \subseteq Job /\ \A k \in S : TakenUp(m, r, k)
  BY <1>1, <1>3, <1>4, RestoreGoesOn
<1> HIDE DEF r, S
<1>7. GoesOn(r, n, {})
  BY <1>6, EndBeatGoesOn
<1> HIDE DEF n
<1>8. GoesOn(m, n, S)
  BY <1>6, <1>7, GoesOnTransitive, GoesOnMore
<1>9. r.paused = m.paused
  BY <1>6 DEF GoesOn, Flags
<1>10. \A k \in S : TakenUp(m, n, k)
  BY <1>6, <1>7, <1>9, TakenUpOn
<1> QED BY <1>5, <1>6, <1>8, <1>10 DEF m, S, got

(* As GoesOn, but for a recovery that moves on.                            *)
Passes(m, n, X) ==
  /\ n \in Memory /\ n.up = m.up /\ (m.closed => n.closed) /\ (m.paused => n.paused)
  /\ \A k \in Job : Heads(m, n, k)
  /\ \A k \in Job \ X : Steps(m, n, k) /\ (m.paused => Rests(m, n, k))

LEMMA GoesOnPasses ==
  ASSUME NEW m, NEW n, NEW X, GoesOn(m, n, X)
  PROVE  Passes(m, n, X)
BY DEF GoesOn, Passes, Flags

LEMMA RecoveredPasses ==
  ASSUME IInv, Founded, NEW w \in Worker, Recovered(w)
  PROVE  LET S == NewClaims(mem[w], mem[w].loaded)
         IN /\ S \subseteq Job /\ Passes(mem[w], mem'[w], S)
            /\ \A k \in S : TakenUp(mem[w], mem'[w], k)
            /\ mem[w].loading = "answered" /\ mem[w].paused /\ mem'[w].loading = "no"
            /\ mem'[w].paused /\ mem'[w].closed = mem[w].closed
<1> DEFINE m == mem[w]
           c == [m EXCEPT !.loading = "no", !.loaded = NoClaims]
           got == m.loaded
           S == NewClaims(c, got)
<1>1. Calm(m) /\ m \in Memory /\ TypeOK /\ WorkerInv(w, m, row) /\ m.loading = "answered"
      /\ m.paused
  <2>1. Calm(m) /\ m \in Memory /\ TypeOK /\ WorkerInv(w, m, row) /\ m.loading = "answered"
    BY CalmMemory DEF IInv, Calm, Recovered
  <2> QED BY <2>1 DEF WorkerInv
<1>2. PICK age \in AgeOrders(S) : Becomes(w, ScheduleHeartbeat(RestoreAll(c, got, age)))
  BY DEF Recovered
<1>3. got \in Claims /\ age \subseteq S \X S
  BY <1>1 DEF Memory, AgeOrders
<1>4. \A k \in Job : k \in m.starting => Known(m, k)
  BY <1>1 DEF WorkerInv, JobInv, Placed, Known
<1> DEFINE r == RestoreAll(c, got, age)
           n == ScheduleHeartbeat(r)
<1>5. mem'[w] = n
  BY <1>1, <1>2, BecomesIt
<1> HIDE DEF m
<1>6. /\ c \in Memory /\ c.chain = m.chain /\ c.queue = m.queue /\ c.ent = m.ent
      /\ c.up = m.up /\ c.loading = "no" /\ c.paused = m.paused /\ c.closed = m.closed
      /\ c.deciding = m.deciding /\ c.starting = m.starting
  <2>1. NoClaims \in Claims
    BY EmptyTypes DEF NoClaims
  <2> QED BY <1>1, <2>1 DEF Memory
<1>7. S = NewClaims(m, got)
  BY <1>6 DEF NewClaims, Known
<1> HIDE DEF c, got
<1>8. Calm(c) /\ \A k \in Job : k \in c.starting => Known(c, k)
  BY <1>1, <1>4, <1>6 DEF Calm, Known
<1>9. GoesOn(c, r, S) /\ Calm(r) /\ S \subseteq Job /\ \A k \in S : TakenUp(c, r, k)
  BY <1>3, <1>8, RestoreGoesOn
<1> HIDE DEF r, S
<1>10. GoesOn(r, n, {})
  BY <1>9, TellGoesOn DEF Calm
<1> HIDE DEF n
<1>11. GoesOn(c, n, S)
  BY <1>9, <1>10, GoesOnTransitive, GoesOnMore
<1>12. r.paused = c.paused
  BY <1>9 DEF GoesOn, Flags
<1>13. \A k \in S : TakenUp(c, n, k)
  BY <1>9, <1>10, <1>12, TakenUpOn
<1>14. \A k \in S : TakenUp(m, n, k)
  BY <1>6, <1>13 DEF TakenUp
<1>15. Passes(m, n, S) /\ n.loading = "no" /\ n.paused /\ n.closed = m.closed
  BY <1>1, <1>6, <1>11 DEF GoesOn, Passes, Flags, Heads, Steps, Rests
<1> QED BY <1>1, <1>5, <1>7, <1>9, <1>14, <1>15 DEF m, got

LEMMA LoadPasses ==
  ASSUME IInv, Founded, NEW w \in Worker, LoadExecutes(w)
  PROVE  /\ Passes(mem[w], mem'[w], {})
         /\ mem[w].loading = "asked" /\ mem'[w].loading = "answered"
         /\ mem'[w].paused = mem[w].paused /\ mem'[w].closed = mem[w].closed
         /\ mem'[w].ent = mem[w].ent
<1>0. PICK S \in LoadBatches(row, w) :
        Becomes(w, [mem[w] EXCEPT !.loading = "answered", !.loaded = ClaimsOf(S)])
  BY DEF LoadExecutes
<1> DEFINE m == mem[w]
           claims == ClaimsOf(S)
           n == [m EXCEPT !.loading = "answered", !.loaded = claims]
<1>1. m \in Memory /\ TypeOK /\ m.loading = "asked" /\ Becomes(w, n)
  BY <1>0, CalmMemory DEF IInv, Calm, LoadExecutes
<1>2. mem'[w] = n
  BY <1>1, BecomesIt
<1>3. claims \in Claims
  <2>1. S \in SUBSET Job
    BY DEF LoadBatches, Loadable, Outstanding
  <2> QED BY <1>1, <2>1, ClaimsOfType DEF TypeOK
<1> HIDE DEF m, claims
<1>4. /\ n \in Memory /\ n.chain = m.chain /\ n.ent = m.ent /\ n.up = m.up
      /\ n.loading = "answered" /\ n.paused = m.paused /\ n.closed = m.closed
      /\ n.deciding = m.deciding /\ n.starting = m.starting
  BY <1>1, <1>3 DEF Memory
<1> HIDE DEF n
<1>5. Passes(m, n, {})
  BY <1>4 DEF Passes, Heads, Steps, Rests
<1> QED BY <1>1, <1>2, <1>4, <1>5 DEF m

LEMMA ResumeSteps ==
  ASSUME IInv, Founded, NEW w \in Worker, Resume(w)
  PROVE  /\ mem'[w] \in Memory /\ mem'[w].up = mem[w].up /\ mem'[w].closed = mem[w].closed
         /\ mem'[w].loading = "no" /\ mem[w].loading = "no" /\ mem[w].paused
         /\ \A k \in Job : Heads(mem[w], mem'[w], k) /\ Steps(mem[w], mem'[w], k)
<1> DEFINE m == mem[w]
           r == [m EXCEPT !.paused = FALSE]
           n == Pump(r)
<1>1. Calm(m) /\ m \in Memory /\ TypeOK /\ m.loading = "no" /\ m.paused /\ Becomes(w, n)
  BY CalmMemory DEF IInv, Calm, Resume
<1>2. mem'[w] = n
  BY <1>1, BecomesIt
<1> HIDE DEF m
<1>3. /\ r \in Memory /\ r.ent = m.ent /\ r.chain = m.chain /\ r.queue = m.queue
      /\ r.deciding = m.deciding /\ r.up = m.up /\ r.closed = m.closed /\ r.loading = m.loading
  BY <1>1 DEF Memory
<1> HIDE DEF r
<1>4. GoesOn(r, n, {})
  <2>1. Calm(r)
    BY <1>1, <1>3 DEF Calm
  <2> QED BY <2>1, PumpGoesOn
<1> HIDE DEF n
<1>5. /\ n \in Memory /\ n.up = m.up /\ n.closed = m.closed /\ n.loading = "no"
      /\ \A k \in Job : Heads(m, n, k) /\ Steps(m, n, k)
  BY <1>1, <1>3, <1>4 DEF GoesOn, Flags, Heads, Steps
<1> QED BY <1>1, <1>2, <1>5 DEF m

(* A new job is neither eligible nor asked about.                          *)
LEMMA EnqueueGoesOn ==
  ASSUME Mode = "leased", IInv, Founded, NEW w \in Worker, NEW j \in Job, Enqueue(w, j)
  PROVE  /\ GoesOn(mem[w], mem'[w], {j}) /\ ~Known(mem[w], j)
         /\ mem'[w].ent[j].state = "queued" /\ mem'[w].ent[j].durability = "pending"
         /\ ~mem'[w].ent[j].cancelRequested
         /\ j \notin mem[w].starting
         /\ mem[w].paused => j \notin mem'[w].starting
<1> DEFINE m == mem[w]
           e == [Unknown EXCEPT !.state = "queued", !.durability = "pending"]
           f == [m EXCEPT !.ent = [m.ent EXCEPT ![j] = e]]
           S == {j}
           created == Persist(f, S, "create")
           d == Push(created, j)
           n == Pump(d)
<1>1. /\ Calm(m) /\ m \in Memory /\ WorkerInv(w, m, row) /\ TypeOK /\ ~Known(m, j)
  BY CalmMemory DEF IInv, Calm, Enqueue
<1>2. e \in Entry /\ e.state = "queued" /\ e.durability = "pending" /\ ~e.cancelRequested
  BY DEF Unknown, Entry
<1>3. Becomes(w, n)
  <2>1. f = [m EXCEPT !.ent[j] = e]
    BY <1>1 DEF Memory
  <2>2. e = [Unknown EXCEPT !.state = "queued",
                            !.durability = IF Mode = "memory" THEN "none" ELSE "pending"]
    OBVIOUS
  <2> HIDE DEF e, f
  <2> QED BY <2>1, <2>2 DEF Enqueue
<1>4. mem'[w] = n
  BY <1>1, <1>3, BecomesIt
<1>5. j \notin m.starting
  BY <1>1 DEF WorkerInv, JobInv, Placed, Known
<1>6. S \in SUBSET Job
  OBVIOUS
<1> HIDE DEF m, e, S
<1>7. GoesOn(m, f, {j}) /\ f.ent[j] = e /\ f.starting = m.starting /\ f.queue = m.queue
      /\ f \in Memory
  <2>1. /\ GoesOn(m, f, {j})
        /\ f.ent[j] = e /\ f.deciding = m.deciding /\ f.starting = m.starting
        /\ f.queue = m.queue
    BY <1>1, <1>2, EntryGoesOn
  <2> HIDE DEF f
  <2> QED BY <2>1 DEF GoesOn
<1>8. \A k \in Job : k # j => f.ent[k] = m.ent[k]
  BY <1>1 DEF Memory
<1> HIDE DEF f
<1>9. /\ GoesOn(f, created, {}) /\ created.ent = f.ent /\ created.starting = f.starting
      /\ created.queue = f.queue /\ created \in Memory
  BY <1>6, <1>7, PersistGoesOn, PersistFields DEF Persisted, GoesOn
<1> HIDE DEF created
<1>10. /\ GoesOn(created, d, {}) /\ d.ent = created.ent /\ d.starting = created.starting
       /\ d.queue = created.queue \cup {j} /\ d \in Memory
  BY <1>9, PushGoesOn, PushFields DEF GoesOn
<1> HIDE DEF d
<1>11. Calm(d) /\ j \notin Eligible(d)
  <2>1. m.queue \subseteq Job
    BY <1>1 DEF Memory
  <2> QED BY <1>1, <1>2, <1>7, <1>8, <1>9, <1>10, <2>1 DEF Calm, Eligible
<1>12. /\ GoesOn(d, n, {}) /\ n.ent[j].state = d.ent[j].state
       /\ n.starting \cap {j} \subseteq d.starting
  BY <1>11, PumpGoesOn, PumpSkips
<1> HIDE DEF n
<1>13. GoesOn(m, n, {j})
  <2>1. GoesOn(m, created, {j})
    BY <1>7, <1>9, GoesOnTransitive, GoesOnMore
  <2>2. GoesOn(m, d, {j})
    BY <1>10, <2>1, GoesOnTransitive, GoesOnMore
  <2> QED BY <1>12, <2>2, GoesOnTransitive, GoesOnMore
<1>14. Steps(d, n, j)
  BY <1>12 DEF GoesOn
<1> QED BY <1>1, <1>2, <1>4, <1>5, <1>7, <1>9, <1>10, <1>12, <1>13, <1>14 DEF m, Steps

(* close cancels what waits and signals what runs.                         *)
LEMMA CloseSettles ==
  ASSUME IInv, Founded, NEW w \in Worker, Close(w)
  PROVE  LET m == mem[w]
             n == mem'[w]
         IN /\ n \in Memory /\ m.up /\ n.up /\ n.closed /\ m.loading = "no" /\ n.loading = "no"
            /\ \A k \in Job :
                 /\ Heads(m, n, k)
                 /\ n.ent[k].durability = m.ent[k].durability
                 /\ k \in n.deciding <=> k \in m.deciding
                 /\ \/ n.ent[k].state = m.ent[k].state
                    \/ m.ent[k].state = "queued" /\ n.ent[k].state = "cancelled"
                 /\ n.ent[k].cancelRequested = (k \in m.active \/ m.ent[k].cancelRequested)
<1> DEFINE m == mem[w]
           waiting == m.queue \cup { j \in m.starting : m.ent[j].state = "queued" }
           ent == [j \in Job |-> IF j \in m.active
                                 THEN [m.ent[j] EXCEPT !.cancelRequested = TRUE]
                                 ELSE m.ent[j]]
           shut == [m EXCEPT !.closed = TRUE, !.paused = TRUE, !.timer = FALSE,
                             !.ent = ent]
           state == "cancelled"
           p == Pull(shut, waiting)
           settled == Settle(p, waiting, state)
           told == IF waiting = {} THEN settled ELSE CheckIdle(settled)
           n == [told EXCEPT !.close = Awaited(told)]
<1>1. Calm(m) /\ m \in Memory /\ TypeOK /\ m.loading = "no" /\ m.up
  BY CalmMemory DEF IInv, Calm, Close
<1>2. mem'[w] = n
  <2>1. Becomes(w, n)
    BY DEF Close
  <2> QED BY <1>1, <2>1, BecomesIt
<1>3. waiting \in SUBSET Job /\ \A j \in waiting : m.ent[j].state = "queued"
  BY <1>1 DEF Calm, Memory
<1>4. \A j \in Job : /\ ent[j] \in Entry /\ ent[j].state = m.ent[j].state
                     /\ ent[j].durability = m.ent[j].durability
                     /\ ent[j].cancelRequested = (j \in m.active \/ m.ent[j].cancelRequested)
  <2> TAKE j \in Job
  <2>1. m.ent[j] \in Entry
    BY <1>1 DEF Memory
  <2> QED BY <2>1 DEF Entry
<1>5. ent \in [Job -> Entry]
  BY <1>4
<1> HIDE DEF ent, waiting, m
<1>6. /\ shut \in Memory /\ shut.ent = ent /\ shut.chain = m.chain
      /\ shut.deciding = m.deciding /\ shut.up = m.up /\ shut.loading = m.loading /\ shut.closed
  BY <1>1, <1>5 DEF Memory
<1> HIDE DEF shut
<1>7. state \in Terminal
  BY DEF Terminal
<1>8. /\ p \in Memory /\ p.ent = ent /\ p.chain = m.chain /\ p.deciding = m.deciding
      /\ p.up = m.up /\ p.loading = m.loading /\ p.closed
  <2>1. p \in Memory /\ Flags(shut, p)
    BY <1>3, <1>6, PullGoesOn DEF GoesOn
  <2> QED BY <1>3, <1>6, <2>1, PullFields DEF Flags
<1> HIDE DEF p
<1>9. settled \in Memory /\ SettlesTo(p, settled, waiting, state) /\ GoesOn(p, settled, waiting)
      /\ \A j \in waiting : /\ settled.ent[j].state = state
                            /\ settled.ent[j].durability = p.ent[j].durability
                            /\ settled.ent[j].cancelRequested = p.ent[j].cancelRequested
  BY <1>3, <1>7, <1>8, SettleGoesOn, SettleType, SettleFields
<1> HIDE DEF settled
<1>10. n \in Memory /\ Agree(settled, n) /\ n.closed = settled.closed
  BY <1>9, CloseAgrees
<1> HIDE DEF n
<1>11. /\ n.ent = settled.ent /\ n.deciding = m.deciding /\ n.up = m.up
       /\ n.loading = m.loading /\ n.closed /\ n \in Memory
  BY <1>8, <1>9, <1>10 DEF Agree, AgreeAround, GoesOn, Flags, SettlesTo
<1>12. ASSUME NEW k \in Job
       PROVE  /\ Heads(m, n, k)
              /\ n.ent[k].durability = m.ent[k].durability
              /\ k \in n.deciding <=> k \in m.deciding
              /\ \/ n.ent[k].state = m.ent[k].state
                 \/ m.ent[k].state = "queued" /\ n.ent[k].state = "cancelled"
              /\ n.ent[k].cancelRequested = (k \in m.active \/ m.ent[k].cancelRequested)
  <2>1. Heads(p, n, k)
    BY <1>9, <1>10 DEF GoesOn, Agree, Heads
  <2>2. Heads(m, n, k)
    BY <1>8, <2>1 DEF Heads
  <2>3. CASE k \in waiting
    BY <1>3, <1>4, <1>8, <1>9, <1>11, <2>2, <2>3 DEF state
  <2>4. CASE k \notin waiting
    <3>1. settled.ent[k] = p.ent[k]
      BY <1>9, <2>4 DEF SettlesTo
    <3> QED BY <1>4, <1>8, <1>11, <2>2, <3>1
  <2> QED BY <2>3, <2>4
<1> QED BY <1>1, <1>2, <1>11, <1>12 DEF m

=============================================================================

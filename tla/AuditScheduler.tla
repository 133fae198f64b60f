--------------------------- MODULE AuditScheduler ---------------------------
(***************************************************************************)
(* packages/scheduler: the audit rows of the database kept true to the     *)
(* queue beneath them.  AuditScheduler (scheduler.ts) submits, cancels,    *)
(* retries, recovers and sweeps; runAudit (run-audit.ts) is the handler.   *)
(*                                                                         *)
(* The queue is JobQueue, step for step.  What is added is the `audits`    *)
(* row of each job and, per process, the code that is between two awaits   *)
(* about it.  Every write of the row is its own step, because it is its    *)
(* own round trip: the queue, a cancellation, another worker or a crash    *)
(* may come between any two.  startApi's order (recover, then reconcile,   *)
(* and close only after both) is the one the steps follow.                 *)
(***************************************************************************)
EXTENDS JobQueue

VARIABLES
  audit,   \* the audits table
  duty,    \* what each process's scheduler code is in the middle of
  raced    \* audits hit by one of the races the code leaves open

auditVars == <<vars, audit, duty, raced>>

Open == {"pending", "running"}

(* The columns of a row the steps read or write; `none` is no row yet.     *)
AuditRow == [ status : {"none", "complete", "failed", "cancelled"} \cup Open,
              error  : BOOLEAN ]

(* submit: the row is in; the store is asked; the refusal is being written.*)
(* A run: which of runAudit's awaits it is at, then #decideRetry's.        *)
Submitting == {"no", "inserted", "storing", "refusing"}
Stage == {"idle", "starting", "working", "completing", "failing", "cancelling",
          "returned", "threw", "asked", "reopening", "reopened", "unopened"}
Sweep == {"due", "asking", "reading", "writing", "done", "skipped"}

Duty ==
  [ submit  : [Job -> Submitting],
    stage   : [Job -> Stage],
    reason  : [Job -> {"none", "cancel", "lost"}],  \* signal.reason
    closing : SUBSET Job,        \* cancel's writes of `cancelled`
    resets  : SUBSET Job,        \* #adopted's writes, which nobody awaits
    reopen  : SUBSET Job,        \* the rows recover puts back to pending
    known   : BOOLEAN,           \* #cutoff has been read
    cutoff  : SUBSET Job,        \* the audits created before it
    sweep   : Sweep,             \* reconcile
    live    : SUBSET Job,
    orphans : SUBSET Job ]

NoDuty ==
  [ submit |-> [j \in Job |-> "no"], stage |-> [j \in Job |-> "idle"],
    reason |-> [j \in Job |-> "none"], closing |-> {}, resets |-> {},
    reopen |-> {}, known |-> TRUE, cutoff |-> {}, sweep |-> "done",
    live |-> {}, orphans |-> {} ]

JustBooted == [NoDuty EXCEPT !.known = FALSE, !.sweep = "due"]

-----------------------------------------------------------------------------
(* What a step of the queue means for the code above it.                   *)

(* A handler that is called begins, unless its signal has already fired:   *)
(* runAudit looks before its first await.  One that threw leaves its job   *)
(* to the policy; a job the queue has put down is nobody's.                *)
Begins(e) == IF LeaseLost(e) \/ e.cancelRequested THEN "threw" ELSE "starting"

Attend(d, m) ==
  [d EXCEPT
    !.stage = [j \in Job |->
      CASE j \in m.active /\ @[j] \in {"idle", "reopened"} -> Begins(m.ent[j])
        [] j \in m.active /\ @[j] \notin {"idle", "reopened"} -> @[j]
        [] j \in m.deciding -> IF @[j] = "threw" THEN "asked" ELSE @[j]
        [] OTHER -> "idle"],
    !.reason = [j \in Job |->
      CASE j \notin m.active -> "none"
        [] j \in m.active /\ @[j] # "none" -> @[j]
        [] OTHER -> IF LeaseLost(m.ent[j]) THEN "lost"
                    ELSE IF m.ent[j].cancelRequested THEN "cancel" ELSE "none"]]

(* The process goes on with d after whatever its queue has just done.      *)
Carries(w, d) == duty' = [duty EXCEPT ![w] = Attend(d, mem'[w])]
Follows(w, d) == Carries(w, d) /\ UNCHANGED raced

(* A step above the queue: the rest of the process does not move.          *)
Moves(w, d) ==
  /\ mem[w].up
  /\ duty' = [duty EXCEPT ![w] = d]
  /\ UNCHANGED <<row, mem, submitted, lapsed>>

Does(w, d) == Moves(w, d) /\ UNCHANGED raced

(* A race the code leaves open has happened to the audits S.               *)
Races(S) == raced' = raced \cup S

AtStage(w, j, stage) == [duty[w] EXCEPT !.stage[j] = stage]

Marked(S, status, error) ==
  [j \in Job |-> IF j \in S THEN [status |-> status, error |-> error] ELSE audit[j]]

(* `set` without an error column leaves the one that is there.             *)
MarkedKeepingError(S, status) ==
  [j \in Job |-> IF j \in S THEN [audit[j] EXCEPT !.status = status] ELSE audit[j]]

(* An update fails, having changed nothing or everything.                  *)
Breaks(written) == Spend("error") /\ audit' \in {audit, written}

-----------------------------------------------------------------------------
(* submit                                                                  *)

SubmitInserts(w, j) ==
  /\ ~mem[w].closed
  /\ audit[j].status = "none"
  /\ audit' = Marked({j}, "pending", FALSE)
  /\ Does(w, [duty[w] EXCEPT !.submit[j] = "inserted"])
  /\ UNCHANGED used

SubmitEnqueues(w, j) ==
  /\ duty[w].submit[j] = "inserted"
  /\ Enqueue(w, j)
  /\ Follows(w, [duty[w] EXCEPT !.submit[j] = "storing"])
  /\ UNCHANGED audit

(* handle.stored settles with the create.                                  *)
SubmitStored(w, j) ==
  /\ CreateSettles(w, j)
  /\ Follows(w, [duty[w] EXCEPT !.submit[j] =
                  IF Head(mem[w].chain[j]).answer = "ok" THEN "no" ELSE "refusing"])
  /\ UNCHANGED audit

SubmitRefused(w, j) ==
  LET closed == Marked({j}, "failed", TRUE)
  IN /\ duty[w].submit[j] = "refusing"
     /\ Does(w, [duty[w] EXCEPT !.submit[j] = "no"])
     /\ \/ audit' = closed /\ UNCHANGED used
        \/ Breaks(closed)

(* Mutant: the row of a job that never started is left to its handler.     *)
CancelQuietly(w, j) ==
  /\ CancelQueued(w, j)
  /\ Follows(w, duty[w])
  /\ UNCHANGED audit

(* cancel: a job that never started has nobody else to close its row.      *)
CancelWaiting(w, j) ==
  /\ CancelQueued(w, j)
  /\ Follows(w, [duty[w] EXCEPT !.closing = @ \cup {j}])
  /\ UNCHANGED audit

(* The queue calls a job whose retry is being decided running, so nothing  *)
(* is written here and #decideRetry has reopened, or will reopen, its row. *)
CancelStarted(w, j) ==
  /\ CancelRunning(w, j)
  /\ Carries(w, duty[w])
  /\ Races(IF duty[w].stage[j] \in {"reopening", "reopened"} THEN {j} ELSE {})
  /\ UNCHANGED audit

CancelWrites(w, j) ==
  LET closed == MarkedKeepingError({j}, "cancelled")
  IN /\ j \in duty[w].closing
     /\ Does(w, [duty[w] EXCEPT !.closing = @ \ {j}])
     /\ \/ audit' = closed /\ UNCHANGED used
        \/ Breaks(closed)

-----------------------------------------------------------------------------
(* runAudit                                                                *)

(* The first write is outside the try: its failure is the run's.           *)
RunStarts(w, j) ==
  LET begun == Marked({j}, "running", FALSE)
  IN /\ duty[w].stage[j] = "starting"
     /\ \/ audit' = begun /\ Does(w, AtStage(w, j, "working")) /\ UNCHANGED used
        \/ Breaks(begun) /\ Does(w, AtStage(w, j, "threw"))

(* Mutant: a run whose lease is gone writes its verdict all the same.      *)
CatchAnything(w, j) == AtStage(w, j, "failing")

(* The catch: a lost lease is thrown on without a word about the row.      *)
Catch(w, j) ==
  AtStage(w, j, IF duty[w].reason[j] = "lost" THEN "threw" ELSE "failing")

(* stopIfCancelled, or the crawl between two requests.                     *)
RunStops(w, j) ==
  /\ duty[w].stage[j] = "working"
  /\ duty[w].reason[j] # "none"
  /\ Does(w, IF duty[w].reason[j] = "cancel" THEN AtStage(w, j, "cancelling")
             ELSE Catch(w, j))
  /\ UNCHANGED <<audit, used>>

(* Anything from the corpus to the grade throws.                           *)
RunFails(w, j) ==
  /\ duty[w].stage[j] = "working"
  /\ Does(w, Catch(w, j))
  /\ UNCHANGED <<audit, used>>

(* The last look at the signal.  Nothing stops recordGrade and the row's   *)
(* last update after it, which are one stage here.                         *)
RunGraded(w, j) ==
  /\ duty[w].stage[j] = "working"
  /\ duty[w].reason[j] = "none"
  /\ Does(w, AtStage(w, j, "completing"))
  /\ UNCHANGED <<audit, used>>

(* Mutant: a word the column does not know.                                *)
VerdictMisspelt(j, stage) ==
  CASE stage = "completing" -> Marked({j}, "complete", FALSE)
    [] stage = "failing"    -> Marked({j}, "failed", TRUE)
    [] stage = "cancelling" -> Marked({j}, "canceled", FALSE)

(* What each of the last three writes of a run says.                       *)
Verdict(j, stage) ==
  CASE stage = "completing" -> Marked({j}, "complete", FALSE)
    [] stage = "failing"    -> Marked({j}, "failed", TRUE)
    [] stage = "cancelling" -> Marked({j}, "cancelled", FALSE)

RunEnds(w, j) ==
  LET stage == duty[w].stage[j]
      said == Verdict(j, stage)
  IN /\ stage \in {"completing", "failing", "cancelling"}
     /\ \/ /\ audit' = said
           /\ Does(w, AtStage(w, j, IF stage = "completing" THEN "returned" ELSE "threw"))
           /\ UNCHANGED used
        \/ /\ Breaks(said)
           /\ Does(w, IF stage = "completing" THEN Catch(w, j) ELSE AtStage(w, j, "threw"))

RunReturned(w, j) ==
  /\ duty[w].stage[j] = "returned"
  /\ HandlerReturns(w, j)
  /\ Follows(w, duty[w])
  /\ UNCHANGED audit

RunThrew(w, j) ==
  /\ duty[w].stage[j] = "threw"
  /\ HandlerThrows(w, j)
  /\ Follows(w, duty[w])
  /\ UNCHANGED audit

-----------------------------------------------------------------------------
(* #decideRetry: the policy answers, and a retry reopens the row first.    *)

DecideRetry(w, j) ==
  /\ duty[w].stage[j] = "asked"
  /\ mem[w].ent[j].attempt < MaxAttempts
  /\ Moves(w, AtStage(w, j, "reopening"))
  /\ Races(IF mem[w].ent[j].cancelRequested THEN {j} ELSE {})
  /\ UNCHANGED <<audit, used>>

RetryReopens(w, j) ==
  LET reopened == MarkedKeepingError({j}, "pending")
  IN /\ duty[w].stage[j] = "reopening"
     /\ \/ audit' = reopened /\ Does(w, AtStage(w, j, "reopened")) /\ UNCHANGED used
        \/ Breaks(reopened) /\ Does(w, AtStage(w, j, "unopened"))

(* A delay only once the row is reopened, and then never null.             *)
RetryDecided(w, j) ==
  /\ duty[w].stage[j] \in {"asked", "reopened", "unopened"}
  /\ PolicyAnswers(w, j)
  /\ IF duty[w].stage[j] = "reopened" THEN mem'[w].ent[j].state # "failed"
     ELSE mem'[w].ent[j].state # "queued"
  /\ Follows(w, duty[w])
  /\ UNCHANGED audit

-----------------------------------------------------------------------------
(* recover                                                                 *)

Boots(w) ==
  /\ Boot(w)
  /\ duty' = [duty EXCEPT ![w] = JustBooted]
  /\ UNCHANGED <<audit, raced>>

(* `select now()`: which audits are older than this process.               *)
CutoffRead(w) ==
  /\ mem[w].loading = "asked"
  /\ ~duty[w].known
  /\ Does(w, [duty[w] EXCEPT !.known = TRUE,
                             !.cutoff = { j \in Job : audit[j].status # "none" }])
  /\ UNCHANGED <<audit, used>>

Loads(w) ==
  /\ duty[w].known
  /\ LoadExecutes(w)
  /\ Follows(w, duty[w])
  /\ UNCHANGED audit

(* recover rejects, and startApi never gets to the sweep.                  *)
RecoverFails(w) ==
  /\ LoadFails(w)
  /\ Follows(w, [duty[w] EXCEPT !.sweep = "skipped"])
  /\ UNCHANGED audit

(* Mutant: the rows of the audits taken back are left as they were.        *)
RestoresJobsOnly(w) ==
  /\ Recovered(w)
  /\ Follows(w, duty[w])
  /\ UNCHANGED audit

Restores(w) ==
  /\ Recovered(w)
  /\ Follows(w, [duty[w] EXCEPT !.reopen = NewClaims(mem[w], mem[w].loaded)])
  /\ UNCHANGED audit

(* A client may have cancelled one of them meanwhile: the server listens.  *)
RecoverReopens(w) ==
  LET reopened == MarkedKeepingError(duty[w].reopen, "pending")
      through == [duty[w] EXCEPT !.reopen = {}]
  IN /\ duty[w].reopen # {}
     /\ Races({ j \in duty[w].reopen : mem[w].ent[j].state \in {"cancelled", "failed"} })
     /\ \/ audit' = reopened /\ Moves(w, through) /\ UNCHANGED used
        \/ Breaks(reopened) /\ Moves(w, [through EXCEPT !.sweep = "skipped"])

(* Mutant: the queue is let go before the rows are reset.                  *)
ResumesAtOnce(w) ==
  /\ Resume(w)
  /\ Follows(w, IF duty[w].sweep # "due" THEN duty[w]
                ELSE [duty[w] EXCEPT !.sweep = "asking",
                       !.live = { j \in Job : mem'[w].ent[j].state \in {"queued", "running"} }])
  /\ UNCHANGED audit

(* The finally, and startApi's next line: reconcile up to its first await. *)
Resumes(w) ==
  /\ duty[w].reopen = {}
  /\ Resume(w)
  /\ Follows(w, IF duty[w].sweep # "due" THEN duty[w]
                ELSE [duty[w] EXCEPT !.sweep = "asking",
                       !.live = { j \in Job : mem'[w].ent[j].state \in {"queued", "running"} }])
  /\ UNCHANGED audit

-----------------------------------------------------------------------------
(* reconcile                                                               *)

(* An audit older than the cutoff whose job has not reached the store yet  *)
(* is nobody's in this answer.                                             *)
SweepAsks(w) ==
  /\ duty[w].sweep = "asking"
  /\ Moves(w, [duty[w] EXCEPT !.sweep = "reading", !.live = @ \cup Outstanding(row)])
  /\ Races({ j \in duty[w].cutoff \ (duty[w].live \cup Outstanding(row)) :
               \E v \in Worker : duty[v].submit[j] \in {"inserted", "storing"} })
  /\ UNCHANGED <<audit, used>>

(* Mutant: only this process's own jobs are alive.                         *)
OrphansHere(w) ==
  { j \in duty[w].cutoff : /\ audit[j].status \in Open
                           /\ mem[w].ent[j].state \notin {"queued", "running"} }

Orphans(w) == { j \in duty[w].cutoff \ duty[w].live : audit[j].status \in Open }

SweepReads(w) ==
  /\ duty[w].sweep = "reading"
  /\ Does(w, [duty[w] EXCEPT !.sweep = IF Orphans(w) = {} THEN "done" ELSE "writing",
                             !.orphans = Orphans(w), !.live = {}])
  /\ UNCHANGED <<audit, used>>

SweepWrites(w) ==
  LET closed == Marked(duty[w].orphans, "failed", TRUE)
      over == [duty[w] EXCEPT !.sweep = "done", !.orphans = {}]
  IN /\ duty[w].sweep = "writing"
     /\ \/ audit' = closed /\ Does(w, over) /\ UNCHANGED used
        \/ Breaks(closed) /\ Does(w, [over EXCEPT !.sweep = "skipped"])

(* outstanding or the select throws: startApi logs it and goes on.         *)
SweepFails(w) ==
  /\ duty[w].sweep \in {"asking", "reading"}
  /\ Spend("error")
  /\ Does(w, [duty[w] EXCEPT !.sweep = "skipped", !.live = {}])
  /\ UNCHANGED audit

-----------------------------------------------------------------------------
(* Another worker's audit taken over.                                      *)

AdoptedHere(w, b) ==
  /\ Adopted(w, b)
  /\ Follows(w, [duty[w] EXCEPT !.resets =
                  @ \cup NewClaims(mem[w], mem[w].beats[b].got)])
  /\ UNCHANGED audit

(* By then the adopted run may have written the row itself, or be over.    *)
AdoptionResets(w, j) ==
  LET reset == MarkedKeepingError({j}, "pending")
      late == ~(mem[w].ent[j].state = "queued" \/ duty[w].stage[j] = "starting")
  IN /\ j \in duty[w].resets
     /\ Moves(w, [duty[w] EXCEPT !.resets = @ \ {j}])
     /\ Races(IF late THEN {j} ELSE {})
     /\ \/ audit' = reset /\ UNCHANGED used
        \/ Breaks(reset)

(* startApi.close: the server has answered every request, the sweep is in. *)
Closes(w) ==
  /\ \A j \in Job : duty[w].submit[j] = "no"
  /\ duty[w].closing = {}
  /\ duty[w].sweep \in {"done", "skipped"}
  /\ Close(w)
  /\ Follows(w, duty[w])
  /\ UNCHANGED audit

Crashes(w) ==
  /\ Crash(w)
  /\ duty' = [duty EXCEPT ![w] = NoDuty]
  /\ UNCHANGED <<audit, raced>>

(* The steps of the queue the scheduler only sees the result of.           *)
QueueOwnSteps(w) ==
  /\ \/ \E j \in Job : \/ StoreExecutes(w, j) \/ StoreFails(w, j)
                       \/ WriteSettles(w, j) \/ AcquireSettles(w, j) \/ Wake(w, j)
     \/ \E b \in Beats : \/ BeatStarts(w, b) \/ RenewExecutes(w, b) \/ Renewed(w, b)
                         \/ AdoptExecutes(w, b) \/ BeatFails(w, b)
  /\ Follows(w, duty[w])
  /\ UNCHANGED audit

TimePasses ==
  /\ \E j \in Job : LeaseAges(j) \/ LeaseLapses(j)
  /\ UNCHANGED <<audit, duty, raced>>

-----------------------------------------------------------------------------
AuditInit ==
  /\ Init
  /\ audit = [j \in Job |-> [status |-> "none", error |-> FALSE]]
  /\ duty = [w \in Worker |-> NoDuty]
  /\ raced = {}

RunSteps(w, j) ==
  \/ RunStarts(w, j) \/ RunStops(w, j) \/ RunFails(w, j) \/ RunGraded(w, j)
  \/ RunEnds(w, j) \/ RunReturned(w, j) \/ RunThrew(w, j)
  \/ DecideRetry(w, j) \/ RetryReopens(w, j) \/ RetryDecided(w, j)

AuditNext ==
  \/ \E w \in Worker, j \in Job :
       \/ SubmitInserts(w, j) \/ SubmitEnqueues(w, j) \/ SubmitStored(w, j)
       \/ SubmitRefused(w, j)
       \/ CancelWaiting(w, j) \/ CancelStarted(w, j) \/ CancelWrites(w, j)
       \/ RunSteps(w, j)
       \/ AdoptionResets(w, j)
  \/ \E w \in Worker, b \in Beats : AdoptedHere(w, b)
  \/ \E w \in Worker :
       \/ Boots(w) \/ CutoffRead(w) \/ Loads(w) \/ RecoverFails(w)
       \/ Restores(w) \/ RecoverReopens(w) \/ Resumes(w)
       \/ SweepAsks(w) \/ SweepReads(w) \/ SweepWrites(w) \/ SweepFails(w)
       \/ Closes(w) \/ Crashes(w)
       \/ QueueOwnSteps(w)
  \/ TimePasses

AuditSpec == AuditInit /\ [][AuditNext]_auditVars

-----------------------------------------------------------------------------
(* Properties.                                                             *)

AuditTypeOK ==
  /\ audit \in [Job -> AuditRow]
  /\ duty \in [Worker -> Duty]

(* No write has failed, and every worker has kept its claims in time.      *)
Undisturbed == used["error"] = 0 /\ used["lapse"] = 0

(* Nothing of w's is on its way to the row of a job it has settled.        *)
Settled(w, j) ==
  /\ mem[w].up /\ ~mem[w].closed
  /\ mem[w].ent[j].state \in Terminal
  /\ duty[w].submit[j] = "no" /\ j \notin duty[w].closing

(* "Every audit row eventually reaches a state that is true": what the     *)
(* queue settled a job as is what its row says, through every retry,       *)
(* cancellation, recovery and sweep.  A cancellation that comes too late   *)
(* may leave the run's own verdict.                                        *)
VerdictTold ==
  \A w \in Worker, j \in Job \ raced :
    (Settled(w, j) /\ Undisturbed) =>
      CASE mem[w].ent[j].state = "complete" -> audit[j] = [status |-> "complete", error |-> FALSE]
        [] mem[w].ent[j].state = "failed"   -> audit[j] = [status |-> "failed", error |-> TRUE]
        [] OTHER -> audit[j].status \notin Open

(* A process that is up, has recovered and has nothing to write about j.   *)
Quiet(w, j) ==
  /\ mem[w].up /\ ~mem[w].closed
  /\ duty[w].sweep = "done"
  /\ j \notin duty[w].reopen \cup duty[w].resets \cup duty[w].closing
  /\ duty[w].submit[j] = "no"

(* No audit waits for an answer that is not coming: when every process is  *)
(* up and has swept, an open row has an unfinished job behind it.          *)
OpenIsQueued ==
  \A j \in Job \ raced :
    ( /\ audit[j].status \in Open
      /\ Undisturbed
      /\ \A w \in Worker : Quiet(w, j) )
      => \E w \in Worker : ~Unaware(mem[w], j) \/ j \in mem[w].active \cup mem[w].deciding

(* ... and one that says `running` is being run, not only waiting to be.   *)
RunningIsRun ==
  \A j \in Job \ raced :
    ( /\ audit[j].status = "running"
      /\ Undisturbed
      /\ \A w \in Worker : Quiet(w, j) /\ mem[w].loading = "no" )
      => \E w \in Worker : j \in mem[w].active \/ \E b \in Beats : mem[w].beats[b].phase = "adopted"

(* A verdict of a run is replaced by a later run's or taken back for one,  *)
(* never by a sweep that read the row before it landed.                    *)
SweepSparesVerdicts ==
  [][\A j \in Job \ raced' :
       (Undisturbed /\ audit[j].status = "complete" /\ audit'[j].status = "failed")
         => \E w \in Worker : duty[w].stage[j] = "failing"]_auditVars

(* A run that is told its lease is gone stands down: it does not begin, go *)
(* on to record a grade, or close the row as failed or cancelled, and what *)
(* was to follow a grade that failed does not.  What it was writing at     *)
(* that moment, `complete` as well as any other word, it still writes.     *)
SupersededStops ==
  [][\A w \in Worker, j \in Job :
       ( /\ mem[w].up /\ mem'[w].up /\ LeaseLost(mem[w].ent[j])
         /\ ~mem[w].ent[j].cancelRequested /\ duty'[w].stage[j] # duty[w].stage[j] )
         => duty'[w].stage[j] \notin {"starting", "completing", "failing", "cancelling"}]_auditVars

=============================================================================

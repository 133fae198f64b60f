------------------------------ MODULE AuditInv ------------------------------
(***************************************************************************)
(* The invariants behind AuditScheduler's properties: what the code above  *)
(* a queue is in the middle of, against what that queue says of its jobs.  *)
(***************************************************************************)
EXTENDS AuditScheduler, JobQueueInv, JobQueueTidy

(* Where a run, and #decideRetry, can be while the queue waits for them.   *)
Handling == {"starting", "working", "completing", "failing", "cancelling",
             "returned", "threw"}
Deciding == {"asked", "reopening", "reopened", "unopened"}

(* There is a run exactly for an active job, a decision exactly for one    *)
(* the policy is asked about; what a run's signal says is so, and a run    *)
(* whose lease is gone has been told before anything else.                 *)
AttendedTo(d, m) ==
  \A j \in Job :
    /\ d.stage[j] \in Handling <=> j \in m.active
    /\ d.stage[j] \in Deciding <=> j \in m.deciding
    /\ d.reason[j] # "none" => j \in m.active
    /\ d.reason[j] = "cancel" => m.ent[j].cancelRequested
    /\ (j \in m.active /\ LeaseLost(m.ent[j]) /\ ~m.ent[j].cancelRequested)
         => d.reason[j] = "lost"

Attended == \A w \in Worker : AttendedTo(duty[w], mem[w])

-----------------------------------------------------------------------------
(* What is true of an audit as long as no write has failed and every claim *)
(* has been kept: the inductive invariant behind VerdictTold,              *)
(* OpenIsQueued, RunningIsRun and SweepSparesVerdicts, in named parts.     *)

InTable(j) == row[j].state # "absent"

(* A job is known to one process at most, and its row is some worker's.    *)
KnownOnce(j) ==
  /\ InTable(j) => row[j].owner \in Worker
  /\ \A v, w \in Worker : Known(mem[v], j) /\ Known(mem[w], j) => v = w

(* submit: the audit is there before its job is, one process submits it,   *)
(* it waits exactly while the create is unanswered, and it is not refused. *)
Submits(w, j) ==
  LET said == duty[w].submit[j]
      c == mem[w].chain[j]
  IN /\ said # "no" => mem[w].up /\ audit[j].status \notin {"none", "running"}
     /\ said # "refusing"
     /\ said = "inserted" => j \notin submitted
     /\ said = "storing" <=> mem[w].ent[j].durability = "pending"
     /\ (c # <<>> /\ c[1].op = "create") => c[1].answer = "none" \/ c[1].answer = "ok"

SubmittedOnce(j) ==
  /\ \A v, w \in Worker :
       duty[v].submit[j] # "no" /\ duty[w].submit[j] # "no" => v = w
  /\ j \in submitted => audit[j].status # "none"

(* What w has yet to write about j is about the j that its queue knows.    *)
Owes(w, j) ==
  LET d == duty[w]
      m == mem[w]
  IN /\ j \in d.closing => m.ent[j].state = "cancelled"
     /\ j \in d.resets => Known(m, j)
     /\ j \in d.reopen => /\ m.paused /\ j \notin m.starting
                          /\ m.ent[j].state = "queued" \/ m.ent[j].state = "cancelled"
     /\ d.reason[j] # "lost"

(* What the row of j says to a run that has ended, or is being tried again.*)
Complete == [status |-> "complete", error |-> FALSE]
Failed == [status |-> "failed", error |-> TRUE]

Reports(w, j) ==
  LET stage == duty[w].stage[j]
      cancelled == mem[w].ent[j].cancelRequested
  IN /\ stage = "returned" => audit[j] = Complete
     /\ stage \in {"threw", "asked", "reopening"} =>
          audit[j] = Failed \/ (cancelled /\ audit[j].status \notin Open)
     /\ stage \in {"reopening", "reopened"} => ~cancelled
     /\ stage = "cancelling" => cancelled
     /\ stage = "reopened" => audit[j].status = "pending"
     /\ stage # "unopened"

(* VerdictTold, of one process, before its submission has been answered.   *)
Tells(w, j) ==
  (Ended(mem[w], j) /\ ~mem[w].closed /\ j \notin duty[w].closing) =>
    /\ mem[w].ent[j].state = "complete" => audit[j] = Complete
    /\ mem[w].ent[j].state = "failed" => audit[j] = Failed
    /\ audit[j].status \notin Open

(* w runs j, or has yet to say that it is only waiting, or will do so.     *)
WillRun(w, j) ==
  \/ j \in mem[w].active \cup duty[w].reopen \cup duty[w].resets
  \/ row[j].owner = w /\ ~Known(mem[w], j)

Minded(j) ==
  (audit[j].status = "running" /\ InTable(j)) => \E w \in Worker : WillRun(w, j)

(* What the processes that have j say of it.                               *)
Followed(j) ==
  /\ KnownOnce(j)
  /\ SubmittedOnce(j)
  /\ \A w \in Worker : Submits(w, j) /\ Owes(w, j)
  /\ j \notin raced => (\A w \in Worker : Reports(w, j) /\ Tells(w, j)) /\ Minded(j)

(* Where a process is between its boot and the end of its sweep.           *)
Swept(w) ==
  /\ mem[w].loading # "no" => duty[w].sweep = "due" /\ duty[w].reopen = {}
  /\ ~duty[w].known => mem[w].loading = "asked"
  /\ duty[w].sweep # "skipped"

SweepOwes(w, j) ==
  LET d == duty[w]
  IN /\ j \in d.cutoff => audit[j].status # "none"
     /\ j \in d.orphans => d.sweep = "writing"
     /\ j \in d.reopen => d.sweep = "due"

(* An audit whose job no process has, or will have.                        *)
Forsaken(j) ==
  /\ ~InTable(j)
  /\ audit[j].status # "none"
  /\ \A w \in Worker : duty[w].submit[j] = "no"

(* What a sweep is about to close has nobody else to close it.             *)
SweepsForsaken(w, j) ==
  LET d == duty[w]
  IN /\ (d.sweep = "reading" /\ j \in d.cutoff \ d.live) => Forsaken(j)
     /\ j \in d.orphans => Forsaken(j) /\ audit[j].status # "complete"

(* w will close the row of j, or will sweep it, now or after a restart.    *)
WillClose(w, j) ==
  LET d == duty[w]
  IN \/ j \in d.closing
     \/ ~mem[w].up \/ mem[w].closed
     \/ /\ ~d.known \/ j \in d.cutoff
        /\ \/ d.sweep = "due"
           \/ (d.sweep = "asking" \/ d.sweep = "reading") /\ j \notin d.live
           \/ d.sweep = "writing" /\ j \in d.orphans

Closable(j) ==
  (Forsaken(j) /\ audit[j].status \in Open) => \E w \in Worker : WillClose(w, j)

(* What the sweeps say of it.                                              *)
Cleared(j) ==
  /\ \A w \in Worker : SweepOwes(w, j)
  /\ j \notin raced => (\A w \in Worker : SweepsForsaken(w, j)) /\ Closable(j)

RowsTrue ==
  Undisturbed =>
    /\ \A w \in Worker : Swept(w)
    /\ \A j \in Job : Followed(j) /\ Cleared(j)

=============================================================================

----------------------------- MODULE LeaseStore -----------------------------
(***************************************************************************)
(* The durable half of the job queue: the `jobs` table and the statements  *)
(* a worker runs against it (packages/job-store/src/postgres.ts).          *)
(*                                                                         *)
(* A table is a function from job ids to rows.  Each operator below is one *)
(* transaction: given the table r it says what worker w reads and the      *)
(* table the transaction leaves.  Time is abstracted to one bit per row:   *)
(* `live` says the database clock still covers the claim, and ages to      *)
(* FALSE in a step of the environment.                                     *)
(***************************************************************************)
EXTENDS Naturals, FiniteSets

CONSTANTS
  Worker,         \* owner names, stable across a restart
  NoWorker,       \* owner is null
  Job,            \* job ids
  Mode,           \* "memory": no store; "owned": no leaseMs; "leased": leaseMs
  LaneOf,         \* the lane each job is queued under
  NoLane,         \* lane = null
  AdoptionBatch   \* ADOPTION_BATCH, how many rows one beat may take over

Lane == { LaneOf[j] : j \in Job } \ {NoLane}

ASSUME ModeAssumption == Mode \in {"memory", "owned", "leased"}
ASSUME NoWorkerAssumption == NoWorker \notin Worker
ASSUME AdoptionBatchAssumption == AdoptionBatch \in Nat

(* A row: only the columns the transactions read.  An absent row is NoRow. *)
Row == [ state   : {"absent", "queued", "running"},
         attempt : Nat,
         backoff : BOOLEAN,          \* next_attempt_at is not null
         owner   : Worker \cup {NoWorker},
         live    : BOOLEAN ]

NoRow == [state |-> "absent", attempt |-> 0, backoff |-> FALSE,
          owner |-> NoWorker, live |-> FALSE]

Table == [Job -> Row]

Outstanding(r) == { j \in Job : r[j].state # "absent" }

(* `#claimable`: without a lease every row of the namespace is ours.       *)
Claimable(r, w, j) ==
  Mode = "leased" => (r[j].owner \in {w, NoWorker} \/ ~r[j].live)

(* `#write` lands on an absent row or on one this worker may hold.         *)
Writable(r, w, j) == r[j].state = "absent" \/ Claimable(r, w, j)

(* Mutant: the columns a conflict updates leave `attempt` out.             *)
WrittenKeepingAttempt(r, w, j, write) ==
  [r EXCEPT ![j] = [@ EXCEPT !.state = write.state, !.backoff = write.backoff,
                             !.owner = w, !.live = TRUE]]

Written(r, w, j, write) ==
  [r EXCEPT ![j] = [state |-> write.state, attempt |-> write.attempt,
                    backoff |-> write.backoff, owner |-> w, live |-> TRUE]]

(* Mutant: the lane check looks for a queued job.                          *)
LaneHeldByQueued(r, w, j) ==
  /\ Mode = "leased"
  /\ LaneOf[j] # NoLane
  /\ \E k \in Job \ {j} :
       LaneOf[k] = LaneOf[j] /\ r[k].state = "queued" /\ r[k].owner # w /\ r[k].live

(* Another live worker has a running job in j's lane.                      *)
LaneHeldElsewhere(r, w, j) ==
  /\ Mode = "leased"
  /\ LaneOf[j] # NoLane
  /\ \E k \in Job \ {j} :
       /\ LaneOf[k] = LaneOf[j]
       /\ r[k].state = "running"
       /\ r[k].owner # w
       /\ r[k].live

(* Mutant: a removal is not scoped to the rows this worker may hold.       *)
RemovedAnyway(r, w, j) == [r EXCEPT ![j] = NoRow]

(* `remove` is silent about a row that is somebody else's.                 *)
Removed(r, w, j) == IF Claimable(r, w, j) THEN [r EXCEPT ![j] = NoRow] ELSE r

(* Mutant: `load` does not ask whose the rows are.                         *)
AnyonesRows(r, w) == Outstanding(r)

(* What `load` looks for: every row free to take.                          *)
Loadable(r, w) == { j \in Outstanding(r) : Claimable(r, w, j) }

(* ... and what it gets.  `for update skip locked` passes over the rows of *)
(* others that another worker's load or adopt is claiming at that moment,  *)
(* so that two that start at once divide the backlog.  Who has one of this *)
(* worker's own rows locked has, for the model, claimed it just before.    *)
LoadBatches(r, w) ==
  { S \in SUBSET Loadable(r, w) :
      \A j \in Loadable(r, w) \ S : Mode = "leased" /\ r[j].owner # w }

(* Mutant: `adopt` does not look at the age of the claim.                  *)
OthersRows(r, w) == { j \in Outstanding(r) : Mode = "leased" /\ r[j].owner # w }

(* Mutant: `adopt` takes only what its owner has given up.                 *)
GivenUp(r, w) == { j \in Outstanding(r) : Mode = "leased" /\ r[j].owner = NoWorker }

(* `adopt` never returns this worker's own rows.                           *)
Abandoned(r, w) ==
  { j \in Outstanding(r) : Mode = "leased" /\ r[j].owner # w /\ ~r[j].live }

(* What `load` and `adopt` do to the rows they return.                     *)
ClaimedAsQueued(r, w, S) ==
  [j \in Job |-> IF j \in S
                 THEN [r[j] EXCEPT !.state = "queued", !.owner = w, !.live = TRUE]
                 ELSE r[j]]

(* The batch: at most AdoptionBatch of what is abandoned.  Which rows come *)
(* first is decided by enqueued_at, which the model leaves open; `skip     *)
(* locked` passes over those a rival is claiming, so there may be fewer    *)
(* than are left.  A rival that has them all has gone first.               *)
AdoptionBatches(r, w) ==
  { S \in SUBSET Abandoned(r, w) :
      Cardinality(S) <= AdoptionBatch /\ (S = {} => Abandoned(r, w) = {}) }

(* `renew`: own rows are pushed forward, expired or not; the rest is lost. *)
RenewLost(r, w, ids) == { j \in ids : r[j].state = "absent" \/ r[j].owner # w }

RenewedRows(r, w, ids) ==
  [j \in Job |-> IF j \in ids \ RenewLost(r, w, ids)
                 THEN [r[j] EXCEPT !.live = TRUE] ELSE r[j]]

=============================================================================

---------------------------- MODULE JobQueueInv ----------------------------
(***************************************************************************)
(* The inductive invariant behind LanesExcluded, SingleRunner,             *)
(* AcknowledgedIsStored and AttemptRecorded in a namespace whose rows are  *)
(* leased: what the memory m of a worker w that has kept its claims says   *)
(* about the table r, job by job.  It is stated of a memory and a table,   *)
(* not of the variables, so that it can be carried through Settle, Pump    *)
(* and the other helpers a handler is composed of.                         *)
(***************************************************************************)
EXTENDS JobQueue

(* w's claim on j stands: nobody else may write, remove or adopt the row.  *)
Mine(r, w, j) == r[j].state # "absent" /\ r[j].owner = w /\ r[j].live

Ended(m, j) == m.ent[j].state \in Terminal

(* A job is where its state says it is, and one that has not ended was     *)
(* never found lost.                                                       *)
Placed(m, j) ==
  /\ j \in m.queue => m.ent[j].state = "queued" /\ j \notin m.starting
  /\ j \in m.starting =>
       /\ m.ent[j].state # "absent"
       /\ ~Ended(m, j) => /\ m.ent[j].state = "queued"
                          /\ m.ent[j].durability = "stored"
                          /\ LaneOf[j] # NoLane
  /\ j \in m.active \cup m.deciding => m.ent[j].state = "running"
  /\ ~(j \in m.active /\ j \in m.deciding)
  /\ m.ent[j].state = "queued" => m.ent[j].durability \in {"pending", "stored"}
  /\ m.ent[j].state = "running" => m.ent[j].durability = "stored"

(* What may stand in a chain c whose entry is e.                           *)
ChainShape(c, e, asking) ==
  \A i \in 1..Len(c) :
    /\ c[i].op = "remove" => e.state \in Terminal
    /\ c[i].op = "save" => e.state \in Terminal \/ e.durability = "stored"
    /\ c[i].op = "create" => i = 1 /\ e.durability = "pending"
    /\ c[i].op = "acquire" => /\ asking /\ c[i].state = "running"
                              /\ \A k \in 1..Len(c) : c[k].op = "acquire" => k = i
    /\ (c[i].answer = "lost" /\ c[i].op # "create") => e.state \in Terminal
    /\ c[i].answer # "none" => i = 1

Chained(m, j) ==
  /\ ChainShape(m.chain[j], m.ent[j], j \in m.starting)
  /\ m.ent[j].state = "absent" => m.chain[j] = <<>>
  /\ (j \in m.active /\ LaneOf[j] # NoLane) => m.chain[j] = <<>>
  /\ (j \in m.starting /\ ~Ended(m, j)) =>
       m.chain[j] # <<>> /\ m.chain[j][Len(m.chain[j])].op = "acquire"

(* The store has said yes to the call at the head of chain c.              *)
SaidYes(c, op) == c # <<>> /\ c[1].op = op /\ c[1].answer = "ok"

(* What the table holds of a job this worker holds.                        *)
Backed(w, m, r, j) ==
  /\ j \in Held(m) => Mine(r, w, j)
  /\ (j \in m.active /\ LaneOf[j] # NoLane) =>
       r[j].state = "running" /\ r[j].attempt = m.ent[j].attempt
  /\ SaidYes(m.chain[j], "create") => Mine(r, w, j)
  /\ (SaidYes(m.chain[j], "acquire") /\ ~Ended(m, j)) =>
       r[j].state = "running" /\ r[j].attempt = m.ent[j].attempt + 1

(* An acquire writes the attempt its handler will be.                      *)
Attempted(m, j) ==
  ~Ended(m, j) =>
    \A i \in 1..Len(m.chain[j]) :
      m.chain[j][i].op = "acquire" => m.chain[j][i].attempt = m.ent[j].attempt + 1

(* What the answers under way can still bring.                             *)
Pending(w, m, r, j) ==
  /\ \A b \in Beats :
       /\ (m.beats[b].phase = "renewing" /\ j \in m.beats[b].ids) => j \in Held(m) \/ Ended(m, j)
       /\ (m.beats[b].phase = "renewed" /\ j \in m.beats[b].ids) => Ended(m, j)
       /\ (j \in m.beats[b].got.jobs /\ ~Known(m, j)) => Mine(r, w, j)
  /\ (j \in m.loaded.jobs /\ ~Known(m, j)) => Mine(r, w, j)

JobInv(w, m, r, j) ==
  /\ Placed(m, j)
  /\ Chained(m, j)
  /\ Backed(w, m, r, j)
  /\ Attempted(m, j)
  /\ Pending(w, m, r, j)

(* Nothing starts before the load has been handled, and a process that is  *)
(* not there has no memory.                                                *)
WorkerInv(w, m, r) ==
  /\ \A j \in Job : JobInv(w, m, r, j)
  /\ m.loading # "no" => m.paused /\ m.active = {} /\ m.starting = {}
  /\ ~m.up => m = Down

(* The jobs for which w has been given the lane.                           *)
Granted(m, j) ==
  /\ LaneOf[j] # NoLane
  /\ \/ j \in m.active
     \/ j \in m.starting /\ ~Ended(m, j) /\ SaidYes(m.chain[j], "acquire")

LaneInv ==
  \A v, w \in Worker \ lapsed : \A j, k \in Job :
    (v # w /\ Granted(mem[v], j) /\ Granted(mem[w], k)) => LaneOf[j] # LaneOf[k]

(* A worker that has kept its claims finds them in the table, and no lane  *)
(* has been given twice.                                                   *)
ClaimsHold ==
  /\ \A w \in Worker \ lapsed : WorkerInv(w, mem[w], row)
  /\ LaneInv

IInv == TypeOK /\ ClaimsHold

=============================================================================

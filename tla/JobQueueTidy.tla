---------------------------- MODULE JobQueueTidy ----------------------------
(***************************************************************************)
(* What the memory of one queue says about itself, whatever the store      *)
(* answers and in every mode: the inductive invariant behind Accounted,    *)
(* SlotsAccounted, WorkConserving, HeldIsRenewed, IdleIsReported,          *)
(* TerminalIsFinal, CancelWins and LostWritesNothing.  No part of it reads *)
(* the table, so a step of another process cannot disturb it.              *)
(***************************************************************************)
EXTENDS JobQueue

(* What may stand in the chain c of a job whose entry is e.                *)
Ordered(c, e, asking) ==
  \A i \in 1..Len(c) :
    /\ c[i].op = "create" => i = 1 /\ e.durability = "pending"
    /\ c[i].op = "acquire" => asking /\ \A k \in 1..Len(c) : c[k].op = "acquire" => k = i

(* What is true of a job at every point of a handler, also between taking  *)
(* it out of one collection and putting it in the next.                    *)
Sound(m, j) ==
  /\ m.ent[j].state = "absent" =>
       /\ m.ent[j].durability = "none" /\ ~m.ent[j].cancelRequested
       /\ m.chain[j] = <<>>
  /\ j \in m.queue => m.ent[j].state = "queued" /\ j \notin m.starting
  /\ j \in m.starting => /\ m.ent[j].state \in {"queued"} \cup Terminal
                         /\ m.ent[j].durability # "pending"
  /\ j \in m.active \cup m.deciding => m.ent[j].state = "running"
  /\ ~(j \in m.active /\ j \in m.deciding)
  /\ m.ent[j].state = "running" => m.ent[j].durability # "pending"
  /\ m.ent[j].cancelRequested => m.ent[j].state \notin {"queued", "complete"}
  /\ Ordered(m.chain[j], m.ent[j], j \in m.starting)
  /\ \A b \in Beats :
       j \in m.beats[b].ids => m.ent[j].state # "absent" /\ m.ent[j].durability # "pending"

(* No unfinished job is forgotten.                                         *)
Housed(m, j) ==
  /\ m.ent[j].state = "queued" => j \in m.queue \cup m.starting
  /\ m.ent[j].state = "running" => j \in m.active \cup m.deciding

(* R puts the elements of S in a line.                                     *)
Lines(R, S) ==
  /\ \A i \in S : <<i, i>> \notin R
  /\ \A i, j \in S : i # j => <<i, j>> \in R \/ <<j, i>> \in R
  /\ \A i, j, k \in S : <<i, j>> \in R /\ <<j, k>> \in R => <<i, k>> \in R

InUse(m) == m.starting \cup m.active

(* The queue is a line, and slots and lanes are those of the jobs in use.  *)
Slotted(m) ==
  /\ m.ahead \subseteq m.queue \X m.queue
  /\ Lines(m.ahead, m.queue)
  /\ m.busy = LanesOf(InUse(m))
  /\ Cardinality(m.starting) + Cardinality(m.active) <= Concurrency
  /\ \A i, j \in InUse(m) : (i # j /\ LaneOf[i] = LaneOf[j]) => LaneOf[i] = NoLane

(* Nothing can start, or a policy is deciding and its answer will pump.    *)
Conserving(m) ==
  \/ m.deciding # {}
  \/ m.paused
  \/ Eligible(m) = {}
  \/ Cardinality(m.starting) + Cardinality(m.active) >= Concurrency

(* A claim that is held is being renewed, or will be.                      *)
Renewing(m) ==
  (~m.closed /\ Mode = "leased" /\ Held(m) # {})
    => m.timer \/ \E b \in Beats : m.beats[b] # NoBeat

(* Nobody waits for an idle queue, unless the end of an adoption will tell *)
(* them.                                                                   *)
Reported(m) ==
  Idle(m) => \/ m.drain # "waiting" /\ m.close # "waiting"
             \/ \E b \in Beats : m.beats[b].phase \in {"adopting", "adopted"}

Tidy(m) ==
  /\ \A j \in Job : Sound(m, j) /\ Housed(m, j)
  /\ Slotted(m)
  /\ Conserving(m)
  /\ Renewing(m)
  /\ Reported(m)

AllTidy == \A w \in Worker : Tidy(mem[w])

=============================================================================

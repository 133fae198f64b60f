---------------------------- MODULE JobLifecycle ----------------------------
(***************************************************************************)
(* What the queues of all workers and their shared table promise together  *)
(* about a job, without saying how: it is recorded before it runs, it runs *)
(* in one place at a time, alone in its lane, only while it is recorded,   *)
(* and a recorded job is brought to an end once and for good.  These are   *)
(* the sentences of queue.ts:1-56 and store.ts:1-40.                       *)
(***************************************************************************)
CONSTANTS Worker, Job, LaneOf, NoLane

VARIABLES
  phase,   \* how far each job has come
  runs     \* the jobs whose handlers each worker is running

vars == <<phase, runs>>

(* The order a job goes through.  A store may refuse a submitted job, or   *)
(* its process may die first: then it is over without having been recorded.*)
Phases == {"new", "submitted", "recorded", "over"}

Reaches(p, q) ==
  CASE p = "new" -> q \in Phases
    [] p = "submitted" -> q # "new"
    [] p = "recorded" -> q \in {"recorded", "over"}
    [] p = "over" -> q = "over"

Init ==
  /\ phase = [j \in Job |-> "new"]
  /\ runs = [w \in Worker |-> {}]

(* No job of S runs with another in one lane.                              *)
Exclusive(S) ==
  \A i, j \in S : i # j => LaneOf[i] # LaneOf[j] \/ LaneOf[i] = NoLane

(* Worker w's handlers become S, and jobs move on: none moves back, none   *)
(* runs without being recorded, none is run twice or beside its lane.      *)
Turn(w, S) ==
  LET others == UNION { runs[v] : v \in Worker \ {w} }
      then == phase'
  IN /\ runs' = [runs EXCEPT ![w] = S]
     /\ S \cap others = {}
     /\ Exclusive(S \cup others)
     /\ \A j \in S \cup others : then[j] = "recorded"
     /\ \A j \in Job : Reaches(phase[j], then[j])

Next == \E w \in Worker, S \in SUBSET Job : Turn(w, S)

Spec == Init /\ [][Next]_vars

(* A recorded job comes to an end.                                         *)
Ends == \A j \in Job : phase[j] = "recorded" ~> phase[j] = "over"

FairSpec == Spec /\ Ends

=============================================================================

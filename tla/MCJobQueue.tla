----------------------------- MODULE MCJobQueue -----------------------------
(* Constants of the JobQueue runs.                                         *)
EXTENDS JobQueueRefinement, JobQueueInv, TLC

CONSTANTS w1, w2, j1, j2, site

(* Two audits of one site.                                                 *)
MCLaneOf == [j \in Job |-> site]

MCEqual == [j \in Job |-> 0]
MCSecondFirst == [j \in Job |-> IF j = j2 THEN 1 ELSE 0]

(* How often the environment does each thing.                              *)
Times(n, kinds) == [k \in Kinds |-> IF k \in kinds THEN n ELSE 0]

MCSharing == Times(1, {"crash", "lapse", "error", "cancel"})
MCServing == Times(1, {"crash", "error", "cancel", "pause", "drain", "close"})
MCCrashing == Times(1, {"crash"})
MCLapsing == Times(2, {"lapse"})
MCClosing == Times(1, {"close"})

MCSymmetry == Permutations(Worker) \cup Permutations(Job)

=============================================================================

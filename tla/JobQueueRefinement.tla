------------------------- MODULE JobQueueRefinement -------------------------
(***************************************************************************)
(* The workers of JobQueue implement JobLifecycle, as long as they keep    *)
(* their claims and their store answers: whatever crashes, restarts and    *)
(* adoptions happen.                                                       *)
(***************************************************************************)
EXTENDS JobQueue

(* j's first write is still to be executed.                                *)
BeingCreated(w, j) ==
  /\ mem[w].chain[j] # <<>>
  /\ Head(mem[w].chain[j]).op = "create"
  /\ Head(mem[w].chain[j]).answer = "none"

PhaseOf(j) ==
  IF row[j].state # "absent" THEN "recorded"
  ELSE IF j \notin submitted THEN "new"
  ELSE IF \E w \in Worker : BeingCreated(w, j) THEN "submitted"
  ELSE "over"

Lifecycle == INSTANCE JobLifecycle WITH
  phase <- [j \in Job |-> PhaseOf(j)],
  runs <- [w \in Worker |-> mem[w].active]

(* A job once accepted is run to an end exactly as JobLifecycle says,      *)
(* although the worker that took it may crash at any point and never come  *)
(* back: the other workers' beats take its backlog on.                     *)
ImplementsLifecycle == Lifecycle!FairSpec

=============================================================================

------------------------------ MODULE MCAudit ------------------------------
(* Constants of the audit run.                                             *)
EXTENDS AuditScheduler, TLC

CONSTANTS w1, w2, j1, site

MCLaneOf == [j \in Job |-> site]
MCPriority == [j \in Job |-> 0]

(* How often the environment does each thing.                              *)
MCLimit == [k \in Kinds |-> IF k \in {"crash", "cancel", "close", "error", "lapse"} THEN 1 ELSE 0]

(* What comes together in one behaviour: a crash and a cancellation, and a *)
(* crash and the failure of the recovery or of the sweep that follows it.  *)
(* Everything else comes alone, a lapsed lease until a race follows it.    *)
MCTogether ==
  LET spent == { k \in Kinds : used[k] > 0 }
  IN \/ Cardinality(spent) < 2 /\ (spent = {"lapse"} => raced = {})
     \/ spent = {"crash", "cancel"}
     \/ spent = {"crash", "error"} /\ \E w \in Worker : duty[w].sweep = "skipped"

MCSymmetry == Permutations(Worker)

=============================================================================

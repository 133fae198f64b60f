------------------------------- MODULE MCDesk -------------------------------
(* Constants of the desk run: gate 1.5, measured before the cutover and    *)
(* exception-proof, and gate 5.2, live and signed by a person.             *)
EXTENDS ReleaseDesk, TLC

CONSTANTS measured, signed, probe, verdict, words

MCClass == [c \in Check |-> IF c = signed THEN "live" ELSE "preflight"]
MCAutomation == [c \in Check |-> IF c = signed THEN "attested" ELSE "automated"]
MCDetectorsOf == [c \in Check |-> IF c = signed THEN {} ELSE {probe}]
MCFlagsOf == [c \in Check |-> {}]

(* The probe passes, or fails somewhere.                                   *)
MCSightings == { [d \in Detector |-> seen] : seen \in {{"pass"}, {"pass", "fail"}} }

MCRunIds == Permutations(RunId)

(* Bounds: how much people write in all (a new scope counts twice), and    *)
(* how much there may be once they have written under a running grade.     *)
CONSTANTS MCMost, MCMeanwhile

MCWritten ==
  Cardinality(attestations) + Cardinality(log) + 2 * (release.scope - 1)
    + (IF release.authorizer THEN 1 ELSE 0) + (IF release.cutoverAt # 0 THEN 1 ELSE 0)

MCBounded == MCWritten <= MCMost

MCCalm == (grade.phase # "none" /\ MCWritten' # MCWritten) => MCWritten' <= MCMeanwhile

=============================================================================

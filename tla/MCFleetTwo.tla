----------------------------- MODULE MCFleetTwo -----------------------------
(* The deployment of deploy/deploy_cloud_run.sh: instances that share Firestore. *)
EXTENDS FleetControl

CONSTANTS p1, p2, i1, i2, a1

MCTasks == {p1, p2}
MCHome == [p \in MCTasks |-> IF p = p1 THEN i1 ELSE i2]
MCCeiling == [a \in {a1} |-> 2]
=============================================================================

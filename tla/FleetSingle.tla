---------------------------- MODULE FleetSingle -----------------------------
(***************************************************************************)
(* The switch with one process serving every request and every run.        *)
(***************************************************************************)
EXTENDS FleetControl

ASSUME OneInstance == \A p, q \in Tasks : Home[p] = Home[q]
=============================================================================

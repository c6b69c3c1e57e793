---------------------------- MODULE ReviewSingle -----------------------------
(***************************************************************************)
(* The review of findings with one process serving every request and run.  *)
(***************************************************************************)
EXTENDS FindingReview

ASSUME OneInstance == \A p, q \in Tasks : Home[p] = Home[q]
=============================================================================

-------------------------- MODULE OnboardingSingle ---------------------------
(***************************************************************************)
(* Onboarding with one process serving every request.                      *)
(***************************************************************************)
EXTENDS Onboarding

ASSUME OneInstance == \A p, q \in Tasks : Home[p] = Home[q]
=============================================================================

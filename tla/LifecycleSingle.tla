-------------------------- MODULE LifecycleSingle ---------------------------
(***************************************************************************)
(* The lifecycle with one process serving every request.                   *)
(***************************************************************************)
EXTENDS VendorLifecycle

ASSUME OneInstance == \A p, q \in Tasks : Home[p] = Home[q]
=============================================================================

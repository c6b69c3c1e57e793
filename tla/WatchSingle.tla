---------------------------- MODULE WatchSingle ------------------------------
(***************************************************************************)
(* Watch with one process serving every request.                           *)
(***************************************************************************)
EXTENDS Watch

ASSUME OneInstance == \A p, q \in Tasks : Home[p] = Home[q]
=============================================================================

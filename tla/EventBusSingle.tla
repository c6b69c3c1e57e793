--------------------------- MODULE EventBusSingle ---------------------------
(***************************************************************************)
(* The bus in one process: `python -m bulwark.main`, the demo, or a Cloud  *)
(* Run service that has one instance.                                      *)
(***************************************************************************)
EXTENDS EventBus

ASSUME OneInstance == \A i, j \in Instances : i = j
=============================================================================

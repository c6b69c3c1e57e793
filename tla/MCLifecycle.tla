---------------------------- MODULE MCLifecycle -----------------------------
(* Two tasks of one instance over one vendor and one ticket. *)
EXTENDS LifecycleSingle

CONSTANTS p1, p2, i1, v1, k1, r1, a1, why

MCTasks == {p1, p2}
MCHome == [p \in MCTasks |-> i1]
=============================================================================

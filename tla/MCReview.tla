------------------------------ MODULE MCReview -------------------------------
(* Two tasks of one instance: an assessment can meet another one, a sweep of *)
(* the collector or a reviewer.                                              *)
EXTENDS ReviewSingle, TLC

CONSTANTS p1, p2, i1, f1, e1, a1, t1, t2

MCTasks == {p1, p2}
Symmetric == Permutations(MCTasks) \cup Permutations({t1, t2})
MCHome == [p \in MCTasks |-> i1]

(* For a single assessment, with nothing beside it. *)
MCOneTask == {p1}
MCOneHome == [p \in MCOneTask |-> i1]
=============================================================================

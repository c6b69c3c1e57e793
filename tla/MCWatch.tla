------------------------------- MODULE MCWatch -------------------------------
(* Two requests of one process; two vendors, one control, and two assessments *)
(* that a third may continue.                                                  *)
EXTENDS WatchSingle

CONSTANTS p1, p2, i1, v1, v2, c1

MCTasks == {p1, p2}
MCHome == [p \in MCTasks |-> i1]
MCHistories == {<<1, 2>>}
=============================================================================

------------------------------ MODULE MCFleet -------------------------------
(* Two tasks of one instance, so that a command can meet a run or another *)
(* command; one agent that may act at L2 and one that only observes.      *)
EXTENDS FleetSingle

CONSTANTS p1, p2, i1, a1, a2

MCTasks == {p1, p2}
MCHome == [p \in MCTasks |-> i1]
MCAgents == {a1, a2}
MCCeiling == [a \in MCAgents |-> IF a = a1 THEN 2 ELSE 1]
=============================================================================

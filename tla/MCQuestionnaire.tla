-------------------------- MODULE MCQuestionnaire ---------------------------
(* Two requests of one process about two questions. *)
EXTENDS QuestionnaireSingle, TLC

CONSTANTS p1, p2, i1, q1, q2

MCTasks == {p1, p2}
MCHome == [p \in MCTasks |-> i1]
Symmetric == Permutations(MCTasks) \cup Permutations({q1, q2})
=============================================================================

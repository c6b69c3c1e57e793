---------------------------- MODULE MCOnboarding -----------------------------
(* Two vendors: one gives evidence, clean or poisoned, the other a contract, *)
(* and each document has its own hash.                                       *)
EXTENDS OnboardingSingle, TLC

CONSTANTS p1, p2, i1, n1, n2, clean, poisoned, contract, a1, a2, a3, up, s1, s2

MCTasks == {p1, p2}
MCHome == [p \in MCTasks |-> i1]
Symmetric == Permutations(MCTasks) \cup Permutations({s1, s2})

MCDocuments == {clean, poisoned, contract}
MCOf == [d \in MCDocuments |-> IF d = contract THEN n2 ELSE n1]
MCSha == [d \in MCDocuments |-> CASE d = clean -> a1 [] d = poisoned -> a2 [] OTHER -> a3]

(* One request after the other, and evidence from both vendors. *)
MCOneTask == {p1}
MCOneHome == [p \in MCOneTask |-> i1]
=============================================================================

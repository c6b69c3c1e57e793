------------------------ MODULE QuestionnaireSingle -------------------------
(***************************************************************************)
(* Questionnaire with one process serving every request.                   *)
(***************************************************************************)
EXTENDS Questionnaire

ASSUME OneInstance == \A p, q \in Tasks : Home[p] = Home[q]
=============================================================================

----------------------------- MODULE MCEventBus -----------------------------
(* One instance; a topic with one handler, as every topic of the fleet has, *)
(* and one with two, which subscribe allows.                                *)
EXTENDS EventBusSingle

CONSTANTS c1, c2, c3, one, two, k1, i1

MCCalls == {c1, c2, c3}
MCTopics == {one, two}
MCHandlers == [t \in MCTopics |-> IF t = one THEN 1 ELSE 2]
=============================================================================

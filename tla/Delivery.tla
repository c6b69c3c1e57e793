------------------------------ MODULE Delivery ------------------------------
(***************************************************************************)
(* What the event bus promises its publishers, with no process, store or   *)
(* queue in it: an idempotency key of a topic is claimed by one event and  *)
(* stays claimed by it, and every handler runs at most once, for the event *)
(* that holds the claim.                                                   *)
(***************************************************************************)
CONSTANTS Events, Slots, HandlerIds, NoEvent

VARIABLES
    slotOf,  \* slotOf[e]: the <<topic, key>> event e is published under
    claim,   \* claim[s]: the event that owns s, or NoEvent
    ran      \* ran[e][h]: how often handler h has run for e

vars == <<slotOf, claim, ran>>

Init ==
    /\ slotOf \in [Events -> Slots]
    /\ claim = [s \in Slots |-> NoEvent]
    /\ ran = [e \in Events |-> [h \in HandlerIds |-> 0]]

Claim(e) ==
    /\ claim[slotOf[e]] = NoEvent
    /\ claim' = [claim EXCEPT ![slotOf[e]] = e]
    /\ UNCHANGED <<slotOf, ran>>

Run(e, h) ==
    /\ claim[slotOf[e]] = e
    /\ ran[e][h] = 0
    /\ ran' = [ran EXCEPT ![e][h] = 1]
    /\ UNCHANGED <<slotOf, claim>>

Next == \E e \in Events : Claim(e) \/ \E h \in HandlerIds : Run(e, h)

Spec == Init /\ [][Next]_vars
=============================================================================

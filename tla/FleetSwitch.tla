---------------------------- MODULE FleetSwitch -----------------------------
(***************************************************************************)
(* The autonomy ladder as its users see it: one dial and one set of paused *)
(* agents, where every command changes one thing and leaves the rest.      *)
(***************************************************************************)
CONSTANTS Agents, Levels

VARIABLES dial, held

vars == <<dial, held>>

Init == dial \in Levels /\ held = {}

SetDial(l) == dial' = l /\ UNCHANGED held

Pause(a) == held' = held \cup {a} /\ UNCHANGED dial

Resume(a) == held' = held \ {a} /\ UNCHANGED dial

Next ==
    \/ \E l \in Levels : SetDial(l)
    \/ \E a \in Agents : Pause(a) \/ Resume(a)

Spec == Init /\ [][Next]_vars
=============================================================================

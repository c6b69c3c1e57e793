\* Two days, and a cap that takes two runs or one dear run to reach, with room
\* for one more run after the breaker has tripped and a human has raised the dial.
SPECIFICATION Spec
CONSTANTS
    p1 = p1
    p2 = p2
    i1 = i1
    a1 = a1
    a2 = a2
    Agents <- MCAgents
    Ceiling <- MCCeiling
    Cap = 2
    Costs = {0, 1, 2}
    Tasks <- MCTasks
    Instances = {i1}
    Home <- MCHome
    MaxSpend = 3
    MaxDays = 2
    MaxCrashes = 1
    None = None
INVARIANTS
    TypeOK
    PermittedAtWrite
    NoLostSpend
PROPERTIES
    KillSwitchSticks
    BreachDropsFleet
    BreachTrips
    ActsAsSwitch

\* Two requests, one on each instance; nothing is spent.
SPECIFICATION Spec
CONSTANTS
    p1 = p1
    p2 = p2
    i1 = i1
    i2 = i2
    a1 = a1
    Agents = {a1}
    Ceiling <- MCCeiling
    Cap = 2
    Costs = {0}
    Tasks <- MCTasks
    Instances = {i1, i2}
    Home <- MCHome
    MaxSpend = 0
    MaxDays = 1
    MaxCrashes = 0
    None = None
PROPERTY
    KillSwitchSticks

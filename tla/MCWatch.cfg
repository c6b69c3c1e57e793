\* Two requests over two days; one sweep, one exception, one snapshot, one
\* crash, and two offboardings, so that one can replace an overdue record.
SPECIFICATION Spec
CONSTANTS
    p1 = p1
    p2 = p2
    i1 = i1
    v1 = v1
    v2 = v2
    c1 = c1
    Vendors = {v1, v2}
    Controls = {c1}
    Risks = {1, 3}
    Histories <- MCHistories
    FreshDays = 0
    Tasks <- MCTasks
    Instances = {i1}
    Home <- MCHome
    MaxDay = 1
    MaxSweeps = 1
    MaxSnapshots = 1
    MaxExceptions = 1
    MaxOffboardings = 2
    MaxCrashes = 1
    None = None
INVARIANTS
    TypeOK
    LedgerTellsProgress
PROPERTIES
    SweepComplete
    SweepSound
    OverdueNamed

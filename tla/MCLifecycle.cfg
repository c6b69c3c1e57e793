\* Up to three compensating actions over two traces, one of them a request's and
\* one an agent's; a rollback can overtake every later write.
SPECIFICATION Spec
CONSTANTS
    p1 = p1
    p2 = p2
    i1 = i1
    v1 = v1
    k1 = k1
    r1 = r1
    a1 = a1
    why = why
    Vendors = {v1}
    Tickets = {k1}
    RequestTraces = {r1}
    AgentTraces = {a1}
    Reasons = {why}
    Tasks <- MCTasks
    Instances = {i1}
    Home <- MCHome
    MaxActions = 3
    MaxCrashes = 1
    None = None
INVARIANTS
    TypeOK
    BeforeValueCurrent
    ReopenSparesLeaving
    OneConfirmationPerOffboarding
    RevertedOnce
PROPERTY
    RollbackCompletes

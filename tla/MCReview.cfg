\* One finding of a vendor that is not critical, written twice; it cites an assertion,
\* or a piece of evidence besides, under the threshold or at it.
SPECIFICATION Spec
CONSTANTS
    p1 = p1
    p2 = p2
    i1 = i1
    f1 = f1
    e1 = e1
    a1 = a1
    t1 = t1
    t2 = t2
    Findings = {f1}
    Critical = {}
    Evidence = {e1}
    Claims = {a1}
    Verdicts = {"satisfied", "gap", "any other"}
    Risks = {1, 2}
    Citations = {{a1}, {e1, a1}}
    Threshold = 2
    Traces = {t1, t2}
    Tasks <- MCTasks
    Instances = {i1}
    Home <- MCHome
    MaxVersions = 2
    MaxCrashes = 1
    None = None
SYMMETRY Symmetric
INVARIANTS
    TypeOK
    TrendMatchesFinding
    Explained
    DraftRestsOnDecision
PROPERTY
    FailClosed

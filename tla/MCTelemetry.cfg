\* One assessment and the remediation of the gap it finds are enough.
SPECIFICATION Spec
CONSTANTS
    p1 = p1
    p2 = p2
    i1 = i1
    f1 = f1
    e1 = e1
    a1 = a1
    t1 = t1
    t2 = t2
    Findings = {f1}
    Critical = {}
    Evidence = {e1}
    Claims = {a1}
    Verdicts = {"satisfied", "gap"}
    Risks = {1, 2}
    Citations = {{a1}, {e1, a1}}
    Threshold = 2
    Traces = {t1, t2}
    Tasks <- MCOneTask
    Instances = {i1}
    Home <- MCOneHome
    MaxVersions = 1
    MaxCrashes = 0
    None = None
INVARIANT
    TelemetryOfMaker

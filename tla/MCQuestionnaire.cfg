\* Two requests; two drafts, two answers by hand, two exports, one crash.
SPECIFICATION Spec
CONSTANTS
    p1 = p1
    p2 = p2
    i1 = i1
    q1 = q1
    q2 = q2
    Questions = {q1, q2}
    Tasks <- MCTasks
    Instances = {i1}
    Home <- MCHome
    MaxListed = 2
    MaxDrafts = 2
    MaxManual = 2
    MaxExports = 2
    MaxCrashes = 1
    None = None
SYMMETRY Symmetric
INVARIANTS
    TypeOK
    CountsHold
    OnlySoundLeaves
PROPERTIES
    ExportOnlyStamps
    PatchExact
    DraftsDistinct

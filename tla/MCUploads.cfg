\* Two vendors upload a file each, one request after the other; neither is a contract.
SPECIFICATION Spec
CONSTANTS
    p1 = p1
    p2 = p2
    i1 = i1
    n1 = n1
    n2 = n2
    clean = clean
    poisoned = poisoned
    contract = contract
    a1 = a1
    a2 = a2
    a3 = a3
    up = up
    s1 = s1
    s2 = s2
    Names = {n1, n2}
    Documents <- MCDocuments
    Of <- MCOf
    Contracts = {}
    Poisoned = {poisoned}
    Artifacts = {a1, a2, a3, up}
    Sha <- MCSha
    Uploaded = up
    Subprocessors = {s1, s2}
    Tasks <- MCOneTask
    Instances = {i1}
    Home <- MCOneHome
    MaxListed = 1
    MaxDocuments = 2
    MaxCrashes = 0
    None = None
INVARIANT
    ReadMeansRequested

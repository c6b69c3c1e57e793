\* Three publish calls over two topics and one key: two duplicates race, or a
\* third call comes after them. Every call ends, so the run stops: no deadlock check.
SPECIFICATION Spec
CONSTANTS
    c1 = c1
    c2 = c2
    c3 = c3
    one = one
    two = two
    k1 = k1
    i1 = i1
    Calls <- MCCalls
    Topics <- MCTopics
    Keys = {k1}
    Instances = {i1}
    Handlers <- MCHandlers
    MaxCrashes = 1
    NoEvent = NoEvent
INVARIANTS
    TypeOK
    AtMostOnce
    NoHandlerSkipped
    FailuresVisible
PROPERTIES
    KeepsPromise
    DuplicateImpliesHandled
CHECK_DEADLOCK FALSE

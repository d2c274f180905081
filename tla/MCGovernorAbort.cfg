SPECIFICATION FairSpec
CONSTANTS
    A = A
    B = B
    P = P
    O = O
    a1 = a1
    a2 = a2
    b1 = b1
    p1 = p1
    o1 = o1
    WorkflowRuns = {A, B}
    Pools = {}
    Observer = O
    Requests = {a1, b1}
    RunOf <- RunOfRequest
    MayAbort = {a1}
    Bounds = {3}
    RetryAfters = {0, 2}
    MaxNow = 3
    MaxEpoch = 2
    Initial = 1
    K = 1
    IdleResetMs = 2
INVARIANT
    NobodyStranded
CHECK_DEADLOCK FALSE

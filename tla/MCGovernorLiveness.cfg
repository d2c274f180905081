SPECIFICATION FairSpec
CONSTANTS
    A = A
    B = B
    P = P
    O = O
    a1 = a1
    a2 = a2
    b1 = b1
    p1 = p1
    o1 = o1
    WorkflowRuns = {A}
    Pools = {P}
    Observer = O
    Requests = {a1, a2, p1}
    RunOf <- RunOfRequest
    MayAbort = {}
    Bounds = {}
    RetryAfters = {0, 1}
    MaxNow = 1
    MaxEpoch = 1
    Initial = 1
    K = 1
    IdleResetMs = 2
PROPERTIES
    EveryoneServed
CHECK_DEADLOCK FALSE

SPECIFICATION FairSpec
CONSTANTS
    A = A
    B = B
    P = P
    O = O
    a1 = a1
    a2 = a2
    b1 = b1
    p1 = p1
    o1 = o1
    WorkflowRuns = {A, B}
    Pools = {}
    Observer = O
    Requests = {a1, a2, b1, o1}
    RunOf <- RunOfRequest
    MayAbort = {}
    Bounds = {}
    RetryAfters = {0}
    MaxNow = 0
    MaxEpoch = 0
    Initial = 1
    K = 1
    IdleResetMs = 2
PROPERTIES
    TurnsTaken
CHECK_DEADLOCK FALSE

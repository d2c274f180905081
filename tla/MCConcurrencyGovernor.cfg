SPECIFICATION Spec
CONSTANTS
    A = A
    B = B
    P = P
    O = O
    a1 = a1
    a2 = a2
    b1 = b1
    p1 = p1
    o1 = o1
    WorkflowRuns = {A, B}
    Pools = {}
    Observer = O
    Requests = {a1, b1, o1}
    RunOf <- RunOfRequest
    MayAbort = {a1, b1}
    Bounds = {3}
    RetryAfters = {1}
    MaxNow = 2
    MaxEpoch = 2
    Initial = 1
    K = 1
    IdleResetMs = 2
SYMMETRY Swap
INVARIANTS
    TypeOK
    WaitersFed
    RotationExact
    LimitTracksBounds
    WakeKept
PROPERTIES
    GateHolds
CHECK_DEADLOCK FALSE

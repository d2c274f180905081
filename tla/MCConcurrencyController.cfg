SPECIFICATION Spec
CONSTANTS
    Initial = 2
    K = 2
    IdleResetMs = 2
    Requests = {r1, r2, r3}
    Limits = {2, 4}
    RetryAfters = {0, 1, 3}
    MaxNow = 3
    MaxEpoch = 2
SYMMETRY Symmetric
INVARIANTS
    TypeOK
    LevelsOK
    InFlightExact
PROPERTIES
    OneVerdictPerWave
    GrowthIsDemanded
    CooldownKept

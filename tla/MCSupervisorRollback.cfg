SPECIFICATION Spec
CONSTANTS
    r1 = r1
    r2 = r2
    c1 = c1
    c2 = c2
    Release <- MCRelease
    None = None
    NoMarker = NoMarker
    Cores <- MCCores
    NoCore = NoCore
    Backoffs = 1
    MaxTimers = 1
    Careful = FALSE
    Locked = TRUE
INVARIANT StartsProven

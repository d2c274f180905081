SPECIFICATION FairSpec
CONSTANTS
    r1 = r1
    r2 = r2
    c1 = c1
    c2 = c2
    Release <- MCRelease
    None = None
    NoMarker = NoMarker
    Cores <- MCCores
    NoCore = NoCore
    Backoffs = 2
    MaxTimers = 2
    Careful = TRUE
    Locked = TRUE
INVARIANTS
    TypeOK
    CoresAccounted
    UnfinishedUpdateShown
PROPERTIES
    ImplementsReleaseLedger
    ServerSettles

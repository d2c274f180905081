SPECIFICATION FairSpec
CONSTANTS
    x = x
    y = y
    z = z
    Asks = {x, y, z}
    After <- AfterOf
    MaxLives = 4
INVARIANTS
    TypeOK
    ReleasedInOrder
    TableClosed
    UncancelledInSeenOrder
PROPERTIES
    ReplayDrains
CHECK_DEADLOCK FALSE

SPECIFICATION Spec
CONSTANTS
    x = x
    y = y
    z = z
    Asks = {x, y, z}
    After <- AfterOf
    MaxLives = 4
INVARIANT
    SameSchedule
CHECK_DEADLOCK FALSE

SPECIFICATION FairSpec
CONSTANTS
    a1 = a1
    a2 = a2
    b1 = b1
    Asks = {a1, a2, b1}
    Actors = {1, 2}
    ActorOf <- ActorOfAsk
    Typed = {b1}
    After <- AfterOf
    Caps = {1, 2}
    RepairAttempts = 1
    NudgeAttempts = 1
    MaxLives = 3
INVARIANTS
    TypeOK
    RowsInSequence
    NoIdleCapacity
PROPERTIES
    ImplementsLedger
    CapBindsDispatch
    EveryAskAnswered
CHECK_DEADLOCK FALSE

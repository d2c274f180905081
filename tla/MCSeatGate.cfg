SPECIFICATION FairSpec
CONSTANTS
    Agents = {a1, a2, a3}
    Limits = {1, 2, 3}
INVARIANTS
    TypeOK
    SeatsAccounted
    NoFreeSeat
PROPERTIES
    NoOvertaking
    SeatsAreReal
    BoundReached
    Unparked
CHECK_DEADLOCK FALSE

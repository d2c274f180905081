CONSTANTS
    p1 = p1
    p2 = p2
    p3 = p3
    Process <- MCProcess
    Attempts <- MCAttempts
    Flaky <- MCFlaky
    Former = old
    NoFile = NoFile
    Blank = Blank
SPECIFICATION FairSpec
INVARIANT TypeOK
PROPERTIES LossesAccounted OwnersConverge StaleTakenOver
CHECK_DEADLOCK FALSE

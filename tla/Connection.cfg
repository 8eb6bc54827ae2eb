CONSTANTS
    c1 = c1
    c2 = c2
    Cmd <- MCCmd
    Rotating <- MCRotating
    MaxConns = 2
    WriteCap = 1
SPECIFICATION FairSpec
INVARIANTS
    AnswersInPlace
PROPERTIES
    SendReturns
    DeadLinkIsLeft
    AnswersArrive
CHECK_DEADLOCK FALSE

CONSTANTS
    s1 = s1
    s2 = s2
    s3 = s3
    a = a
    b = b
    c = c
    Call <- MCCall
    Forking <- MCForking
    Id <- MCId
    maxProcesses = 1
    MaxStarts = 2
SPECIFICATION MCSpec
INVARIANTS
    OvershootBounded
    NoLostTree
PROPERTIES
    ForgottenIsReaped
CHECK_DEADLOCK FALSE

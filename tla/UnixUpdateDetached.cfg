\* Does a stopped service always have a script that starts it again?
CONSTANTS
    CheckInterval = 2
    IdleWindow = 2
    maxDeferral = 5
SPECIFICATION Spec
INVARIANTS StoppedIsRestarted
CHECK_DEADLOCK FALSE

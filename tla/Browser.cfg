\* Three browser commands beside the reaper and Shutdown.
CONSTANTS
    c1 = c1
    c2 = c2
    c3 = c3
    i1 = i1
    i2 = i2
    Call <- MCCall
    Id <- MCId
    Ask <- MCAsk
    maxSessions = 1
    None = None
    Reaper = Reaper
    Closer = Closer
SPECIFICATION Spec
INVARIANTS ContextsAccounted LeftIsLate SilentAtShutdown
PROPERTIES ActionsUndisturbed EveryoneReturns
CHECK_DEADLOCK FALSE

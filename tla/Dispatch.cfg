CONSTANTS
    c1 = c1
    c2 = c2
    c3 = c3
    a = a
    b = b
    Cmd <- MCCmd
    Id <- MCId
    Type <- MCType
    MaxConcurrency = 2
    MaxHeavyConcurrency = 1
    maxPendingSlotWaiters = 2
SPECIFICATION MCSpec
INVARIANTS
    TypeOK
    RegistryExact
    SlotsBounded
    HeavyBounded
    PendingExact
    NoLostWakeup
PROPERTIES
    ImplementsPool
    WaitIsBounded
    EverythingIsReturned
CHECK_DEADLOCK FALSE

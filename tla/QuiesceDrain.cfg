CONSTANTS
    c1 = c1
    c2 = c2
    a = a
    Cmd <- MCCmd
    Id <- MCId
    Type <- MCType
    MaxConcurrency = 1
    MaxHeavyConcurrency = 1
    maxPendingSlotWaiters = 2
SPECIFICATION QSpec
INVARIANT
    DrainCoversWaiters
CHECK_DEADLOCK FALSE

CONSTANTS
    p1 = p1
    p2 = p2
    Proc <- MCProc
    CrashBound = 2
SPECIFICATION FairSpec
INVARIANTS
    ExclusionUntilStolen
    InstalledUnlessTorn
PROPERTIES
    OrphanedLockGoes
CHECK_DEADLOCK FALSE

\* Checks every 2 ticks, an idle window of 2, a deferral of at most 5.
CONSTANTS
    CheckInterval = 2
    IdleWindow = 2
    maxDeferral = 5
SPECIFICATION Spec
INVARIANTS InterruptsOnlyWhenDue SwapAlone
PROPERTIES PostponementEnds ServiceComesBack
CHECK_DEADLOCK FALSE

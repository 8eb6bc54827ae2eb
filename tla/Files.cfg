\* Three commands of any kind on one file.
CONSTANTS
    o1 = o1
    o2 = o2
    o3 = o3
    Op <- MCOp
    Ask <- MCAsk
    Initial = Initial
    None = None
SPECIFICATION Spec
INVARIANTS InFlightUnseen
PROPERTIES EditIsAtomic
CHECK_DEADLOCK FALSE

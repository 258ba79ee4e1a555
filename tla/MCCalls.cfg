CONSTANTS
    o1 = o1
    o2 = o2
    o3 = o3
    Ops <- MCOps
    MaxFields = 3
SPECIFICATION CallsSpec
SYMMETRY Symmetry
CHECK_DEADLOCK FALSE
INVARIANTS
    CancelDecides
    StringsFreed
    OutcomeArrives

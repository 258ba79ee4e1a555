CONSTANTS
    Goroutines = {g1, g2, g3}
    MaxDepth = 3
    Nobody = Nobody
SPECIFICATION FairSpec
CHECK_DEADLOCK FALSE
INVARIANTS
    OuterCallsCovered
PROPERTIES
    HangsOnlyNested
    NestedWaitIsForever

CONSTANTS
    Procs = {p1, p2, p3}
    NoProc = NoProc
    MaxNested = 1
SPECIFICATION FairSpec
INVARIANTS
    TypeOK
    NoUseAfterFree
    FreedOnce
    IdleHoldsNothing
    LateCallRefused
PROPERTIES
    CloseIsBarrier
    HandleImplemented
    CloseReturns
    CallReturns

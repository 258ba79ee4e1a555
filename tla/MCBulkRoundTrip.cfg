CONSTANTS
    MaxItems = 3
    MaxCtx = 1
    NoCtx = NoCtx
SPECIFICATION RoundTripSpec
CHECK_DEADLOCK FALSE
INVARIANTS
    StrictMatchesSingles
    ItemsIndependent
    OpensGivenContext

CONSTANTS
    MaxItems = 2
    MaxCtx = 1
    NoCtx = NoCtx
SPECIFICATION RoundTripSpec
CHECK_DEADLOCK FALSE
INVARIANT NoItemFailsTheCall

CONSTANTS
    Quotable = {"ErrInvariantViolation", "ErrUnknownColumn", "ErrSteVecRequiresJSON"}
SPECIFICATION Spec
CHECK_DEADLOCK FALSE
INVARIANTS
    QueryMatchesStore
    InferenceAgrees
    ErrorsClassified

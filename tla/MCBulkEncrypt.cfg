CONSTANTS
    MaxItems = 3
    MaxCtx = 2
    NoCtx = NoCtx
SPECIFICATION FairSpec
CHECK_DEADLOCK FALSE
INVARIANTS
    Aligned
    BatchesUniform
    EncryptedAtMostOnce
PROPERTIES
    BulkImplemented
    Ends

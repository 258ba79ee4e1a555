CONSTANTS
    email = email
    age = age
    Keys <- MCKeys
    Fields <- MCFields
    MaxFields = 2
    MaxModels = 2
    Precision = 4
    Bits = 6
    SmallBits = 3
    Scale = 4
    Limit = 320
SPECIFICATION ModelsSpec
CHECK_DEADLOCK FALSE
INVARIANT PlainFieldsPassThrough

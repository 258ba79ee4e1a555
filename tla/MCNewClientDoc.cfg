CONSTANTS
    users = users
    orders = orders
    email = email
    meta = meta
    Tables <- MCTables
    Names <- MCNames
    Schemas = {s1, s2}
    ColBuilders = {c1, c2}
    Casts = {"string", "json", "varchar"}
    Kinds = {"unique", "ste_vec"}
    Models <- MCModels
    MaxSchemas = 2
    Nothing = Nothing
    MaxChunks = 4
    Chunks <- MCChunks
    MaxOptions = 3
SYMMETRY Symmetric
SPECIFICATION NewClientSpec
CHECK_DEADLOCK FALSE
INVARIANT
    EnvironmentKeyIsUsed

CONSTANTS
    own = own
    other = other
    null = null
    Owner = own
    SessionUser = own
    Null = null
    UpperOf <- MCUpperOf
    Versions <- MCVersions
    SampleSize = 1
    InferRelationships = TRUE
    MayFail = TRUE
    MaxChanges = 2
SPECIFICATION Spec
INVARIANTS
    InductiveInvariant
    TablesExact
    DeclaredKeysExact
    FindingsExact
    InferenceGrounded
    OrderIrrelevant

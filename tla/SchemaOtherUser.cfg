CONSTANTS
    own = own
    other = other
    null = null
    Owner = own
    SessionUser = other
    Null = null
    UpperOf <- MCUpperOf
    Versions <- MCVersions
    SampleSize = 1
    InferRelationships = TRUE
    MayFail = FALSE
    MaxChanges = 0
SPECIFICATION Spec
INVARIANT FindingsExact

CONSTANTS
    orders = orders
    customers = customers
    owner1 = owner1
    owner2 = owner2
    w1 = w1
    w2 = w2
    None = None
    Unreadable = Unreadable
    ReadMayFail = TRUE
    Tables <- TwoTables
    Relations <- OneRelation
    Owners <- OneOwner
    Workers <- TwoWorkers
    Listings <- SameListing
    Excluded <- Nothing
    Declared <- DeclaredTwice
    Candidates <- OneRelation
    Infer = TRUE
    LegacyDone <- Nothing
    OracleMayFail = TRUE
    DiskMayFail = TRUE
    ProgressMayThrow = TRUE
    MaxRuns = 3
SPECIFICATION FairSpec
INVARIANT
    InductiveInvariant
PROPERTY ScanEnds

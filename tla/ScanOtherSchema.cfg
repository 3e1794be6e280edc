CONSTANTS
    orders = orders
    customers = customers
    owner1 = owner1
    owner2 = owner2
    w1 = w1
    w2 = w2
    None = None
    Unreadable = Unreadable
    ReadMayFail = FALSE
    Tables <- TwoTables
    Relations <- TwoRelations
    Owners <- TwoOwners
    Workers <- TwoWorkers
    Listings <- SameListing
    Excluded <- Nothing
    Declared <- TwoDeclared
    Candidates <- TwoCandidates
    Infer = TRUE
    LegacyDone <- Nothing
    OracleMayFail = FALSE
    DiskMayFail = FALSE
    ProgressMayThrow = FALSE
    MaxRuns = 2
SPECIFICATION Spec
INVARIANT ReportOfOneSchema

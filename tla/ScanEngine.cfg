CONSTANTS
    orders = orders
    customers = customers
    owner1 = owner1
    owner2 = owner2
    w1 = w1
    w2 = w2
    None = None
    Unreadable = Unreadable
    ReadMayFail = TRUE
    Tables <- TwoTables
    Relations <- TwoRelations
    Owners <- OneOwner
    Workers <- TwoWorkers
    Listings <- GrowingListing
    Excluded <- Nothing
    Declared <- TwoDeclared
    Candidates <- TwoCandidates
    Infer = TRUE
    LegacyDone <- OrdersOnly
    OracleMayFail = TRUE
    DiskMayFail = TRUE
    ProgressMayThrow = FALSE
    MaxRuns = 4
SPECIFICATION Spec
SYMMETRY WorkerSymmetry
INVARIANTS
    LateStarts
    CompletedMeansNothingSkipped
    ReportMatchesCheckpoint
    CleanExit
    PhaseBarrier
    OneWorkerPerUnit
PROPERTIES
    DurableResults
    ImplementsResumableScan

CONSTANTS
    w1 = w1
    w2 = w2
    w3 = w3
    Workers <- MCWorkers
    Main = main
    Pools <- MCPools
    MaxUnits = 3
    MaxBreaks = 1
SPECIFICATION FairSpec
INVARIANTS
    LeasesExclusive
    NoLostWakeup
    NoCursorLeft
    NobodyWaits
    SessionsEnded
    InductiveInvariant
PROPERTY EveryRequestServed

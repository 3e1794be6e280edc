CONSTANTS
    w1 = w1
    w2 = w2
    w3 = w3
    Workers <- ThreeWorkers
    Owner = Owner
    Free = Free
    MaxTasks = 3
    SpawnMayFail = TRUE
    MayThrow = TRUE
SPECIFICATION FairSpec
INVARIANTS
    NothingLeftBehind
    BarrierIsTight
    NoLostWakeup
    InductiveInvariant
PROPERTIES
    ImplementsTaskPool
    PoolEnds
    EveryTaskRuns

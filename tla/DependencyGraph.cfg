CONSTANTS
    Names <- MCNames
    MaxEdges = 5
SPECIFICATION Spec
INVARIANTS
    InductiveInvariant
    CyclesAreReal
    CyclesSuffice
    OrderIsComplete

SPECIFICATION Spec
CONSTANTS
    Workers = {w1, w2}
    NumAccounts = 5
    GroupSize = 2
    MaxBatch = 2
    MaxAttempts = 2
    Unit = 2
    ConfiguredRate = 4
    MinRate = 2
    PenaltyTicks = 2
INVARIANTS
    TypeOK
    ResolvedInOrder
    NeverOverTheRate
PROPERTIES
    EveryWorkerStops

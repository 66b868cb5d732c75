CONSTANTS
    Totals <- SomeTotals
    ChunkSize = 2
    MaxRuns = 2
SPECIFICATION Spec
CHECK_DEADLOCK FALSE
INVARIANTS
    TypeOK
    OneItemEach
    NoSilentLoss
    AckHoldsForAll
    NoDuplicates
    Converges

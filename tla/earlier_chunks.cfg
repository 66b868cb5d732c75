CONSTANTS
    Totals <- SomeTotals
    ChunkSize = 2
    MaxRuns = 1
SPECIFICATION Spec
CHECK_DEADLOCK FALSE
INVARIANTS
    EarlierChunksWritten

SPECIFICATION MCSpec
CONSTANTS
    MaxSequence = 3
    BatchSize = 2
    MaxRuns = 1
    NumericSequence = {FALSE}
    Loads = {}
    RowIds = {1}
    MaxBatchSize = 1
    MaxRowWrites = 0
    MaxQueryFaults = 0
    MaxClears = 0
    u1 = u1
    u2 = u2
    u3 = u3
    d1 = d1
    d2 = d2
    Parents = {u1}
    Children = {d1, d2}
    Nil = Nil
    RelationLoads = {}
    Readers = {}
    RelationBatch = 1
    MaxMoves = 0
    Rehydrators = {h1, h2}
    MaxLength = 0
    MaxRehydrations = 0
    MaxLoadFaults = 0
INVARIANT CompleteWithAnyDriver
CHECK_DEADLOCK FALSE

SPECIFICATION MCSpec
CONSTANTS
    MaxSequence = 4
    BatchSize = 2
    MaxRuns = 2
    NumericSequence = {TRUE, FALSE}
    Loads = {l1, l2, l3}
    RowIds = {1, 2}
    MaxBatchSize = 2
    MaxRowWrites = 1
    MaxQueryFaults = 1
    MaxClears = 1
    u1 = u1
    u2 = u2
    u3 = u3
    d1 = d1
    d2 = d2
    Parents = {u1, u2, u3}
    Children = {d1, d2}
    Nil = Nil
    RelationLoads <- MCLoads
    Readers = {r1, r2}
    RelationBatch = 2
    MaxMoves = 3
    Rehydrators = {h1, h2}
    MaxLength = 4
    MaxRehydrations = 4
    MaxLoadFaults = 1
INVARIANTS
    EveryEventOnce
    LoadsAreTrue
PROPERTIES
    CallEnds
    LoadsAndReadersSettle
CHECK_DEADLOCK FALSE

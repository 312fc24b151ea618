SPECIFICATION MCSpec
CONSTANTS
    s1 = s1
    s2 = s2
    Outside = outside
    Sessions = {s1, s2}
    Ids = {1, 2}
    ObjectBound = 6
    MaxVersion = 2
    Settings <- OtherProcess
    root = root
    near = near
    far = far
    Entities = {root, near, far}
    Root = root
    Copy = copy
    Nothing = Nothing
    Refs = {}
    Kids = {}
    Peers = {}
    CascadeSettings = {}
    BuilderKinds = {}
    Arities = {}
    MaxBuilderCalls = 0
    BulkRows = {}
    BulkColumns = {}
    ChunkSizes = {}
    Finders = {}
    DigitWords = {}
    InLengths = {}
    MaxFinderCalls = 0
    BulkCallers = {1, 2}
    Stored = {1, 2}
    MaxBulkCalls = 0
    MaxBulkFaults = 1
    MaxRowVersion = 3
    MaxInserted = 1
    FilterKinds = {}
    FilterCallers = {1, 2}
    Rows = {1, 2, 3}
    RowTenant <- MCRowTenant
    Hides <- MCHides
    FilterOptions <- MCOptions
INVARIANT NoGhostAfterRefusal
SYMMETRY Symmetry

SPECIFICATION MCSpec
CONSTANTS
    s1 = s1
    s2 = s2
    Outside = outside
    Sessions = {s1, s2}
    Ids = {1}
    ObjectBound = 5
    MaxVersion = 2
    Settings <- ManySettings
    root = root
    near = near
    far = far
    Entities = {root, near, far}
    Root = root
    Copy = copy
    Nothing = Nothing
    Refs <- MCRefs
    Kids <- MCKids
    Peers <- MCPeers
    CascadeSettings <- MCCascadeSettings
    BuilderKinds = {"select", "update", "delete", "insert"}
    Arities = {0, 1, 2}
    MaxBuilderCalls = 3
    BulkRows = {1, 2, 3, 5}
    BulkColumns = {1, 2}
    ChunkSizes = {1, 2, 3}
    Finders <- MCFinders
    DigitWords = {"Line1"}
    InLengths = {0, 1, 2}
    MaxFinderCalls = 2
    BulkCallers = {1, 2}
    Stored = {1, 2}
    MaxBulkCalls = 3
    MaxBulkFaults = 1
    MaxRowVersion = 3
    MaxInserted = 1
    FilterKinds <- MCFilters
    FilterCallers = {1, 2}
    Rows = {1, 2, 3}
    RowTenant <- MCRowTenant
    Hides <- MCHides
    FilterOptions <- MCOptions
INVARIANTS
    CoherentCaches
    CleanMeansStored
    WritesAreWhole
    QueriesMeanWhatIsAsked
PROPERTY NoLostUpdate
SYMMETRY Symmetry

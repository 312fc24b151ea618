SPECIFICATION MCSpec
CONSTANTS
    Sessions = {s1, s2}
    Aggregates = {a1, a2}
    MaxApplied = 2
    MaxSequence = 4
    TxAdapters = {"pg", "bunpg", "mysql", "sqlite", "libsql", "d1"}
    TxCallers = {o1, o2}
    TxSessions = {z1, z2}
    Handle = z1
    NoSession = NoSession
    Savepoints = {"a"}
    MaxWrites = 2
    MaxMarks = 1
    MaxBegins = 1
    MaxTxFaults = 1
    Adapters = {"pg", "bunpg", "denopg", "mysql", "sqlite", "bunsqlite", "libsql", "d1"}
    Texts <- MCTexts
    NamedTexts <- MCNamedTexts
    ParamValues = {x, y}
    Null = Null
    MaxIndex = 2
    MaxRows = 2
    MaxUses = 2
    CursorKinds = {"pg", "mysql", "sqlite"}
    CursorSizes = {1, 2, 3}
    MaxResult = 5
    MaxNext = 3
    TreeKinds = {"closure", "path"}
    Nodes = {1, 2, 3}
    TreeCallers = {t1, t2}
    NoNode = NoNode
    MaxTreeCalls = 3
    MaxTreeFaults = 1
    BusKinds = {"events", "adapter"}
    Handlers = {h1, h2}
    Emitters = {e1, e2}
    EventKinds = {k1, k2}
    MaxEntries = 2
    MaxEmits = 3
    Dispatchers = {p1}
    Middlewares = {"log", "validate", "retry"}
    MaxMiddlewares = 3
    MaxRetries = 1
    MaxRegistrations = 2
    MaxDispatches = 2
    EndpointKinds <- MCEndpoints
    Requests = {1, 2}
    NoRequest = 0
    Columns = {f, g}
    MaxUpdateFaults = 1
INVARIANTS
    TypeOK
    VersionsContiguous
    SequenceFollowsVersion
    StoredAsApplied
    DriverTransactionsHold
    ValuesArrive
    TreesHold
    MessagesHold
    EndpointsHold
PROPERTY ImplementsEventLog
SYMMETRY Symmetry

SPECIFICATION MCSpec
CONSTANTS
    Sessions = {s1, s2}
    Aggregates = {a1, a2}
    MaxApplied = 2
    MaxSequence = 4
    TxAdapters = {}
    TxCallers = {o1}
    TxSessions = {z1}
    Handle = z1
    NoSession = NoSession
    Savepoints = {}
    MaxWrites = 0
    MaxMarks = 0
    MaxBegins = 0
    MaxTxFaults = 0
    Adapters = {}
    Texts = {}
    NamedTexts = {}
    ParamValues = {}
    Null = Null
    MaxIndex = 0
    MaxRows = 0
    MaxUses = 0
    CursorKinds = {}
    CursorSizes = {1}
    MaxResult = 0
    MaxNext = 0
    TreeKinds = {}
    Nodes = {1}
    TreeCallers = {t1}
    NoNode = NoNode
    MaxTreeCalls = 0
    MaxTreeFaults = 0
    BusKinds = {}
    Handlers = {}
    Emitters = {}
    EventKinds = {}
    MaxEntries = 0
    MaxEmits = 0
    Dispatchers = {}
    Middlewares = {}
    MaxMiddlewares = 0
    MaxRetries = 0
    MaxRegistrations = 0
    MaxDispatches = 0
    EndpointKinds <- MCEndpoints
    Requests = {}
    NoRequest = 0
    Columns = {f, g}
    MaxUpdateFaults = 1
PROPERTY NewEventsContinueTheStream

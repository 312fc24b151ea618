SPECIFICATION MCSpec
CONSTANTS
    e1 = e1
    e2 = e2
    e3 = e3
    p1 = p1
    p2 = p2
    Events = {e1, e2, e3}
    Polls = {p1, p2}
    BatchSize = 2
    ChunkSize = 1
    MaxTime = 1
    MaxFaults = 1
    AutoOutbox = {e3}
    PageSettings <- MCPages
    RowIds = {1, 2, 3}
    SortValues = {1, 2}
    SqlNull = 9
    MaxRowChanges = 2
    MaxPages = 4
    RoutedSources <- MCSources
    RoutingKinds <- MCRoutings
    RouteKeys = {"ta", "tb"}
    NoTenant = "none"
    RoutedCallers = {"caller"}
    MaxScopes = 2
    MaxAsks = 2
    MaxRouteChanges = 1
    MaxRouteFaults = 1
INVARIANTS
    TypeOK
    NothingLost
    OnlyCommittedDelivered
    PagesHold
    RoutingHolds
PROPERTY ImplementsAtLeastOnce

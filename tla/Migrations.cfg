SPECIFICATION MCSpec
CONSTANTS
    s1 = s1
    s2 = s2
    d1 = d1
    d2 = d2
    Schemas <- MCSchemas
    Deployers <- MCDeployers
    Versions = {1, 2}
    Guarded = {1}
    MaxCalls = 3
    MaxFaults = 1
    Settings <- MCSettings
    SourceKinds = {"listen", "poll"}
    MaxNotes = 3
    MaxStreams = 2
    QueueSize = 2
    MaxPolls = 1
    Architects = {a1, a2}
    Designs <- MCDesigns
    MaxScripts = 4
    MaxSourceFaults = 1
INVARIANTS
    SchemasInOrder
    ReportsHold
    NotificationsHold
PROPERTIES
    CallReturns
    NotificationsEnd
CHECK_DEADLOCK FALSE

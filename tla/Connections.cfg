SPECIFICATION MCSpec
CONSTANTS
    s1 = s1
    s2 = s2
    Sessions <- MCSessions
    Clients = {c1, c2}
    Tenants = {t1, t2}
    Public = public
    Nobody = Nobody
    MaxIdle = 1
    MaxPings = 2
    MaxCalls = 3
    MaxFaults = 1
    Settings <- MCSettings
    HealthKinds <- MCHealth
    Checkers = {1, 2}
    PoolSlots = {"x", "y"}
    NoSlot = "no slot"
    ExpectedSchemas = {"a", "b"}
    MaxHealthFaults = 1
INVARIANTS
    ConnectionsInPlace
    TenantIsolation
    IdleIsReset
PROPERTIES
    WaitersAnswered
    CloseEndsEveryClient
CHECK_DEADLOCK FALSE

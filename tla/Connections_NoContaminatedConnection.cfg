SPECIFICATION MCSpec
CONSTANTS
    s1 = s1
    s2 = s2
    Sessions <- MCSessions
    Clients = {c1, c2}
    Tenants = {t1, t2}
    Public = public
    Nobody = Nobody
    MaxIdle = 1
    MaxPings = 2
    MaxCalls = 2
    MaxFaults = 1
    Settings <- MCSettings
    HealthKinds <- MCHealth
    Checkers = {}
    PoolSlots = {"x", "y"}
    NoSlot = "no slot"
    ExpectedSchemas = {"a", "b"}
    MaxHealthFaults = 1
INVARIANT
    NoContaminatedConnection
CHECK_DEADLOCK FALSE

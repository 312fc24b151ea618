SPECIFICATION MCSpec
CONSTANTS
    Nobody = Nobody
    Admins = {a1, a2}
    Schemas = {s1, s2, s3}
    Tables = {t1}
    MaxTenants = 1
    MaxCalls = 2
    MaxFaults = 0
    CacheKinds = {}
    CacheOwners = {o1}
    CacheKeys = {k1}
    CacheValues = {v1}
    NoKey = NoKey
    Classes = {c1}
    Capacity = 1
    MaxTotalSize = 1
    Lifetime = 1
    PluginKinds = {}
    PluginCallers = {1}
    MaxPluginFaults = 0
    SeedKinds = {}
    Runners = {1}
    Environments = {"dev"}
    MaxSeedFaults = 0
    TestKinds = {}
INVARIANT TenantLimit
CHECK_DEADLOCK FALSE

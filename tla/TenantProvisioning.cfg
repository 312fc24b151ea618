SPECIFICATION MCSpec
CONSTANTS
    Nobody = Nobody
    Admins = {a1, a2}
    Schemas = {s1, s2, s3}
    Tables = {t1, t2}
    MaxTenants = 1
    MaxCalls = 4
    MaxFaults = 1
    CacheKinds = {"pool", "statement", "query", "entity"}
    CacheOwners = {o1, o2}
    CacheKeys = {k1, k2, k3}
    CacheValues = {v1}
    NoKey = NoKey
    Classes = {c1, c2}
    Capacity = 2
    MaxTotalSize = 3
    Lifetime = 1
    PluginKinds <- MCPlugins
    PluginCallers = {1, 2}
    MaxPluginFaults = 1
    SeedKinds <- MCSeeds
    Runners = {1, 2}
    Environments = {"dev", "test"}
    MaxSeedFaults = 1
    TestKinds <- MCTests
INVARIANTS
    LimitHoldsUpToRaces
    SetUpHolds
    MapListAndIndexAgree
PROPERTIES
    CallReturns
    CachesAreLru
CHECK_DEADLOCK FALSE

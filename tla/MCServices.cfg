\* The components beside the trading core, one at a time.
SPECIFICATION ServicesSpec
CONSTANTS
    Account = {"a", "b"}
    Core = {"market", "house"}
    Impl = {"v2", "v3", "eoa"}
    Deployed = {"v2", "v3"}
    MaxUpgradeWindow = 1
    MaxTime = 3
    PoolSize = 2
    Callers = {1}
    Ops = {"read", "send", "logs"}
    Lagging = {0}
    PoolBackoff = 1
    MaxChanges = 3
    Url = {"u1", "u2"}
    Event = {"Listed"}
    Subscribed = {"Listed"}
    Dispatchers = {"a"}
    Requests = {1}
    Keys = {"k1", "k2"}
    Cap = 1
    Buffer = 1
    MaxHookFaults = 1
    Tabs = {1, 2}
    Calls = {1, 2}
    NonceTTL = 1
    TokenTTL = 1
    BelievedTTL = 2
    MaxNonces = 2
    MaxClock = 2
    MaxRepeats = 1
    Address = {"ann", "bob"}
    Sweepers = {"a", "b"}
    PayoutBatch = 1
    MaxCredits = 3
    MaxSweepFaults = 1
    Clients = {1, 2, 3, 4}
    IP <- MCIP
    PerIPLimit = 2
    GlobalLimit = 2
    Token = {"t1"}
    Says <- MCSays
    Workers = {"a", "b"}
    Retriers = {"a"}
    Evictors = {"b"}
    Limit = 1
    Concurrency = 1
    BlobCap = 2
    AlertAt = 2
    EvictTo = 1
    MaxRetries = 2
    MaxMediaFaults = 1
CHECK_DEADLOCK FALSE
INVARIANTS
    ServicesTypeOK
    OneInstallPerApproval
    PoolAnswersHold
    
    SessionsHold
PROPERTIES
    Sealed
    RowsSettle
    

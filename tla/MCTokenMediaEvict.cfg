\* One token whose metadata is hosted and whose image is not, a store at its target.
SPECIFICATION Spec
CONSTANTS
    Token = {"t1"}
    Says <- MCSays
    Instances = {"a"}
    Retriers = {"a"}
    Evictors = {"a"}
    Limit = 1
    Concurrency = 1
    Cap = 2
    AlertAt = 2
    EvictTo = 1
    MaxRetries = 2
    MaxFaults = 1
CHECK_DEADLOCK FALSE
PROPERTY OnlyUnreferencedListed

\* Two instances, both may die, one lost call, failed probe or Yield.
SPECIFICATION FairSpec
CONSTANTS
    Instance = {1, 2}
    MissedThreshold = 2
    MaxDegraded = 2
    MayCrash = {1, 2}
    MaxFaults = 1
CHECK_DEADLOCK FALSE
INVARIANTS
    TypeOK
    KeepersRunOnlyForLeader
    NoOrphanWaiter
    GateMatchesLock
 

\* A listing and its renewal; two events not yet indexed, or one and a fault; fair loops.
SPECIFICATION FairSiteSpec
CONSTANTS
    s = s
    b = b
    k = k
    f = f
    c = c
    NoAddr = NoAddr
    Address = {s, b, k, f}
    Users = {s, b}
    Keepers = {k}
    FeeRecipient = f
    Rejecting = {}
    Collections = {c}
    TokenIds = {1}
    ERC1155 = {}
    UnitCounts = {1}
    InitialWallet <- MCInitialWallet
    InitialBalance <- MCInitialBalance
    MinPrice = 200
    Prices = {200}
    Durations = {1}
    MaxBatch = 1
    Approvers = {s}
    MaxLog = 2
    MaxFaults = 1
    MaxTime = 3
CHECK_DEADLOCK FALSE
INVARIANTS
    SiteTypeOK
    
PROPERTIES
    SweepSparesRunning
    ExpiredRowsGo
    UnmarkedListingsGo

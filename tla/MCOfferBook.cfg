\* One ERC-1155, a bidder that refuses pushes, an owner that becomes keeper.
SPECIFICATION FairSpec
CONSTANTS
    s = s
    b = b
    k = k
    f = f
    c = c
    NoAddr = NoAddr
    Address = {s, b, k, f}
    Users = {s, b}
    Keepers = {k, s}
    FeeRecipient = f
    Rejecting = {b}
    Collections = {c}
    TokenIds = {1}
    ERC1155 = {c}
    UnitCounts = {1, 2}
    Curators <- MCCurators
    InitialWallet <- MCInitialWallet
    InitialBalance <- MCInitialBalance
    MinPrice = 200
    Principals = {200, 230}
    Durations = {1, 2}
    MaxUint80 = 100
    MaxSold = 230
    MaxTime = 3
CHECK_DEADLOCK FALSE
INVARIANTS
    TypeOK
    EveryWeiAccounted
PROPERTIES
    EveryPositionIsASlot
    NoPrincipalStranded

\* One ERC-721 and one ERC-1155 of two units, a seller that refuses pushes and becomes keeper.
SPECIFICATION Spec
CONSTANTS
    s = s
    b = b
    k = k
    f = f
    c = c
    d = d
    NoAddr = NoAddr
    Address = {s, b, k, f}
    Users = {s, b}
    Keepers = {k, s}
    FeeRecipient = f
    Rejecting = {s}
    Collections = {c, d}
    TokenIds = {1}
    ERC1155 = {d}
    UnitCounts = {1, 2}
    InitialWallet <- MCInitialWallet
    InitialBalance <- MCInitialBalance
    MinPrice = 200
    Prices = {230}
    Durations = {1}
    MaxBatch = 2
    MaxTime = 2
CHECK_DEADLOCK FALSE
INVARIANT EveryWeiAccounted

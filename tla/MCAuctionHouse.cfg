\* Two auctions of one ERC-1155, two bidders, one of which refuses pushes.
SPECIFICATION Spec
CONSTANTS
    s = s
    b1 = b1
    b2 = b2
    k = k
    f = f
    NoAddr = NoAddr
    Address = {s, b1, b2, k, f}
    Users = {s, b1, b2, k}
    Sellers = {s}
    Keepers = {k}
    FeeRecipient = f
    Rejecting = {b2}
    Token = {1}
    ERC1155 = {1}
    InitialWallet <- MCInitialWallet
    MinPrice = 200
    Reserves = {200}
    BidAmounts = {230, 430}
    Durations = {1}
    ExtensionWindow = 2
    MaxTotalExtension = 1
    SellerDefaultWindow = 1
    MinBidIncrement = 200
    MaxUint96 = 1000
    MaxUint128 = 1000
    MaxBatch = 2
    MaxAuctions = 2
    MaxTime = 5
CHECK_DEADLOCK FALSE
INVARIANTS
    TypeOK
    EveryWeiAccounted
    BestBidLeads
    OvertimeBounded
    SoldEscrowConsumed
PROPERTY EveryAuctionIsEnglish

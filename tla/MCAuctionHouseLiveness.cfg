\* One auction of either standard; a bidder that is also seller and keeper, and a
\* surviving bidder that is a contract and may refuse a push.
SPECIFICATION FairSpec
CONSTANTS
    s = s
    b1 = b1
    b2 = b2
    k = k
    f = f
    Survivor = b2
    NoAddr = NoAddr
    Address = {s, b1, b2, k, f}
    Users = {s, b1, b2, k}
    Sellers = {s, b1}
    Keepers = {k, b1}
    FeeRecipient = f
    Rejecting = {b2}
    Token = {1, 2}
    ERC1155 = {2}
    InitialWallet <- MCInitialWallet
    MinPrice = 200
    Reserves = {200}
    BidAmounts = {230, 430}
    Durations = {1}
    ExtensionWindow = 2
    MaxTotalExtension = 1
    SellerDefaultWindow = 1
    MinBidIncrement = 200
    MaxUint96 = 1000
    MaxUint128 = 1000
    MaxBatch = 2
    MaxAuctions = 1
    MaxTime = 5
CHECK_DEADLOCK FALSE
PROPERTY SurvivorNeverStuck

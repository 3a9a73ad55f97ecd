--------------------------- MODULE MCChainWatcher ---------------------------
EXTENDS ChainWatcher, TLC
CONSTANTS a, b
Ev(tx, type, who, to, amount) ==
    [tx |-> tx, type |-> type, who |-> who, to |-> to, amount |-> amount]
MCHistories ==
    {<<Ev(1, "AuctionCreated", a, Nobody, 5), Ev(2, "BidPlaced", b, Nobody, 2),
       Ev(3, "AuctionSettled", b, a, 2)>>,
     <<Ev(1, "AuctionCreated", a, Nobody, 5), Ev(2, "AuctionExtended", Nobody, Nobody, 6),
       Ev(3, "AuctionCancelled", Nobody, Nobody, 0)>>,
     <<Ev(1, "OfferMade", b, Nobody, 2), Ev(2, "OfferAccepted", a, b, 2),
       Ev(3, "KeeperSet", a, b, 0)>>,
     <<Ev(1, "OfferMade", b, Nobody, 3), Ev(2, "OfferRefunded", b, Nobody, 3)>>,
     <<Ev(1, "TransferSingle", Nobody, a, 2), Ev(2, "TransferSingle", a, b, 1)>>}
MCMoves == {<<Ev(1, "TransferSingle", Nobody, a, 2), Ev(2, "TransferSingle", a, b, 1)>>}
Budget(reorgs, faults, seen) == [reorgs |-> reorgs, faults |-> faults, observed |-> seen]
MCBudgets == {Budget(1, 1, 0), Budget(0, 1, 1), Budget(0, 2, 0)}
=============================================================================

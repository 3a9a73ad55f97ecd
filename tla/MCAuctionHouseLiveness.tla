----------------------- MODULE MCAuctionHouseLiveness -----------------------
EXTENDS AuctionHouseLiveness
CONSTANTS s, b1, b2, k, f
MCInitialWallet == [a \in Address |-> IF a \in {b1, b2} THEN 860 ELSE 0]
=============================================================================

--------------------------- MODULE MCListingIndex ---------------------------
EXTENDS ListingIndex
CONSTANTS s, b, k, f, c
MCInitialWallet == [a \in Address |-> IF a = b THEN 200 ELSE 0]
MCInitialBalance ==
    [nft \in Nft |-> [a \in Address |-> IF a = s THEN 1 ELSE 0]]
=============================================================================

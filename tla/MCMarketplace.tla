--------------------------- MODULE MCMarketplace ---------------------------
EXTENDS Marketplace
CONSTANTS s, b, k, f, c, d
MCInitialWallet == [a \in Address |-> IF a = b THEN 230 ELSE 0]
MCInitialBalance ==
    [nft \in Nft |-> [a \in Address |->
        IF a = s THEN (IF nft[1] \in ERC1155 THEN 2 ELSE 1) ELSE 0]]
=============================================================================

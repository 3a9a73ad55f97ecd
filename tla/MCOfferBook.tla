---------------------------- MODULE MCOfferBook ----------------------------
EXTENDS OfferBook
CONSTANTS s, b, k, f, c
MCInitialWallet == [a \in Address |-> IF a = b THEN 450 ELSE 0]
MCInitialBalance ==
    [nft \in Nft |-> [a \in Address |->
        IF a = s THEN (IF nft[1] \in ERC1155 THEN 2 ELSE 1) ELSE 0]]
MCCurators == [col \in Collections |-> {s}]
=============================================================================

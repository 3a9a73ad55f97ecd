---------------------------- MODULE OfferQuotes ----------------------------
(***************************************************************************)
(* A seller reads a position, signs acceptOffer with the principal read,   *)
(* and the transaction lands later: between the two the bidder may edit.   *)
(***************************************************************************)
EXTENDS OfferBook

VARIABLE quote  \* seller -> the position it read, and where; or NoQuote

quoteVars == <<vars, quote>>

NoQuote == <<>>

QuoteInit == Init /\ quote = [u \in Users |-> NoQuote]

ReadPosition(seller, nft, bidder) ==
    /\ quote[seller] = NoQuote
    /\ positions[nft][bidder].principal > 0
    /\ quote' = [quote EXCEPT ![seller] =
                    [nft |-> nft, bidder |-> bidder, p |-> positions[nft][bidder]]]
    /\ UNCHANGED vars

\* expectedPrincipal is the principal the seller read.
AcceptQuoted(seller) ==
    /\ quote[seller] # NoQuote
    /\ LET q == quote[seller]
       IN  AcceptFor(seller, q.nft, q.bidder, q.p.principal)
    /\ quote' = [quote EXCEPT ![seller] = NoQuote]

QuoteNext ==
    \/ \E u, b \in Users, nft \in Nft : ReadPosition(u, nft, b)
    \/ \E u \in Users : AcceptQuoted(u)
    \/ /\ UNCHANGED quote
       /\ \/ \E u \in Users, c \in Collections, flag \in BOOLEAN :
                SetOfferEligible(u, c, flag)
          \/ MakeSomeOffer
          \/ RefundSome
          \/ Environment

QuoteSpec == QuoteInit /\ [][QuoteNext]_quoteVars

----------------------------------------------------------------------------
Terms(p) == <<p.principal, p.units>>

\* "Price the seller signed for must be the price they get": an accept trades
\* the principal and the units the seller read, whatever edits came between
\* (acceptOffer's expectedPrincipal).
AcceptedAsQuoted ==
    [][\A u \in Users :
          quote[u] # NoQuote /\ quote'[u] = NoQuote =>
             LET q == quote[u] IN Terms(positions[q.nft][q.bidder]) = Terms(q.p)
      ]_quoteVars
=============================================================================

--------------------------- MODULE ListingQuotes ---------------------------
(***************************************************************************)
(* A buyer opens a listing's page and presses Buy.  The browser reads the  *)
(* price again (the preflight), builds buy() and the wallet sends it; the  *)
(* transaction lands later, and the seller may edit, cancel and relist at  *)
(* any point in between.                                                   *)
(***************************************************************************)
EXTENDS Marketplace

VARIABLE quote  \* buyer -> the listing its page shows, and what it signed

quoteVars == <<vars, quote>>

NoQuote == <<>>

\* Before request() has answered there is no transaction.
Unsigned == 0

QuoteInit == Init /\ quote = [u \in Users |-> NoQuote]

OpenPage(buyer, nft, seller) ==
    /\ quote[buyer] = NoQuote
    /\ Live(listings[nft][seller])
    /\ quote' = [quote EXCEPT ![buyer] =
                    [nft |-> nft, seller |-> seller,
                     shown |-> listings[nft][seller], value |-> Unsigned]]
    /\ UNCHANGED vars

SignAt(buyer, price) == quote' = [quote EXCEPT ![buyer].value = price]

Pending(buyer) == quote[buyer] # NoQuote /\ quote[buyer].value = Unsigned

\* The preflight answers with the price its database holds, which may be any
\* the listing ever had; only one above the price shown stops the purchase.
\* When the preflight fails, the price shown is signed: the same as fresh =
\* shown.
Sign(buyer, fresh) ==
    /\ Pending(buyer)
    /\ fresh <= quote[buyer].shown.price
    /\ SignAt(buyer, fresh)
    /\ UNCHANGED vars

\* The preflight finds a higher price or no listing, the buyer closes the
\* dialog, or the transaction reverts.
GiveUp(buyer) ==
    /\ quote[buyer] # NoQuote
    /\ quote' = [quote EXCEPT ![buyer] = NoQuote]
    /\ UNCHANGED vars

BuyQuoted(buyer) ==
    /\ quote[buyer] # NoQuote /\ ~Pending(buyer)
    /\ LET q == quote[buyer] IN BuyAt(buyer, q.nft, q.seller, q.value)
    /\ quote' = [quote EXCEPT ![buyer] = NoQuote]

QuoteNext ==
    \/ \E b, u \in Users, nft \in Nft : OpenPage(b, nft, u)
    \/ \E b \in Users, p \in Prices : Sign(b, p)
    \/ \E b \in Users : GiveUp(b) \/ BuyQuoted(b)
    \/ (SellerSteps \/ KeeperSteps \/ Environment) /\ UNCHANGED quote

QuoteSpec == QuoteInit /\ [][QuoteNext]_quoteVars

----------------------------------------------------------------------------
\* A purchase followed from the page to the block: the step that ends it.
Completes(b) == quote[b] # NoQuote /\ vars' # vars /\ quote'[b] = NoQuote

\* "A stale page cannot overpay": a purchase brings at least the units the page
\* shows for the price it shows (buy() in tx/marketplace.ts; buy() of the
\* contract compares the price of the listing and not its amount).
NeverFewerThanShown ==
    [][\A b \in Users : Completes(b) =>
          LET q == quote[b]
          IN  listings[q.nft][q.seller].amount >= q.shown.amount]_quoteVars
=============================================================================

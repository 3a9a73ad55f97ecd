------------------------------ MODULE EventRows ------------------------------
(***************************************************************************)
(* What the handlers of contract events write: one auction, one offer      *)
(* position, one ERC-1155 token and the governance trail, as a record of   *)
(* tables and one function per handler.  An event is                       *)
(*   [tx, type, who, to, amount]                                           *)
(* with one event to a transaction; "tx" stands for tx_hash and log_index. *)
(* Listings and ERC-721 owners are in ListingIndex.                        *)
(***************************************************************************)
EXTENDS Integers, FiniteSets, SequencesExt

CONSTANT Holders   \* accounts that bid, offer and hold units

AuctionEvents == {"AuctionCreated", "BidPlaced", "AuctionExtended",
                  "AuctionSettled", "AuctionCancelled"}
OfferEvents == {"OfferMade", "OfferAccepted", "OfferRefunded"}
EventTypes == AuctionEvents \cup OfferEvents \cup {"TransferSingle", "KeeperSet"}

Nobody == "nobody"   \* the zero address
Events == [tx : Nat, type : EventTypes, who : Holders \cup {Nobody},
           to : Holders \cup {Nobody}, amount : Nat]

Tables == [auction : [status : {"none", "active", "settled", "cancelled"},
                      leader : Holders \cup {Nobody}, high : Nat, endsAt : Nat],
           bids : SUBSET [tx : Nat, who : Holders, amount : Nat],
           offer : [pending : Nat, closed : Nat],
           sales : SUBSET Nat,
           units : [Holders -> Nat],
           trail : SUBSET Nat]

NoRows == [auction |-> [status |-> "none", leader |-> Nobody, high |-> 0, endsAt |-> 0],
           bids |-> {}, offer |-> [pending |-> 0, closed |-> 0], sales |-> {},
           units |-> [h \in Holders |-> 0], trail |-> {}]

----------------------------------------------------------------------------
(* Auctions.  A created auction is written over whatever the row held; a   *)
(* bid is one row per transaction and the leader is computed from them.    *)

OnAuctionCreated(t, e) ==
    [t EXCEPT !.auction = [status |-> "active", leader |-> Nobody, high |-> 0,
                           endsAt |-> e.amount]]

Total(bids, h) == FoldSet(LAMBDA b, sum : b.amount + sum, 0, {b \in bids : b.who = h})

\* A tie may go either way in the code; the contract allows none.
LeaderOf(bids) == CHOOSE h \in Holders :
                      \A g \in Holders : Total(bids, g) <= Total(bids, h)

\* Mutation: each dispatch of a bid adds to the leading amount.
OnBidPlacedAdding(t, e) ==
    LET rows == t.bids \cup {[tx |-> e.tx, who |-> e.who, amount |-> e.amount]}
    IN  [t EXCEPT !.bids = rows, !.auction.leader = e.who, !.auction.high = @ + e.amount]

OnBidPlaced(t, e) ==
    LET rows == IF \E b \in t.bids : b.tx = e.tx THEN t.bids
                ELSE t.bids \cup {[tx |-> e.tx, who |-> e.who, amount |-> e.amount]}
    IN  [t EXCEPT !.bids = rows,
                  !.auction.leader = LeaderOf(rows),
                  !.auction.high = Total(rows, LeaderOf(rows))]

OnAuctionExtended(t, e) ==
    IF t.auction.status = "active" THEN [t EXCEPT !.auction.endsAt = e.amount] ELSE t

SetAuctionStatus(t, status) ==
    IF t.auction.status = "none" THEN t ELSE [t EXCEPT !.auction.status = status]

OnAuctionSettled(t, e) == SetAuctionStatus(t, "settled")
OnAuctionCancelled(t, e) == SetAuctionStatus(t, "cancelled")

----------------------------------------------------------------------------
(* Offers: only pending positions are unique, closed rows pile up.         *)

OnOfferMade(t, e) == [t EXCEPT !.offer.pending = e.amount]

CloseOffer(t) ==
    IF t.offer.pending = 0 THEN t
    ELSE [t EXCEPT !.offer = [pending |-> 0, closed |-> @.closed + 1]]

OnOfferAccepted(t, e) == [CloseOffer(t) EXCEPT !.sales = @ \cup {e.tx}]
OnOfferRefunded(t, e) == CloseOffer(t)

----------------------------------------------------------------------------
(* Units of the ERC-1155 are added and subtracted, floor 0.                *)

Credit(units, to, n) == IF to = Nobody THEN units ELSE [units EXCEPT ![to] = @ + n]
\* Mutation: the floor is missing.
DebitBelowZero(units, from, n) ==
    IF from = Nobody THEN units ELSE [units EXCEPT ![from] = @ - n]

Debit(units, from, n) ==
    IF from = Nobody THEN units ELSE [units EXCEPT ![from] = IF @ > n THEN @ - n ELSE 0]

OnTransferSingle(t, e) ==
    [t EXCEPT !.units = Debit(Credit(@, e.to, e.amount), e.who, e.amount)]

----------------------------------------------------------------------------
(* Governance: a row per log, and only a new one is announced.             *)

OnGovernance(t, e) == [t EXCEPT !.trail = @ \cup {e.tx}]

Dispatch(t, e) ==
    CASE e.type = "AuctionCreated"   -> OnAuctionCreated(t, e)
      [] e.type = "BidPlaced"        -> OnBidPlaced(t, e)
      [] e.type = "AuctionExtended"  -> OnAuctionExtended(t, e)
      [] e.type = "AuctionSettled"   -> OnAuctionSettled(t, e)
      [] e.type = "AuctionCancelled" -> OnAuctionCancelled(t, e)
      [] e.type = "OfferMade"        -> OnOfferMade(t, e)
      [] e.type = "OfferAccepted"    -> OnOfferAccepted(t, e)
      [] e.type = "OfferRefunded"    -> OnOfferRefunded(t, e)
      [] e.type = "TransferSingle"   -> OnTransferSingle(t, e)
      [] e.type = "KeeperSet"        -> OnGovernance(t, e)

\* The foreign key of bids: a bid of an auction without a row is refused.
Refused(t, e) == e.type = "BidPlaced" /\ t.auction.status = "none"

\* Mutation: a governance event is announced whether its row is new or not.
NotifiesEveryTime(t, e) ==
    e.type \in {"AuctionSettled", "OfferAccepted", "OfferRefunded", "KeeperSet"}

\* The handlers that notify users, and whether this dispatch does.
Notifies(t, e) ==
    \/ e.type \in {"AuctionSettled", "OfferAccepted", "OfferRefunded"}
    \/ e.type = "KeeperSet" /\ e.tx \notin t.trail

\* The tables after each of the events once, in the order of the chain.
RowsAfter(events) ==
    LET after[n \in 0 .. Len(events)] ==
            IF n = 0 THEN NoRows ELSE Dispatch(after[n - 1], events[n])
    IN  after[Len(events)]
==============================================================================

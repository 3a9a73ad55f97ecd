---------------------------- MODULE AuctionHouse ----------------------------
(***************************************************************************)
(* English auctions with cumulative bids that stay in escrow until the     *)
(* auction is settled, cancelled, or the bidder (not leading) withdraws.   *)
(*                                                                         *)
(* One action per external function of the contract.  The caller, the      *)
(* arguments and the outcome of every low-level call are existentially     *)
(* quantified in Next.                                                     *)
(***************************************************************************)
EXTENDS MarketplaceCore, FiniteSets, Functions

CONSTANTS
    Token,               \* the NFTs put up for auction
    ERC1155,             \* the tokens of that standard; the others are ERC-721
    Users,               \* the accounts that call the contract
    Sellers,             \* the users that own and approve tokens
    Keepers,             \* the addresses an admin ever makes keeper
    InitialWallet,       \* what every account holds at the start
    Reserves,            \* the reserves sellers ask for
    BidAmounts,          \* the msg.value of a bid
    ExtensionWindow,     \* EXTENSION_WINDOW
    MaxTotalExtension,   \* MAX_TOTAL_EXTENSION
    SellerDefaultWindow, \* SELLER_DEFAULT_WINDOW
    MinBidIncrement,     \* MIN_BID_INCREMENT
    MaxUint96,           \* type(uint96).max
    MaxUint128,          \* type(uint128).max
    MaxBatch,            \* the longest batch refundLosers accepts
    MaxAuctions          \* bound: the auctions ever created

ASSUME HouseAssumption ==
    /\ ERC1155 \subseteq Token
    /\ Token # {}
    /\ Users \subseteq Address
    /\ Sellers \subseteq Users
    /\ Keepers \subseteq Address
    /\ InitialWallet \in [Address -> Nat]
    /\ Reserves \subseteq Nat
    /\ BidAmounts \subseteq Nat
    /\ ExtensionWindow \in Nat
    /\ MaxTotalExtension \in Nat
    /\ SellerDefaultWindow \in Nat
    /\ MinBidIncrement \in Nat \ {0}
    /\ MaxUint96 \in Nat
    /\ MaxUint128 \in Nat
    /\ MaxBatch \in Nat
    /\ MaxAuctions \in Nat

VARIABLES
    nextAuctionId,  \* the last id handed out
    auctions,       \* id -> Auction; the zero record before creation
    cumulative,     \* id -> bidder -> wei in escrow
    receipt,        \* id -> what the AuctionSettled and FeeSplit events said
    deliverable     \* <<token, owner>>: owner holds it and approves the house

houseVars == <<nextAuctionId, auctions, cumulative, receipt>>
vars == <<coreVars, houseVars, deliverable>>

AuctionId == 1 .. MaxAuctions
Principal == Address \cup {NoAddr}

Auction == [seller : Principal, leader : Principal, token : Token,
            reserve : Nat, endsAt : Nat, originalEndsAt : Nat,
            settled : BOOLEAN]

\* The storage of an id never created; its token is never looked at.
ZeroAuction ==
    [seller |-> NoAddr, leader |-> NoAddr, token |-> CHOOSE t \in Token : TRUE,
     reserve |-> 0, endsAt |-> 0, originalEndsAt |-> 0, settled |-> FALSE]

Receipt == [price : Nat, keeper : Principal]

----------------------------------------------------------------------------
Init ==
    /\ funds = [wallet |-> InitialWallet,
                pendingReturns |-> [a \in Address |-> 0]]
    /\ keeper \in Keepers
    /\ now = 0
    /\ nextAuctionId = 0
    /\ auctions = [id \in AuctionId |-> ZeroAuction]
    /\ cumulative = [id \in AuctionId |-> [a \in Address |-> 0]]
    /\ receipt = [id \in AuctionId |-> [price |-> 0, keeper |-> NoAddr]]
    /\ deliverable = {}

Exists(id) == auctions[id].seller # NoAddr

Open(id) == Exists(id) /\ ~auctions[id].settled

----------------------------------------------------------------------------
(* create, create1155                                                      *)

\* MaxAuctions and MaxTime bound the ids and leave every auction the time to
\* run its longest course.
Create(caller, t, reserve, duration) ==
    LET id == nextAuctionId + 1
        end == ExpiryFor(duration)
    IN  /\ id \in AuctionId
        /\ end + MaxTotalExtension + SellerDefaultWindow <= MaxTime
        /\ reserve >= MinPrice
        /\ reserve <= MaxUint96
        /\ <<t, caller>> \in deliverable
        /\ nextAuctionId' = id
        /\ auctions' = [auctions EXCEPT ![id] =
              [seller |-> caller, leader |-> NoAddr, token |-> t,
               reserve |-> reserve, endsAt |-> end, originalEndsAt |-> end,
               settled |-> FALSE]]
        /\ UNCHANGED <<coreVars, cumulative, receipt, deliverable>>

----------------------------------------------------------------------------
(* bid                                                                     *)

\* Mutation: overtaking by any amount, without the increment.
TakesOrKeepsLeadByAnything(id, bidder, newTotal) ==
    LET a == auctions[id]
    IN  \/ a.leader = bidder
        \/ a.leader = NoAddr /\ newTotal >= a.reserve
        \/ a.leader # NoAddr /\ newTotal > cumulative[id][a.leader]

\* A leader tops up freely; the first bid clears the reserve; an overtaking
\* bid beats the leader's own escrow by the increment.
TakesOrKeepsLead(id, bidder, newTotal) ==
    LET a == auctions[id]
        minNext == cumulative[id][a.leader] + MinBidIncrement
    IN  \/ a.leader = bidder
        \/ a.leader = NoAddr /\ newTotal >= a.reserve
        \/ /\ a.leader \notin {bidder, NoAddr}
           /\ minNext <= MaxUint128
           /\ newTotal >= minNext

\* Mutation: the extension without its hard cap.
EndAfterLeadChangeUncapped(a) ==
    IF a.endsAt - now < ExtensionWindow THEN now + ExtensionWindow ELSE a.endsAt

\* Anti-snipe: only a change of leader extends, and never past the hard cap.
EndAfterLeadChange(a) ==
    LET hardCap == a.originalEndsAt + MaxTotalExtension
        wanted  == now + ExtensionWindow
        newEnd  == IF wanted > hardCap THEN hardCap ELSE wanted
    IN  IF a.endsAt - now < ExtensionWindow /\ newEnd > a.endsAt
        THEN newEnd
        ELSE a.endsAt

Bid(bidder, id, value) ==
    LET a == auctions[id]
        newTotal == cumulative[id][bidder] + value
    IN  /\ Open(id)
        /\ now < a.endsAt
        /\ value > 0
        /\ value <= funds.wallet[bidder]
        /\ newTotal <= MaxUint128
        /\ TakesOrKeepsLead(id, bidder, newTotal)
        /\ cumulative' = [cumulative EXCEPT ![id][bidder] = newTotal]
        /\ auctions' = [auctions EXCEPT ![id] = [a EXCEPT
              !.leader = bidder,
              !.endsAt = IF a.leader = bidder THEN @
                                              ELSE EndAfterLeadChange(a)]]
        /\ funds' = Deposit(funds, bidder, value)
        /\ UNCHANGED <<keeper, now, nextAuctionId, receipt, deliverable>>

----------------------------------------------------------------------------
(* settle: keeper, seller or leader, once the auction has ended.           *)

\* Mutation: the winner left out of the callers.
AuthorizedWithoutWinner(caller, id) ==
    caller \in {auctions[id].seller, keeper}

Authorized(caller, id) ==
    caller \in {auctions[id].seller, auctions[id].leader, keeper}

MaySettle(caller, id) ==
    /\ Open(id)
    /\ now >= auctions[id].endsAt
    /\ Authorized(caller, id)

Finalise(id) == auctions' = [auctions EXCEPT ![id].settled = TRUE]

SettleNoLeader(caller, id) ==
    /\ MaySettle(caller, id)
    /\ auctions[id].leader = NoAddr
    /\ Finalise(id)
    /\ UNCHANGED <<coreVars, nextAuctionId, cumulative, receipt, deliverable>>

\* Mutation: the winner's escrow is not consumed up front.
SettleDeliveredKeepingEscrow(caller, id, okPlatform, okKeeper, okSeller) ==
    LET a == auctions[id]
        winBid == cumulative[id][a.leader]
        fee == FeeOf(winBid)
    IN  /\ MaySettle(caller, id)
        /\ a.leader # NoAddr
        /\ <<a.token, a.seller>> \in deliverable
        /\ Finalise(id)
        /\ funds' = Pay(PayFee(funds, fee, okPlatform, okKeeper),
                        a.seller, winBid - fee, okSeller)
        /\ receipt' = [receipt EXCEPT ![id] =
                          [price |-> winBid, keeper |-> keeper]]
        /\ UNCHANGED <<keeper, now, nextAuctionId, cumulative, deliverable>>

\* The transfer succeeded: fee split, then the seller's proceeds.
SettleDelivered(caller, id, okPlatform, okKeeper, okSeller) ==
    LET a == auctions[id]
        winBid == cumulative[id][a.leader]
        fee == FeeOf(winBid)
    IN  /\ MaySettle(caller, id)
        /\ a.leader # NoAddr
        /\ <<a.token, a.seller>> \in deliverable
        /\ Finalise(id)
        /\ cumulative' = [cumulative EXCEPT ![id][a.leader] = 0]
        /\ funds' = Pay(PayFee(funds, fee, okPlatform, okKeeper),
                        a.seller, winBid - fee, okSeller)
        /\ receipt' = [receipt EXCEPT ![id] =
                          [price |-> winBid, keeper |-> keeper]]
        /\ deliverable' \in {deliverable \ {<<a.token, a.seller>>}} \cup
              (IF a.token \in ERC1155 \/ a.leader = a.seller
               THEN {deliverable} ELSE {})
        /\ UNCHANGED <<keeper, now, nextAuctionId>>

\* The transfer failed (seller defaulted, or an ERC-1155 hook refused): the
\* winner gets the whole escrow back in the same transaction.
SettleUndelivered(caller, id, okWinner) ==
    LET a == auctions[id]
        winBid == cumulative[id][a.leader]
    IN  /\ MaySettle(caller, id)
        /\ a.leader # NoAddr
        /\ <<a.token, a.seller>> \notin deliverable \/ a.token \in ERC1155
        /\ Finalise(id)
        /\ cumulative' = [cumulative EXCEPT ![id][a.leader] = 0]
        /\ funds' = Pay(funds, a.leader, winBid, okWinner)
        /\ UNCHANGED <<keeper, now, nextAuctionId, receipt, deliverable>>

Settle(caller, id) ==
    \/ SettleNoLeader(caller, id)
    \/ \E okP \in PushOutcomes(FeeRecipient), okK \in PushOutcomes(keeper),
          okS \in PushOutcomes(auctions[id].seller) :
          SettleDelivered(caller, id, okP, okK, okS)
    \/ \E okW \in PushOutcomes(auctions[id].leader) :
          SettleUndelivered(caller, id, okW)

----------------------------------------------------------------------------
(* refundLosers: anyone, after settlement; skips zeroed escrow.            *)

RefundLosers(id, batch, refused) ==
    /\ Exists(id)
    /\ auctions[id].settled
    /\ batch # {}
    /\ Cardinality(batch) <= MaxBatch
    /\ LET due(a) == IF a \in batch THEN cumulative[id][a] ELSE 0
       IN  funds' =
             [wallet |-> [a \in Address |-> funds.wallet[a]
                             + (IF a \in refused THEN 0 ELSE due(a))],
              pendingReturns |-> [a \in Address |-> funds.pendingReturns[a]
                             + (IF a \in refused THEN due(a) ELSE 0)]]
    /\ cumulative' = [cumulative EXCEPT ![id] =
          [a \in Address |-> IF a \in batch THEN 0 ELSE @[a]]]
    /\ UNCHANGED <<keeper, now, nextAuctionId, auctions, receipt, deliverable>>

----------------------------------------------------------------------------
(* cancelEarly, forceCancel, withdrawLoserFunds                            *)

\* Mutation: the seller walks away from a leader.
CancelEarlyDespiteLeader(caller, id) ==
    /\ auctions[id].seller = caller
    /\ ~auctions[id].settled
    /\ now < auctions[id].endsAt
    /\ Finalise(id)
    /\ UNCHANGED <<coreVars, nextAuctionId, cumulative, receipt, deliverable>>

CancelEarly(caller, id) ==
    /\ auctions[id].seller = caller
    /\ ~auctions[id].settled
    /\ now < auctions[id].endsAt
    /\ auctions[id].leader = NoAddr
    /\ Finalise(id)
    /\ UNCHANGED <<coreVars, nextAuctionId, cumulative, receipt, deliverable>>

ForceCancel(caller, id) ==
    /\ Open(id)
    /\ now >= auctions[id].endsAt + SellerDefaultWindow
    /\ Authorized(caller, id)
    /\ Finalise(id)
    /\ UNCHANGED <<coreVars, nextAuctionId, cumulative, receipt, deliverable>>

WithdrawLoserFunds(bidder, id, ok) ==
    /\ Open(id)
    /\ auctions[id].leader # bidder
    /\ cumulative[id][bidder] > 0
    /\ cumulative' = [cumulative EXCEPT ![id][bidder] = 0]
    /\ funds' = Pay(funds, bidder, cumulative[id][bidder], ok)
    /\ UNCHANGED <<keeper, now, nextAuctionId, auctions, receipt, deliverable>>

----------------------------------------------------------------------------
(* The world outside: owners move tokens and change approvals at will.     *)

\* An ERC-721 has one owner; the holders of an ERC-1155 are independent.
TokenChange(t, owner) ==
    /\ \/ deliverable' = deliverable \ {<<t, owner>>}
       \/ /\ t \in ERC1155 \/ \A o \in Sellers : <<t, o>> \notin deliverable
          /\ deliverable' = deliverable \cup {<<t, owner>>}
    /\ UNCHANGED <<coreVars, houseVars>>

Next ==
    \/ \E u \in Sellers, t \in Token, r \in Reserves, d \in Durations :
          Create(u, t, r, d)
    \/ \E u \in Users, id \in AuctionId, v \in BidAmounts : Bid(u, id, v)
    \/ \E u \in Users, id \in AuctionId : Settle(u, id)
    \/ \E id \in AuctionId, batch \in SUBSET Users :
          \E refused \in SUBSET (batch \cap Rejecting) :
             RefundLosers(id, batch, refused)
    \/ \E u \in Users, id \in AuctionId : CancelEarly(u, id)
    \/ \E u \in Users, id \in AuctionId : ForceCancel(u, id)
    \/ \E u \in Users, id \in AuctionId : \E ok \in PushOutcomes(u) :
          WithdrawLoserFunds(u, id, ok)
    \/ \E u \in Address : WithdrawRefund(u) /\ UNCHANGED <<houseVars, deliverable>>
    \/ \E k \in Keepers : SetKeeper(k) /\ UNCHANGED <<houseVars, deliverable>>
    \/ \E t \in Token, u \in Sellers : TokenChange(t, u)
    \/ Tick /\ UNCHANGED <<houseVars, deliverable>>

Spec == Init /\ [][Next]_vars

----------------------------------------------------------------------------
(* Properties                                                              *)

TypeOK ==
    /\ funds \in Funds
    /\ keeper \in Keepers
    /\ now \in 0 .. MaxTime
    /\ nextAuctionId \in 0 .. MaxAuctions
    /\ auctions \in [AuctionId -> Auction]
    /\ cumulative \in [AuctionId -> [Address -> Nat]]
    /\ receipt \in [AuctionId -> Receipt]
    /\ deliverable \subseteq Token \X Sellers

\* The escrow the house owes an account over all auctions.
Escrow(a) ==
    SumFunctionOnSet([id \in AuctionId |-> cumulative[id][a]], AuctionId)

\* What the AuctionSettled and FeeSplit events credit and debit an account.
NetOfSale(id, a) ==
    LET price == receipt[id].price
        fee   == FeeOf(price)
    IN  (IF a = auctions[id].seller THEN price - fee ELSE 0)
        + (IF a = FeeRecipient THEN PlatformCut(fee) ELSE 0)
        + (IF a = receipt[id].keeper THEN KeeperCut(fee) ELSE 0)
        - (IF a = auctions[id].leader THEN price ELSE 0)

NetOfSales(a) ==
    SumFunctionOnSet([id \in AuctionId |-> NetOfSale(id, a)], AuctionId)

\* Every account holds, is owed, or was paid out in a sale, exactly what it
\* came with: no refused push, double refund, late refund or keeper rotation
\* loses or mints a wei.  Summed over the accounts: the balance of the house
\* is exactly the escrow plus the pull credits (MarketplaceCore._pay, settle,
\* refundLosers, withdrawLoserFunds, withdrawRefund).
EveryWeiAccounted ==
    \A a \in Address :
        funds.wallet[a] + funds.pendingReturns[a] + Escrow(a)
          = InitialWallet[a] + NetOfSales(a)

\* The comment in bid(): "the leader always holds the max cumulative"; in
\* fact at or above the reserve, and a whole increment above anyone else who
\* still has escrow in the auction.
LeaderHoldsMax(id) ==
    LET a == auctions[id]
    IN  Open(id) /\ a.leader # NoAddr =>
            /\ cumulative[id][a.leader] >= a.reserve
            /\ \A b \in Address \ {a.leader} :
                  cumulative[id][b] > 0 =>
                     cumulative[id][b] + MinBidIncrement
                       <= cumulative[id][a.leader]

\* The comment on settle(): without a leader "the escrow is provably zero",
\* which is why cancelEarly and the leaderless settle refund nobody.
NoLeaderNoEscrow(id) ==
    auctions[id].leader = NoAddr => \A b \in Address : cumulative[id][b] = 0

BestBidLeads ==
    \A id \in AuctionId : LeaderHoldsMax(id) /\ NoLeaderNoEscrow(id)

\* No exchange of lead changes keeps an auction open for more than
\* MAX_TOTAL_EXTENSION past the end its seller chose.
OvertimeBounded ==
    \A id \in AuctionId :
        /\ auctions[id].originalEndsAt <= auctions[id].endsAt
        /\ auctions[id].endsAt <= auctions[id].originalEndsAt + MaxTotalExtension

\* A recorded sale left nothing of the winner's escrow behind for
\* refundLosers to pay a second time.
SoldEscrowConsumed ==
    \A id \in AuctionId :
        receipt[id].price > 0 =>
            /\ auctions[id].settled
            /\ auctions[id].leader # NoAddr
            /\ cumulative[id][auctions[id].leader] = 0

----------------------------------------------------------------------------
(* Each auction implements the abstract English auction.                   *)

PhaseOf(id) ==
    CASE ~Exists(id) -> "none"
      [] Open(id) -> "open"
      [] receipt[id].price > 0 -> "sold"
      [] OTHER -> "unsold"

BestOf(id) ==
    CASE PhaseOf(id) = "sold" -> receipt[id].price
      [] PhaseOf(id) = "open" /\ auctions[id].leader # NoAddr ->
            cumulative[id][auctions[id].leader]
      [] OTHER -> 0

Abstract(id) == INSTANCE EnglishAuction WITH
    Bidder <- Address, Nobody <- NoAddr,
    Increment <- MinBidIncrement, Floor <- MinPrice,
    Window <- ExtensionWindow, MaxOvertime <- MaxTotalExtension,
    phase <- PhaseOf(id), leader <- auctions[id].leader, best <- BestOf(id),
    reserve <- auctions[id].reserve, end <- auctions[id].endsAt,
    firstEnd <- auctions[id].originalEndsAt

\* create, bid, settle, cancelEarly and forceCancel together keep the promise
\* of EnglishAuction for every auction, whatever the others do meanwhile.
\* (\A id : Abstract(id)!Spec, with the quantifier moved under the box, where
\* the model checker can evaluate it.)
EveryAuctionIsEnglish ==
    /\ \A id \in AuctionId : Abstract(id)!Init
    /\ [][\A id \in AuctionId :
             Abstract(id)!Next \/ UNCHANGED Abstract(id)!vars]_vars
=============================================================================

------------------------- MODULE AuctionHouseProofs -------------------------
(***************************************************************************)
(* Proofs about AuctionHouse for every set of accounts, tokens, amounts    *)
(* and durations, any number of auctions and any bound on the clock.       *)
(***************************************************************************)
EXTENDS AuctionHouse, MarketplaceCoreProofs

----------------------------------------------------------------------------
(* The inductive invariant                                                 *)

\* The record of an auction that was never created is the zero record.
NotYetCreated(id) ==
    ~Exists(id) =>
        /\ auctions[id].leader = NoAddr
        /\ ~auctions[id].settled
        /\ auctions[id].originalEndsAt = 0
        /\ auctions[id].endsAt = 0
        /\ receipt[id].price = 0

\* Ids are handed out once, in order.
CreatedInOrder ==
    \A id \in AuctionId : Exists(id) <=> id <= nextAuctionId

ReserveClearsMinimum(id) ==
    Exists(id) => auctions[id].reserve >= MinPrice

NoSaleBeforeSettlement(id) ==
    receipt[id].price > 0 =>
        /\ auctions[id].settled
        /\ auctions[id].leader # NoAddr
        /\ cumulative[id][auctions[id].leader] = 0

Overtime(id) ==
    /\ auctions[id].originalEndsAt <= auctions[id].endsAt
    /\ auctions[id].endsAt <= auctions[id].originalEndsAt + MaxTotalExtension

AuctionInv(id) ==
    /\ NotYetCreated(id)
    /\ ReserveClearsMinimum(id)
    /\ LeaderHoldsMax(id)
    /\ NoLeaderNoEscrow(id)
    /\ Overtime(id)
    /\ NoSaleBeforeSettlement(id)

IInv == TypeOK /\ CreatedInOrder /\ \A id \in AuctionId : AuctionInv(id)

----------------------------------------------------------------------------
USE CoreAssumption, HouseAssumption

\* The invariant holds in the deployed, empty house.
LEMMA InitIInv == Init => IInv
<1> SUFFICES ASSUME Init PROVE IInv
  OBVIOUS
<1>0. ZeroAuction \in Auction
  <2>1. (CHOOSE t \in Token : TRUE) \in Token
    OBVIOUS
  <2>2. QED
    BY <2>1 DEF ZeroAuction, Auction, Principal
<1>1. TypeOK
  BY <1>0 DEF Init, TypeOK, Funds, Receipt, Principal, AuctionId
<1>2. CreatedInOrder
  BY DEF Init, ZeroAuction, CreatedInOrder, Exists, AuctionId
<1>3. ASSUME NEW id \in AuctionId PROVE AuctionInv(id)
  BY <1>3 DEF Init, ZeroAuction, AuctionInv, NotYetCreated, ReserveClearsMinimum, LeaderHoldsMax,
     NoLeaderNoEscrow, Overtime, NoSaleBeforeSettlement, Exists, Open
<1>4. QED
  BY <1>1, <1>2, <1>3 DEF IInv

\* An auction no action touched keeps its invariant.
LEMMA Untouched ==
    ASSUME NEW id \in AuctionId, AuctionInv(id),
           auctions'[id] = auctions[id],
           cumulative'[id] = cumulative[id],
           receipt'[id] = receipt[id]
    PROVE  AuctionInv(id)'
  BY DEF AuctionInv, NotYetCreated, ReserveClearsMinimum, LeaderHoldsMax,
     NoLeaderNoEscrow, Overtime, NoSaleBeforeSettlement, Exists, Open

\* create, create1155: a new auction enters in order, with a reserve above the
\* minimum and nothing in escrow; the others are untouched.
LEMMA CreateStep ==
    ASSUME IInv, NEW u \in Sellers, NEW t \in Token, NEW r \in Reserves,
           NEW d \in Durations, Create(u, t, r, d)
    PROVE  IInv'
<1> USE DEF IInv, TypeOK
<1> DEFINE id == nextAuctionId + 1
           end == now + d
           new == [seller |-> u, leader |-> NoAddr, token |-> t, reserve |-> r,
                   endsAt |-> end, originalEndsAt |-> end, settled |-> FALSE]
<1>0. /\ id \in AuctionId /\ nextAuctionId' = id
      /\ auctions' = [auctions EXCEPT ![id] = new]
      /\ r >= MinPrice
      /\ UNCHANGED <<funds, keeper, now, cumulative, receipt, deliverable>>
  BY DEF Create, ExpiryFor, coreVars
<1>1. u \in Address /\ u # NoAddr /\ r \in Nat /\ end \in Nat
  BY DEF AuctionId
<1>2. new \in Auction
  BY <1>1 DEF Auction, Principal
<1>3. TypeOK'
  <2>1. nextAuctionId' \in 0 .. MaxAuctions
    BY <1>0 DEF AuctionId
  <2>2. auctions' \in [AuctionId -> Auction]
    BY <1>0, <1>2
  <2>3. QED
    BY <1>0, <2>1, <2>2
<1>4. ~Exists(id)
  BY <1>0 DEF CreatedInOrder, AuctionId
<1>5. CreatedInOrder'
  BY <1>0, <1>1 DEF CreatedInOrder, Exists, AuctionId
<1>6. ASSUME NEW i \in AuctionId PROVE AuctionInv(i)'
  <2>1. CASE i = id
    <3>1. auctions'[i] = new /\ cumulative'[i] = cumulative[i]
          /\ receipt'[i] = receipt[i]
      BY <1>0, <2>1
    <3>2. \A b \in Address : cumulative[i][b] = 0
      BY <1>4, <2>1, <1>0 DEF AuctionInv, NotYetCreated, NoLeaderNoEscrow
    <3>3. receipt[i].price = 0
      BY <1>4, <2>1, <1>0 DEF AuctionInv, NotYetCreated
    <3>4. QED
      BY <1>0, <1>1, <3>1, <3>2, <3>3 DEF AuctionInv, NotYetCreated,
         ReserveClearsMinimum, LeaderHoldsMax, NoLeaderNoEscrow, Overtime,
         NoSaleBeforeSettlement, Exists, Open
  <2>2. CASE i # id
    BY <1>0, <2>2, Untouched
  <2>3. QED
    BY <2>1, <2>2
<1>7. QED
  BY <1>3, <1>5, <1>6

\* The new end is a natural number between the old end and the hard cap.
LEMMA EndBounds ==
    ASSUME NEW a \in Auction, now \in Nat,
           a.originalEndsAt <= a.endsAt,
           a.endsAt <= a.originalEndsAt + MaxTotalExtension
    PROVE  /\ EndAfterLeadChange(a) \in Nat
           /\ EndAfterLeadChange(a) >= a.endsAt
           /\ EndAfterLeadChange(a) <= a.originalEndsAt + MaxTotalExtension
           /\ \/ EndAfterLeadChange(a) >= now + ExtensionWindow
              \/ EndAfterLeadChange(a) = a.originalEndsAt + MaxTotalExtension
  BY DEF EndAfterLeadChange, Auction

\* bid: the new total clears the reserve and beats every other escrow by the
\* increment, whichever way the bidder leads; the end stays under the hard cap.
LEMMA BidStep ==
    ASSUME IInv, NEW u \in Users, NEW id \in AuctionId, NEW v \in BidAmounts,
           Bid(u, id, v)
    PROVE  IInv'
<1> USE DEF IInv, TypeOK
<1> DEFINE a == auctions[id]
           total == cumulative[id][u] + v
           newEnd == IF a.leader = u THEN a.endsAt ELSE EndAfterLeadChange(a)
<1>0. /\ Open(id) /\ now < a.endsAt /\ v > 0 /\ v <= funds.wallet[u]
      /\ TakesOrKeepsLead(id, u, total)
      /\ cumulative' = [cumulative EXCEPT ![id][u] = total]
      /\ auctions' = [auctions EXCEPT ![id] = [a EXCEPT !.leader = u,
                                                        !.endsAt = newEnd]]
      /\ funds' = Deposit(funds, u, v)
      /\ UNCHANGED <<keeper, now, nextAuctionId, receipt, deliverable>>
  BY DEF Bid
<1>1. u \in Address /\ u # NoAddr /\ v \in Nat
  OBVIOUS
<1>2. a \in Auction /\ cumulative[id] \in [Address -> Nat] /\ total \in Nat
  BY <1>1
<1>3. AuctionInv(id) /\ Overtime(id)
  BY DEF AuctionInv
<1>4. newEnd \in Nat /\ newEnd >= a.endsAt
      /\ newEnd <= a.originalEndsAt + MaxTotalExtension
  BY <1>2, <1>3, EndBounds DEF Overtime, Auction
<1>5. /\ auctions'[id] = [a EXCEPT !.leader = u, !.endsAt = newEnd]
      /\ cumulative'[id] = [cumulative[id] EXCEPT ![u] = total]
      /\ \A i \in AuctionId \ {id} : /\ auctions'[i] = auctions[i]
                                     /\ cumulative'[i] = cumulative[i]
  BY <1>0, <1>2
<1>6. TypeOK'
  <2>1. funds' \in Funds
    BY <1>0, <1>1, DepositType
  <2>2. auctions' \in [AuctionId -> Auction]
    BY <1>0, <1>1, <1>2, <1>4 DEF Auction, Principal
  <2>3. cumulative' \in [AuctionId -> [Address -> Nat]]
    BY <1>0, <1>1, <1>2
  <2>4. QED
    BY <1>0, <2>1, <2>2, <2>3
<1>7. CreatedInOrder'
  BY <1>0, <1>5 DEF CreatedInOrder, Exists, Auction
<1>8. LeaderHoldsMax(id)'
  <2>1. total >= a.reserve
    <3>1. CASE a.leader = NoAddr
      BY <1>0, <1>1, <3>1 DEF TakesOrKeepsLead
    <3>2. CASE a.leader = u
      BY <1>0, <1>1, <1>2, <1>3, <3>2 DEF AuctionInv, LeaderHoldsMax, Auction
    <3>3. CASE a.leader \notin {u, NoAddr}
      BY <1>0, <1>2, <1>3, <3>3
         DEF AuctionInv, LeaderHoldsMax, Auction, Principal, TakesOrKeepsLead
    <3>4. QED
      BY <3>1, <3>2, <3>3
  <2>2. ASSUME NEW b \in Address \ {u}, cumulative[id][b] > 0
        PROVE  cumulative[id][b] + MinBidIncrement <= total
    <3>1. CASE a.leader = NoAddr
      <4>1. cumulative[id][b] = 0
        BY <1>3, <3>1 DEF AuctionInv, NoLeaderNoEscrow
      <4>2. QED
        BY <2>2, <4>1
    <3>2. CASE a.leader = u
      BY <1>0, <1>1, <1>2, <1>3, <2>2, <3>2 DEF AuctionInv, LeaderHoldsMax
    <3>3. CASE a.leader \notin {u, NoAddr}
      <4>1. total >= cumulative[id][a.leader] + MinBidIncrement
        BY <1>0, <1>1, <3>3 DEF TakesOrKeepsLead
      <4>2. \/ b = a.leader
            \/ cumulative[id][b] + MinBidIncrement <= cumulative[id][a.leader]
        BY <1>0, <1>2, <1>3, <2>2, <3>3
           DEF AuctionInv, LeaderHoldsMax, Auction, Principal
      <4>3. a.leader \in Address
        BY <1>2, <3>3 DEF Auction, Principal
      <4>4. QED
        BY <1>2, <4>1, <4>2, <4>3
    <3>4. QED
      BY <3>1, <3>2, <3>3
  <2>3. QED
    BY <1>1, <1>2, <1>5, <2>1, <2>2 DEF LeaderHoldsMax, Auction
<1>9. AuctionInv(id)'
  <2>1. NotYetCreated(id)' /\ ReserveClearsMinimum(id)' /\ NoLeaderNoEscrow(id)'
    BY <1>0, <1>1, <1>2, <1>3, <1>5 DEF AuctionInv, NotYetCreated, Auction,
       ReserveClearsMinimum, NoLeaderNoEscrow, Exists, Open
  <2>2. Overtime(id)'
    BY <1>2, <1>3, <1>4, <1>5 DEF Overtime, Auction
  <2>3. NoSaleBeforeSettlement(id)'
    BY <1>0, <1>2, <1>3, <1>5 DEF AuctionInv, NoSaleBeforeSettlement, Open, Auction
  <2>4. QED
    BY <1>8, <2>1, <2>2, <2>3 DEF AuctionInv
<1>10. ASSUME NEW i \in AuctionId PROVE AuctionInv(i)'
  BY <1>0, <1>5, <1>9, Untouched
<1>11. QED
  BY <1>6, <1>7, <1>10

----------------------------------------------------------------------------
(* Closing an auction: settle, cancelEarly, forceCancel                    *)

\* Closing disturbs one auction only, and needs nothing but that a recorded
\* sale took the leader's escrow.
LEMMA CloseOne ==
    ASSUME IInv, NEW id \in AuctionId, Open(id), Finalise(id),
           UNCHANGED nextAuctionId,
           \A i \in AuctionId \ {id} : /\ cumulative'[i] = cumulative[i]
                                       /\ receipt'[i] = receipt[i],
           \A b \in Address : cumulative'[id][b] \in {0, cumulative[id][b]},
           \/ receipt'[id] = receipt[id]
           \/ /\ auctions[id].leader # NoAddr
              /\ cumulative'[id][auctions[id].leader] = 0
    PROVE  /\ auctions' \in [AuctionId -> Auction]
           /\ CreatedInOrder'
           /\ \A i \in AuctionId : AuctionInv(i)'
<1> USE DEF IInv, TypeOK
<1> DEFINE a == auctions[id]
<1>1. /\ a \in Auction
      /\ auctions' = [auctions EXCEPT ![id] = [a EXCEPT !.settled = TRUE]]
  BY DEF Finalise
<1>2. [a EXCEPT !.settled = TRUE] \in Auction
  BY <1>1 DEF Auction
<1>3. auctions' \in [AuctionId -> Auction]
  BY <1>1, <1>2
<1>4. /\ auctions'[id] = [a EXCEPT !.settled = TRUE]
      /\ \A i \in AuctionId \ {id} : auctions'[i] = auctions[i]
  BY <1>1
<1>5. /\ auctions'[id].seller = a.seller
      /\ auctions'[id].leader = a.leader
      /\ auctions'[id].reserve = a.reserve
      /\ auctions'[id].endsAt = a.endsAt
      /\ auctions'[id].originalEndsAt = a.originalEndsAt
      /\ auctions'[id].settled
  BY <1>1, <1>4 DEF Auction
<1>6. CreatedInOrder'
  <2>1. \A i \in AuctionId : auctions'[i].seller = auctions[i].seller
    BY <1>4, <1>5
  <2>2. QED
    BY <2>1 DEF CreatedInOrder, Exists
<1>7. AuctionInv(id)
  OBVIOUS
<1>8. AuctionInv(id)'
  <2>1. NotYetCreated(id)' /\ ReserveClearsMinimum(id)' /\ LeaderHoldsMax(id)'
        /\ Overtime(id)'
    BY <1>5, <1>7 DEF AuctionInv, NotYetCreated, ReserveClearsMinimum,
       LeaderHoldsMax, Overtime, Exists, Open
  <2>2. NoLeaderNoEscrow(id)'
    BY <1>5, <1>7 DEF AuctionInv, NoLeaderNoEscrow
  <2>3. NoSaleBeforeSettlement(id)'
    BY <1>5, <1>7 DEF AuctionInv, NoSaleBeforeSettlement, Open
  <2>4. QED
    BY <2>1, <2>2, <2>3 DEF AuctionInv
<1>9. ASSUME NEW i \in AuctionId PROVE AuctionInv(i)'
  <2>1. CASE i = id
    BY <1>8, <2>1
  <2>2. CASE i # id
    BY <1>4, <2>2, Untouched
  <2>3. QED
    BY <2>1, <2>2
<1>10. QED
  BY <1>3, <1>6, <1>9

\* Closing without a payment: the leaderless settle, cancelEarly, forceCancel.
LEMMA PlainClose ==
    ASSUME IInv, NEW id \in AuctionId, Open(id), Finalise(id),
           UNCHANGED <<coreVars, nextAuctionId, cumulative, receipt, deliverable>>
    PROVE  IInv'
<1>1. /\ auctions' \in [AuctionId -> Auction]
      /\ CreatedInOrder'
      /\ \A i \in AuctionId : AuctionInv(i)'
  BY CloseOne
<1>2. QED
  BY <1>1 DEF IInv, TypeOK, coreVars

\* settle, all three outcomes: leaderless, delivered and undelivered.
LEMMA SettleStep ==
    ASSUME IInv, NEW u \in Users, NEW id \in AuctionId, Settle(u, id)
    PROVE  IInv'
<1> USE DEF IInv, TypeOK
<1> DEFINE a == auctions[id]
           winBid == cumulative[id][a.leader]
<1>1. a \in Auction /\ cumulative[id] \in [Address -> Nat]
  OBVIOUS
<1>2. CASE SettleNoLeader(u, id)
  BY <1>2, PlainClose DEF SettleNoLeader, MaySettle
<1>3. ASSUME NEW okP, NEW okK, NEW okS, SettleDelivered(u, id, okP, okK, okS)
      PROVE  IInv'
  <2> DEFINE fee == FeeOf(winBid)
  <2>1. /\ Open(id) /\ a.leader # NoAddr /\ Finalise(id)
        /\ cumulative' = [cumulative EXCEPT ![id][a.leader] = 0]
        /\ funds' = Pay(PayFee(funds, fee, okP, okK), a.seller, winBid - fee, okS)
        /\ receipt' = [receipt EXCEPT ![id] =
                          [price |-> winBid, keeper |-> keeper]]
        /\ deliverable' \subseteq deliverable
        /\ UNCHANGED <<keeper, now, nextAuctionId>>
    BY <1>3 DEF SettleDelivered, MaySettle
  <2>2. a.leader \in Address /\ a.seller \in Address
    BY <1>1, <2>1 DEF Auction, Principal, Open, Exists
  <2>3. winBid \in Nat /\ fee \in Nat /\ winBid - fee \in Nat
    <3>1. winBid \in Nat
      BY <1>1, <2>2
    <3>2. QED
      BY <3>1, FeeBounds
  <2>4. funds' \in Funds
    <3>1. PayFee(funds, fee, okP, okK) \in Funds
      BY <2>3, PayFeeType
    <3>2. QED
      BY <2>1, <2>2, <2>3, <3>1, PayType
  <2>5. cumulative' \in [AuctionId -> [Address -> Nat]]
    BY <1>1, <2>1, <2>2
  <2>6. receipt' \in [AuctionId -> Receipt]
    BY <2>1, <2>3 DEF Receipt, Principal
  <2>7. /\ auctions' \in [AuctionId -> Auction]
        /\ CreatedInOrder'
        /\ \A i \in AuctionId : AuctionInv(i)'
    <3>1. /\ \A i \in AuctionId \ {id} : /\ cumulative'[i] = cumulative[i]
                                          /\ receipt'[i] = receipt[i]
          /\ cumulative'[id] = [cumulative[id] EXCEPT ![a.leader] = 0]
      BY <2>1
    <3>2. /\ \A b \in Address : cumulative'[id][b] \in {0, cumulative[id][b]}
          /\ cumulative'[id][a.leader] = 0
      BY <1>1, <2>2, <3>1
    <3>3. QED
      BY <2>1, <3>1, <3>2, CloseOne
  <2>8. QED
    BY <2>1, <2>4, <2>5, <2>6, <2>7
<1>4. ASSUME NEW okW, SettleUndelivered(u, id, okW)
      PROVE  IInv'
  <2>1. /\ Open(id) /\ a.leader # NoAddr /\ Finalise(id)
        /\ cumulative' = [cumulative EXCEPT ![id][a.leader] = 0]
        /\ funds' = Pay(funds, a.leader, winBid, okW)
        /\ UNCHANGED <<keeper, now, nextAuctionId, receipt, deliverable>>
    BY <1>4 DEF SettleUndelivered, MaySettle
  <2>2. a.leader \in Address /\ winBid \in Nat
    BY <1>1, <2>1 DEF Auction, Principal
  <2>3. funds' \in Funds
    BY <2>1, <2>2, PayType
  <2>4. cumulative' \in [AuctionId -> [Address -> Nat]]
    BY <1>1, <2>1, <2>2
  <2>5. /\ auctions' \in [AuctionId -> Auction]
        /\ CreatedInOrder'
        /\ \A i \in AuctionId : AuctionInv(i)'
    <3>1. /\ \A i \in AuctionId \ {id} : cumulative'[i] = cumulative[i]
          /\ cumulative'[id] = [cumulative[id] EXCEPT ![a.leader] = 0]
      BY <2>1
    <3>2. \A b \in Address : cumulative'[id][b] \in {0, cumulative[id][b]}
      BY <1>1, <2>2, <3>1
    <3>3. QED
      BY <2>1, <3>1, <3>2, CloseOne
  <2>6. QED
    BY <2>1, <2>3, <2>4, <2>5
<1>5. QED
  BY <1>2, <1>3, <1>4 DEF Settle

----------------------------------------------------------------------------
(* Paying escrow out of an auction: refundLosers, withdrawLoserFunds       *)

\* Escrow that only leaves, and never an open auction's leader's, disturbs
\* no auction.
LEMMA EscrowLeaves ==
    ASSUME IInv, UNCHANGED <<nextAuctionId, auctions, receipt>>,
           cumulative' \in [AuctionId -> [Address -> Nat]],
           \A i \in AuctionId, b \in Address :
              /\ cumulative'[i][b] \in {0, cumulative[i][b]}
              /\ Open(i) /\ auctions[i].leader = b =>
                    cumulative'[i][b] = cumulative[i][b]
    PROVE  CreatedInOrder' /\ \A i \in AuctionId : AuctionInv(i)'
<1> USE DEF IInv, TypeOK
<1>1. CreatedInOrder'
  BY DEF CreatedInOrder, Exists
<1>2. ASSUME NEW i \in AuctionId PROVE AuctionInv(i)'
  <2>1. AuctionInv(i) /\ auctions[i] \in Auction
    OBVIOUS
  <2>2. LeaderHoldsMax(i)'
    <3> SUFFICES ASSUME Open(i), auctions[i].leader # NoAddr
                 PROVE  LeaderHoldsMax(i)'
      BY DEF LeaderHoldsMax, Open, Exists
    <3> DEFINE w == auctions[i].leader
    <3>1. w \in Address /\ cumulative'[i][w] = cumulative[i][w]
      BY <2>1 DEF Auction, Principal
    <3>2. /\ cumulative[i][w] >= auctions[i].reserve
          /\ \A b \in Address \ {w} : cumulative[i][b] > 0 =>
                cumulative[i][b] + MinBidIncrement <= cumulative[i][w]
      BY <2>1 DEF AuctionInv, LeaderHoldsMax
    <3>3. ASSUME NEW b \in Address \ {w}, cumulative'[i][b] > 0
          PROVE  cumulative'[i][b] + MinBidIncrement <= cumulative'[i][w]
      <4>1. cumulative'[i][b] = cumulative[i][b]
        BY <3>3
      <4>2. QED
        BY <3>1, <3>2, <3>3, <4>1
    <3>4. QED
      BY <3>1, <3>2, <3>3 DEF LeaderHoldsMax
  <2>3. NoLeaderNoEscrow(i)'
    BY <2>1 DEF AuctionInv, NoLeaderNoEscrow
  <2>4. NoSaleBeforeSettlement(i)'
    <3> SUFFICES ASSUME receipt[i].price > 0
                 PROVE  /\ auctions[i].settled /\ auctions[i].leader # NoAddr
                        /\ cumulative'[i][auctions[i].leader] = 0
      BY DEF NoSaleBeforeSettlement
    <3>1. QED
      BY <2>1 DEF AuctionInv, NoSaleBeforeSettlement, Auction, Principal
  <2>5. NotYetCreated(i)' /\ ReserveClearsMinimum(i)' /\ Overtime(i)'
    BY <2>1 DEF AuctionInv, NotYetCreated, ReserveClearsMinimum, Overtime,
       Exists
  <2>6. QED
    BY <2>2, <2>3, <2>4, <2>5 DEF AuctionInv
<1>3. QED
  BY <1>1, <1>2

\* refundLosers only touches a settled auction, whatever the batch.
LEMMA RefundStep ==
    ASSUME IInv, NEW id \in AuctionId, NEW batch \in SUBSET Users,
           NEW refused \in SUBSET (batch \cap Rejecting),
           RefundLosers(id, batch, refused)
    PROVE  IInv'
<1> USE DEF IInv, TypeOK
<1> DEFINE paid == [a \in Address |-> IF a \in batch THEN 0
                                                     ELSE cumulative[id][a]]
           due(a) == IF a \in batch THEN cumulative[id][a] ELSE 0
<1>1. /\ auctions[id].settled
      /\ funds' =
           [wallet |-> [a \in Address |-> funds.wallet[a]
                           + (IF a \in refused THEN 0 ELSE due(a))],
            pendingReturns |-> [a \in Address |-> funds.pendingReturns[a]
                           + (IF a \in refused THEN due(a) ELSE 0)]]
      /\ cumulative' = [cumulative EXCEPT ![id] = paid]
      /\ UNCHANGED <<keeper, now, nextAuctionId, auctions, receipt, deliverable>>
  BY DEF RefundLosers
<1>2. cumulative[id] \in [Address -> Nat]
  OBVIOUS
<1>3. paid \in [Address -> Nat] /\ \A a \in Address : due(a) \in Nat
  BY <1>2
<1>4. funds' \in Funds
  BY <1>1, <1>3 DEF Funds
<1>5. cumulative' \in [AuctionId -> [Address -> Nat]]
  BY <1>1, <1>3
<1>6. CreatedInOrder' /\ \A i \in AuctionId : AuctionInv(i)'
  <2>1. \A i \in AuctionId, b \in Address :
           /\ cumulative'[i][b] \in {0, cumulative[i][b]}
           /\ i # id => cumulative'[i][b] = cumulative[i][b]
    BY <1>1
  <2>2. ~Open(id)
    BY <1>1 DEF Open
  <2>3. QED
    BY <1>1, <1>5, <2>1, <2>2, EscrowLeaves
<1>7. QED
  BY <1>1, <1>4, <1>5, <1>6

\* withdrawLoserFunds never takes the leader's escrow.
LEMMA WithdrawLoserStep ==
    ASSUME IInv, NEW u \in Users, NEW id \in AuctionId, NEW ok,
           WithdrawLoserFunds(u, id, ok)
    PROVE  IInv'
<1> USE DEF IInv, TypeOK
<1>1. /\ auctions[id].leader # u
      /\ cumulative' = [cumulative EXCEPT ![id][u] = 0]
      /\ funds' = Pay(funds, u, cumulative[id][u], ok)
      /\ UNCHANGED <<keeper, now, nextAuctionId, auctions, receipt, deliverable>>
  BY DEF WithdrawLoserFunds
<1>2. u \in Address /\ cumulative[id] \in [Address -> Nat]
  OBVIOUS
<1>3. funds' \in Funds
  BY <1>1, <1>2, PayType
<1>4. cumulative' \in [AuctionId -> [Address -> Nat]]
  BY <1>1, <1>2
<1>5. CreatedInOrder' /\ \A i \in AuctionId : AuctionInv(i)'
  <2>1. \A i \in AuctionId, b \in Address :
           /\ cumulative'[i][b] \in {0, cumulative[i][b]}
           /\ ~(i = id /\ b = u) => cumulative'[i][b] = cumulative[i][b]
    BY <1>1, <1>2
  <2>2. QED
    BY <1>1, <1>4, <2>1, EscrowLeaves
<1>6. QED
  BY <1>1, <1>3, <1>4, <1>5

----------------------------------------------------------------------------
(* Every step                                                              *)

\* The steps that leave every auction, its escrow and its receipt alone.
LEMMA FrameStep ==
    ASSUME IInv, UNCHANGED houseVars,
           funds' \in Funds, keeper' \in Keepers, now' \in 0 .. MaxTime,
           deliverable' \subseteq Token \X Sellers
    PROVE  IInv'
<1> USE DEF IInv, TypeOK, houseVars
<1>1. \A i \in AuctionId : AuctionInv(i)'
  BY Untouched
<1>2. CreatedInOrder'
  BY DEF CreatedInOrder, Exists
<1>3. QED
  BY <1>1, <1>2

\* Every function of the contract, every token transfer and every new block
\* preserves the invariant.
LEMMA NextIInv == IInv /\ [Next]_vars => IInv'
<1> SUFFICES ASSUME IInv, [Next]_vars PROVE IInv'
  OBVIOUS
<1>0. TypeOK
  BY DEF IInv
<1>1. ASSUME NEW u \in Sellers, NEW t \in Token, NEW r \in Reserves,
             NEW d \in Durations, Create(u, t, r, d)
      PROVE  IInv'
  BY <1>1, CreateStep
<1>2. ASSUME NEW u \in Users, NEW id \in AuctionId, NEW v \in BidAmounts,
             Bid(u, id, v)
      PROVE  IInv'
  BY <1>2, BidStep
<1>3. ASSUME NEW u \in Users, NEW id \in AuctionId, Settle(u, id)
      PROVE  IInv'
  BY <1>3, SettleStep
<1>4. ASSUME NEW id \in AuctionId, NEW batch \in SUBSET Users,
             NEW refused \in SUBSET (batch \cap Rejecting),
             RefundLosers(id, batch, refused)
      PROVE  IInv'
  BY <1>4, RefundStep
<1>5. ASSUME NEW u \in Users, NEW id \in AuctionId, CancelEarly(u, id)
      PROVE  IInv'
  <2>1. Exists(id)
    <3>1. u # NoAddr /\ auctions[id].seller = u
      BY <1>5 DEF CancelEarly
    <3>2. QED
      BY <3>1 DEF Exists
  <2>2. QED
    BY <1>5, <2>1, PlainClose DEF CancelEarly, Open
<1>6. ASSUME NEW u \in Users, NEW id \in AuctionId, ForceCancel(u, id)
      PROVE  IInv'
  BY <1>6, PlainClose DEF ForceCancel
<1>7. ASSUME NEW u \in Users, NEW id \in AuctionId,
             NEW ok, WithdrawLoserFunds(u, id, ok)
      PROVE  IInv'
  BY <1>7, WithdrawLoserStep
<1>8. ASSUME NEW u \in Address, WithdrawRefund(u),
             UNCHANGED <<houseVars, deliverable>>
      PROVE  IInv'
  <2>1. funds' \in Funds
    <3>1. funds.pendingReturns[u] \in Nat
          /\ [funds EXCEPT !.pendingReturns[u] = 0] \in Funds
      BY <1>0 DEF TypeOK, Funds
    <3>2. QED
      BY <1>8, <3>1, PayType DEF WithdrawRefund
  <2>2. QED
    BY <1>0, <1>8, <2>1, FrameStep DEF WithdrawRefund, TypeOK
<1>9. ASSUME NEW k \in Keepers, SetKeeper(k),
             UNCHANGED <<houseVars, deliverable>>
      PROVE  IInv'
  BY <1>0, <1>9, FrameStep DEF SetKeeper, TypeOK
<1>10. ASSUME NEW t \in Token, NEW u \in Sellers, TokenChange(t, u)
       PROVE  IInv'
  BY <1>0, <1>10, FrameStep DEF TokenChange, TypeOK, coreVars
<1>11. ASSUME Tick, UNCHANGED <<houseVars, deliverable>>
       PROVE  IInv'
  BY <1>0, <1>11, FrameStep DEF Tick, TypeOK
<1>12. CASE UNCHANGED vars
  BY <1>0, <1>12, FrameStep DEF vars, coreVars, TypeOK
<1>13. QED
  BY <1>1, <1>2, <1>3, <1>4, <1>5, <1>6, <1>7, <1>8, <1>9, <1>10, <1>11,
     <1>12 DEF Next

----------------------------------------------------------------------------
(* The theorems                                                            *)

\* The inductive invariant holds in every reachable state.
THEOREM Inductive == Spec => []IInv
  BY InitIInv, NextIInv, PTL DEF Spec

\* Every function of the contract keeps every field within its type; in
\* particular no escrow, balance or credit ever goes below zero.
THEOREM TypeCorrect == Spec => []TypeOK
<1>1. IInv => TypeOK
  BY DEF IInv
<1>2. QED
  BY <1>1, Inductive, PTL

\* The leader always holds at least the reserve and beats every other escrow
\* by the increment, and an auction without a leader holds no escrow: what
\* bid(), settle() and cancelEarly() rely on when they refund nobody.
THEOREM BestBidAlwaysLeads == Spec => []BestBidLeads
<1>1. IInv => BestBidLeads
  BY DEF IInv, AuctionInv, BestBidLeads
<1>2. QED
  BY <1>1, Inductive, PTL

\* No exchange of bids keeps an auction open longer than MAX_TOTAL_EXTENSION
\* past the end chosen at creation.
THEOREM OvertimeAlwaysBounded == Spec => []OvertimeBounded
<1>1. IInv => OvertimeBounded
  BY DEF IInv, AuctionInv, Overtime, OvertimeBounded
<1>2. QED
  BY <1>1, Inductive, PTL

\* The winner's escrow is consumed by the sale that announced it, so
\* refundLosers can never pay it out again.
THEOREM SaleConsumesEscrow == Spec => []SoldEscrowConsumed
<1>1. IInv => SoldEscrowConsumed
  BY DEF IInv, AuctionInv, NoSaleBeforeSettlement, SoldEscrowConsumed
<1>2. QED
  BY <1>1, Inductive, PTL

----------------------------------------------------------------------------
(* The books                                                               *)

\* The ids are finitely many, so sums over them are sums.
LEMMA IdsFinite == IsFiniteSet(AuctionId)
  BY FS_Interval DEF AuctionId

\* What a sale credits an account is an integer, and nothing before the sale.
LEMMA NetOfSaleType ==
    ASSUME TypeOK, NEW id \in AuctionId, NEW a \in Address
    PROVE  /\ NetOfSale(id, a) \in Int
           /\ receipt[id].price = 0 => NetOfSale(id, a) = 0
<1> DEFINE price == receipt[id].price
           fee == FeeOf(price)
<1>1. price \in Nat
  BY DEF TypeOK, Receipt
<1>2. /\ fee \in Nat /\ price - fee \in Nat
      /\ KeeperCut(fee) \in Nat /\ PlatformCut(fee) \in Nat
  BY <1>1, FeeCutTypes
<1>3. NetOfSale(id, a)
         = (IF a = auctions[id].seller THEN price - fee ELSE 0)
           + (IF a = FeeRecipient THEN PlatformCut(fee) ELSE 0)
           + (IF a = receipt[id].keeper THEN KeeperCut(fee) ELSE 0)
           - (IF a = auctions[id].leader THEN price ELSE 0)
  BY DEF NetOfSale
<1>4. price = 0 => fee = 0 /\ KeeperCut(fee) = 0 /\ PlatformCut(fee) = 0
  BY DEF FeeOf, KeeperCut, PlatformCut, PLATFORM_FEE_BPS, KEEPER_SHARE_BPS
<1> HIDE DEF price, fee
<1>5. NetOfSale(id, a) \in Int
  BY <1>1, <1>2, <1>3
<1>6. price = 0 => NetOfSale(id, a) = 0
  BY <1>3, <1>4
<1> QED
  BY <1>5, <1>6 DEF price

\* The summands of the two totals of an account.
EscrowIn(a) == [id \in AuctionId |-> cumulative[id][a]]
NetIn(a) == [id \in AuctionId |-> NetOfSale(id, a)]

TotalsAreSums(a) ==
    /\ EscrowIn(a) \in [AuctionId -> Int]
    /\ NetIn(a) \in [AuctionId -> Int]
    /\ Escrow(a) = SumFunctionOnSet(EscrowIn(a), AuctionId)
    /\ NetOfSales(a) = SumFunctionOnSet(NetIn(a), AuctionId)
    /\ Escrow(a) \in Int
    /\ NetOfSales(a) \in Int

\* Both totals are sums of integers,
LEMMA TotalsType == TypeOK => \A a \in Address : TotalsAreSums(a)
<1> SUFFICES ASSUME TypeOK, NEW a \in Address PROVE TotalsAreSums(a)
  OBVIOUS
<1>1. EscrowIn(a) \in [AuctionId -> Int]
  BY DEF EscrowIn, TypeOK
<1>2. NetIn(a) \in [AuctionId -> Int]
  BY NetOfSaleType DEF NetIn
<1>3. /\ Escrow(a) = SumFunctionOnSet(EscrowIn(a), AuctionId)
      /\ NetOfSales(a) = SumFunctionOnSet(NetIn(a), AuctionId)
  BY DEF Escrow, EscrowIn, NetOfSales, NetIn
<1> QED
  BY <1>1, <1>2, <1>3, IdsFinite, SumType DEF TotalsAreSums

\* and so they are one step later.
LEMMA TotalsTypeNext == TypeOK' => (\A a \in Address : TotalsAreSums(a))'
  BY TotalsType, PTL

\* A step that disturbs one auction changes the totals of an account by what
\* it changes there.
LEMMA TotalsUpdate ==
    ASSUME TypeOK, TypeOK', NEW id \in AuctionId, NEW a \in Address,
           \A i \in AuctionId \ {id} : /\ cumulative'[i] = cumulative[i]
                                       /\ receipt'[i] = receipt[i]
                                       /\ auctions'[i] = auctions[i]
    PROVE  /\ Escrow(a)' = Escrow(a) + cumulative'[id][a] - cumulative[id][a]
           /\ NetOfSales(a)' = NetOfSales(a) + NetOfSale(id, a)' - NetOfSale(id, a)
<1>1. TotalsAreSums(a) /\ TotalsAreSums(a)'
  BY TotalsType, TotalsTypeNext
<1>2. \A i \in AuctionId \ {id} : NetOfSale(i, a)' = NetOfSale(i, a)
  BY DEF NetOfSale
<1> DEFINE e == EscrowIn(a)
           f == EscrowIn(a)'
           g == NetIn(a)
           h == NetIn(a)'
<1>3. /\ e[id] = cumulative[id][a] /\ f[id] = cumulative'[id][a]
      /\ \A i \in AuctionId \ {id} : f[i] = e[i]
  BY DEF EscrowIn
<1>4. /\ g[id] = NetOfSale(id, a) /\ h[id] = NetOfSale(id, a)'
      /\ \A i \in AuctionId \ {id} : h[i] = g[i]
  BY <1>2 DEF NetIn
<1>5. /\ e \in [AuctionId -> Int] /\ f \in [AuctionId -> Int]
      /\ g \in [AuctionId -> Int] /\ h \in [AuctionId -> Int]
      /\ Escrow(a) = SumFunctionOnSet(e, AuctionId)
      /\ Escrow(a)' = SumFunctionOnSet(f, AuctionId)
      /\ NetOfSales(a) = SumFunctionOnSet(g, AuctionId)
      /\ NetOfSales(a)' = SumFunctionOnSet(h, AuctionId)
  BY <1>1 DEF TotalsAreSums
<1> HIDE DEF e, f, g, h
<1>6. SumFunctionOnSet(f, AuctionId) = SumFunctionOnSet(e, AuctionId) + f[id] - e[id]
  BY <1>3, <1>5, IdsFinite, SumUpdate
<1>7. SumFunctionOnSet(h, AuctionId) = SumFunctionOnSet(g, AuctionId) + h[id] - g[id]
  BY <1>4, <1>5, IdsFinite, SumUpdate
<1> QED
  BY <1>3, <1>4, <1>5, <1>6, <1>7

\* What an account holds, is owed and has in escrow, less what its sales gained.
Stake(a) == Worth(funds, a) + Escrow(a) - NetOfSales(a)

\* The part of it one auction can change.
StakeIn(id, a) == Worth(funds, a) + cumulative[id][a] - NetOfSale(id, a)

\* A step that disturbs one auction keeps every stake if it keeps the part of
\* that auction.
LEMMA OneAuctionStake ==
    ASSUME TypeOK, TypeOK', NEW id \in AuctionId, NEW a \in Address,
           \A i \in AuctionId \ {id} : /\ cumulative'[i] = cumulative[i]
                                       /\ receipt'[i] = receipt[i]
                                       /\ auctions'[i] = auctions[i],
           StakeIn(id, a)' = StakeIn(id, a)
    PROVE  Stake(a)' = Stake(a)
<1> DEFINE w == Worth(funds, a)
           v == Worth(funds', a)
           c == cumulative[id][a]
           d == cumulative'[id][a]
           n == NetOfSale(id, a)
           m == NetOfSale(id, a)'
           e == Escrow(a)
           s == NetOfSales(a)
<1>1. /\ Escrow(a)' = e + d - c
      /\ NetOfSales(a)' = s + m - n
  BY TotalsUpdate
<1>2. v + d - m = w + c - n
  BY DEF StakeIn
<1>3. e \in Int /\ s \in Int
  BY TotalsType DEF TotalsAreSums
<1>4. n \in Int
  BY NetOfSaleType
<1>5. m \in Int
  <2>1. NetIn(a)' \in [AuctionId -> Int]
    BY TotalsTypeNext DEF TotalsAreSums
  <2>2. NetIn(a)'[id] = NetOfSale(id, a)'
    BY DEF NetIn
  <2> QED
    BY <2>1, <2>2
<1>6. w \in Int /\ v \in Int /\ c \in Int /\ d \in Int
  BY WorthType DEF TypeOK
<1>7. Stake(a) = w + e - s /\ Stake(a)' = v + Escrow(a)' - NetOfSales(a)'
  BY DEF Stake
<1> HIDE DEF w, v, c, d, n, m, e, s
<1> QED
  BY <1>1, <1>2, <1>3, <1>4, <1>5, <1>6, <1>7

\* An open auction, or none yet, has announced no sale.
LEMMA NoSaleYet ==
    ASSUME IInv, NEW id \in AuctionId, ~auctions[id].settled
    PROVE  receipt[id].price = 0
<1>1. receipt[id].price \in Nat
  BY DEF IInv, TypeOK, Receipt
<1>2. ~ (receipt[id].price > 0)
  BY DEF IInv, AuctionInv, NoSaleBeforeSettlement
<1> QED
  BY <1>1, <1>2

\* A step before the sale changes no account's gains from it.
LEMMA SameNetBeforeSale ==
    ASSUME IInv, IInv', NEW id \in AuctionId, NEW a \in Address,
           ~auctions[id].settled, receipt'[id] = receipt[id]
    PROVE  NetOfSale(id, a)' = 0 /\ NetOfSale(id, a) = 0
<1>1. receipt[id].price = 0 /\ receipt'[id].price = 0
  BY NoSaleYet
<1> USE DEF FeeOf, KeeperCut, PlatformCut, PLATFORM_FEE_BPS, KEEPER_SHARE_BPS
<1> QED
  BY <1>1 DEF NetOfSale

\* create moves no money.
LEMMA CreateStake ==
    ASSUME IInv, IInv', NEW u \in Sellers, NEW t \in Token, NEW r \in Reserves,
           NEW d \in Durations, Create(u, t, r, d), NEW a \in Address
    PROVE  Stake(a)' = Stake(a)
<1>0. PICK id \in AuctionId : id = nextAuctionId + 1
  BY DEF Create
<1>1. /\ ~auctions[id].settled
      /\ UNCHANGED <<funds, cumulative, receipt>>
      /\ \A i \in AuctionId \ {id} : auctions'[i] = auctions[i]
  <2>1. ~Exists(id)
    BY <1>0 DEF IInv, TypeOK, CreatedInOrder, AuctionId
  <2> QED
    BY <1>0, <2>1 DEF Create, coreVars, IInv, TypeOK, AuctionInv, NotYetCreated
<1>2. NetOfSale(id, a)' = 0 /\ NetOfSale(id, a) = 0
  BY <1>1, SameNetBeforeSale
<1>3. StakeIn(id, a)' = StakeIn(id, a)
  BY <1>1, <1>2 DEF StakeIn
<1> QED
  BY <1>1, <1>3, OneAuctionStake DEF IInv

\* A bid moves its value from the wallet into escrow.
LEMMA BidStake ==
    ASSUME IInv, IInv', NEW u \in Users, NEW id \in AuctionId, NEW v \in BidAmounts,
           Bid(u, id, v), NEW a \in Address
    PROVE  Stake(a)' = Stake(a)
<1>1. /\ funds' = Deposit(funds, u, v)
      /\ funds \in Funds /\ v \in Nat /\ u \in Address
      /\ cumulative \in [AuctionId -> [Address -> Nat]]
      /\ cumulative' = [cumulative EXCEPT ![id][u] = cumulative[id][u] + v]
      /\ ~auctions[id].settled
      /\ receipt' = receipt
      /\ \A i \in AuctionId \ {id} : auctions'[i] = auctions[i]
  BY DEF Bid, Open, IInv, TypeOK
<1>2. NetOfSale(id, a)' = 0 /\ NetOfSale(id, a) = 0
  BY <1>1, SameNetBeforeSale
<1>3. Worth(funds', a) = Worth(funds, a) - (IF a = u THEN v ELSE 0)
  BY <1>1, DepositWorth
<1>4. cumulative'[id][a] = cumulative[id][a] + (IF a = u THEN v ELSE 0)
  BY <1>1
<1>5. StakeIn(id, a)' = StakeIn(id, a)
  <2>1. Worth(funds, a) \in Nat /\ cumulative[id][a] \in Nat
    BY <1>1, WorthType
  <2> QED
    BY <1>1, <1>2, <1>3, <1>4, <2>1 DEF StakeIn
<1>6. \A i \in AuctionId \ {id} : cumulative'[i] = cumulative[i]
  BY <1>1
<1> QED
  BY <1>1, <1>5, <1>6, OneAuctionStake DEF IInv

\* Closing without a sale or a payment moves no money.
LEMMA PlainCloseStake ==
    ASSUME IInv, IInv', NEW id \in AuctionId, ~auctions[id].settled, Finalise(id),
           UNCHANGED <<funds, cumulative, receipt>>, NEW a \in Address
    PROVE  Stake(a)' = Stake(a)
<1>1. NetOfSale(id, a)' = 0 /\ NetOfSale(id, a) = 0
  BY SameNetBeforeSale
<1>2. StakeIn(id, a)' = StakeIn(id, a)
  BY <1>1 DEF StakeIn
<1>3. \A i \in AuctionId \ {id} : auctions'[i] = auctions[i]
  BY DEF Finalise, IInv, TypeOK
<1> QED
  BY <1>2, <1>3, OneAuctionStake DEF IInv

\* A delivered sale turns the winner's escrow into the seller's proceeds and
\* the fee's two cuts, and its receipt says so.
LEMMA DeliveredStake ==
    ASSUME IInv, IInv', NEW u \in Users, NEW id \in AuctionId,
           NEW okP, NEW okK, NEW okS, SettleDelivered(u, id, okP, okK, okS),
           NEW a \in Address
    PROVE  Stake(a)' = Stake(a)
<1> PICK w \in Address : w = auctions[id].leader
  BY DEF SettleDelivered, IInv, TypeOK, Auction, Principal
<1> PICK s \in Address : s = auctions[id].seller
  BY DEF SettleDelivered, MaySettle, Open, Exists, IInv, TypeOK, Auction, Principal
<1> PICK pr \in Nat : pr = cumulative[id][w]
  BY DEF IInv, TypeOK
<1> DEFINE fee == FeeOf(pr)
<1>1. /\ w = auctions[id].leader /\ s = auctions[id].seller /\ pr = cumulative[id][w]
      /\ funds \in Funds /\ keeper \in Address
      /\ auctions[id] \in Auction
      /\ receipt \in [AuctionId -> Receipt]
      /\ cumulative \in [AuctionId -> [Address -> Nat]]
  BY DEF IInv, TypeOK
<1>2. /\ ~auctions[id].settled
      /\ auctions' = [auctions EXCEPT ![id].settled = TRUE]
      /\ cumulative' = [cumulative EXCEPT ![id][w] = 0]
      /\ funds' = Pay(PayFee(funds, fee, okP, okK), s, pr - fee, okS)
      /\ receipt' = [receipt EXCEPT ![id] = [price |-> pr, keeper |-> keeper]]
  BY <1>1 DEF SettleDelivered, MaySettle, Open, Finalise
<1>3. /\ fee \in Nat /\ pr - fee \in Nat
      /\ KeeperCut(fee) \in Nat /\ PlatformCut(fee) \in Nat
  BY FeeCutTypes
<1>4. Worth(funds', a)
         = Worth(funds, a)
           + (IF a = s THEN pr - fee ELSE 0)
           + (IF a = FeeRecipient THEN PlatformCut(fee) ELSE 0)
           + (IF a = keeper THEN KeeperCut(fee) ELSE 0)
  BY <1>1, <1>2, ProceedsWorth
<1>5. NetOfSale(id, a) = 0
  <2>1. receipt[id].price = 0
    BY <1>2, NoSaleYet
  <2> QED
    BY <2>1, NetOfSaleType DEF IInv
<1>6. NetOfSale(id, a)'
         = (IF a = s THEN pr - fee ELSE 0)
           + (IF a = FeeRecipient THEN PlatformCut(fee) ELSE 0)
           + (IF a = keeper THEN KeeperCut(fee) ELSE 0)
           - (IF a = w THEN pr ELSE 0)
  <2>1. /\ receipt'[id].price = pr /\ receipt'[id].keeper = keeper
    BY <1>1, <1>2
  <2>2. auctions'[id].seller = s /\ auctions'[id].leader = w
    BY <1>1, <1>2 DEF IInv, TypeOK, Auction
  <2> QED
    BY <2>1, <2>2 DEF NetOfSale
<1>7. cumulative'[id][a] = cumulative[id][a] - (IF a = w THEN pr ELSE 0)
  BY <1>1, <1>2
<1> HIDE DEF fee
<1>8. StakeIn(id, a)' = StakeIn(id, a)
  <2>1. Worth(funds, a) \in Nat /\ cumulative[id][a] \in Nat
    BY <1>1, WorthType
  <2>2. PICK x \in Int : x = IF a = s THEN pr - fee ELSE 0
    BY <1>3
  <2>3. PICK y \in Int : y = IF a = FeeRecipient THEN PlatformCut(fee) ELSE 0
    BY <1>3
  <2>4. PICK z \in Int : z = IF a = keeper THEN KeeperCut(fee) ELSE 0
    BY <1>3
  <2>5. PICK p \in Int : p = IF a = w THEN pr ELSE 0
    OBVIOUS
  <2>6. /\ Worth(funds', a) = Worth(funds, a) + x + y + z
        /\ NetOfSale(id, a)' = x + y + z - p
        /\ cumulative'[id][a] = cumulative[id][a] - p
    BY <1>4, <1>6, <1>7, <2>2, <2>3, <2>4, <2>5
  <2>7. /\ StakeIn(id, a) = Worth(funds, a) + cumulative[id][a]
        /\ StakeIn(id, a)'
              = Worth(funds', a) + cumulative'[id][a] - NetOfSale(id, a)'
    BY <1>5, <2>1 DEF StakeIn
  <2> QED
    BY <2>1, <2>6, <2>7
<1>9. \A i \in AuctionId \ {id} : /\ cumulative'[i] = cumulative[i]
                                  /\ receipt'[i] = receipt[i]
                                  /\ auctions'[i] = auctions[i]
  BY <1>1, <1>2 DEF IInv, TypeOK
<1> QED
  BY <1>8, <1>9, OneAuctionStake DEF IInv

\* Escrow paid back, to a winner nothing was delivered to or to a loser, moves
\* from the auction to the wallet or the credit of its bidder.
LEMMA PaidBackStake ==
    ASSUME IInv, IInv', NEW id \in AuctionId, NEW b \in Address, NEW ok,
           ~auctions[id].settled,
           cumulative' = [cumulative EXCEPT ![id][b] = 0],
           funds' = Pay(funds, b, cumulative[id][b], ok),
           receipt' = receipt,
           \A i \in AuctionId \ {id} : auctions'[i] = auctions[i],
           NEW a \in Address
    PROVE  Stake(a)' = Stake(a)
<1>1. /\ funds \in Funds /\ cumulative[id][b] \in Nat
      /\ cumulative \in [AuctionId -> [Address -> Nat]]
  BY DEF IInv, TypeOK
<1>2. NetOfSale(id, a)' = 0 /\ NetOfSale(id, a) = 0
  BY SameNetBeforeSale
<1>3. Worth(funds', a) = Worth(funds, a) + (IF a = b THEN cumulative[id][b] ELSE 0)
  BY <1>1, PayWorth
<1>4. cumulative'[id][a] = IF a = b THEN 0 ELSE cumulative[id][a]
  BY <1>1
<1>5. StakeIn(id, a)' = StakeIn(id, a)
  <2>1. Worth(funds, a) \in Nat /\ cumulative[id][a] \in Nat
    BY <1>1, WorthType
  <2> QED
    BY <1>1, <1>2, <1>3, <1>4, <2>1 DEF StakeIn
<1>6. \A i \in AuctionId \ {id} : cumulative'[i] = cumulative[i]
  BY <1>1
<1> QED
  BY <1>5, <1>6, OneAuctionStake DEF IInv

\* settle, all three outcomes.
LEMMA SettleStake ==
    ASSUME IInv, IInv', NEW u \in Users, NEW id \in AuctionId, Settle(u, id),
           NEW a \in Address
    PROVE  Stake(a)' = Stake(a)
<1>1. CASE SettleNoLeader(u, id)
  BY <1>1, PlainCloseStake DEF SettleNoLeader, MaySettle, Open, coreVars
<1>2. ASSUME NEW okP, NEW okK, NEW okS, SettleDelivered(u, id, okP, okK, okS)
      PROVE  Stake(a)' = Stake(a)
  BY <1>2, DeliveredStake
<1>3. ASSUME NEW okW, SettleUndelivered(u, id, okW)
      PROVE  Stake(a)' = Stake(a)
  <2> PICK w \in Address : w = auctions[id].leader
    BY <1>3 DEF SettleUndelivered, IInv, TypeOK, Auction, Principal
  <2>1. /\ ~auctions[id].settled
        /\ cumulative' = [cumulative EXCEPT ![id][w] = 0]
        /\ funds' = Pay(funds, w, cumulative[id][w], okW)
        /\ receipt' = receipt
        /\ \A i \in AuctionId \ {id} : auctions'[i] = auctions[i]
    BY <1>3 DEF SettleUndelivered, MaySettle, Open, Finalise, IInv, TypeOK
  <2> QED
    BY <2>1, PaidBackStake
<1> QED
  BY <1>1, <1>2, <1>3 DEF Settle

\* refundLosers moves the escrow of the whole batch, whoever refuses.
LEMMA RefundStake ==
    ASSUME IInv, IInv', NEW id \in AuctionId, NEW batch \in SUBSET Users,
           NEW refused \in SUBSET (batch \cap Rejecting),
           RefundLosers(id, batch, refused), NEW a \in Address
    PROVE  Stake(a)' = Stake(a)
<1> DEFINE due == IF a \in batch THEN cumulative[id][a] ELSE 0
<1>1. /\ funds \in Funds
      /\ cumulative \in [AuctionId -> [Address -> Nat]]
      /\ UNCHANGED <<auctions, receipt>>
      /\ funds'.wallet[a] = funds.wallet[a] + (IF a \in refused THEN 0 ELSE due)
      /\ funds'.pendingReturns[a]
            = funds.pendingReturns[a] + (IF a \in refused THEN due ELSE 0)
  BY DEF RefundLosers, IInv, TypeOK
<1>2. cumulative'[id][a] = IF a \in batch THEN 0 ELSE cumulative[id][a]
  BY <1>1 DEF RefundLosers
<1>3. \A i \in AuctionId \ {id} : cumulative'[i] = cumulative[i]
  BY <1>1 DEF RefundLosers
<1>4. /\ cumulative[id][a] \in Nat /\ due \in Nat
      /\ funds.wallet[a] \in Nat /\ funds.pendingReturns[a] \in Nat
  BY <1>1 DEF Funds
<1>5. cumulative'[id][a] = cumulative[id][a] - due
  BY <1>2, <1>4
<1> HIDE DEF due
<1>6. Worth(funds', a) = Worth(funds, a) + due
  BY <1>1, <1>4 DEF Worth
<1>7. NetOfSale(id, a)' = NetOfSale(id, a) /\ NetOfSale(id, a) \in Int
  BY <1>1, NetOfSaleType DEF NetOfSale, IInv
<1>8. StakeIn(id, a)' = StakeIn(id, a)
  <2>1. Worth(funds, a) \in Nat
    BY <1>1, WorthType
  <2> QED
    BY <1>4, <1>5, <1>6, <1>7, <2>1 DEF StakeIn
<1> QED
  BY <1>1, <1>3, <1>8, OneAuctionStake DEF IInv


\* withdrawLoserFunds pays one bidder back while the auction is open.
LEMMA WithdrawLoserStake ==
    ASSUME IInv, IInv', NEW u \in Users, NEW id \in AuctionId, NEW ok,
           WithdrawLoserFunds(u, id, ok), NEW a \in Address
    PROVE  Stake(a)' = Stake(a)
<1>1. /\ u \in Address
      /\ ~auctions[id].settled
      /\ cumulative' = [cumulative EXCEPT ![id][u] = 0]
      /\ funds' = Pay(funds, u, cumulative[id][u], ok)
      /\ UNCHANGED <<auctions, receipt>>
  BY DEF WithdrawLoserFunds, Open
<1> QED
  BY <1>1, PaidBackStake

\* A step that touches no auction keeps the stake of whoever it keeps the worth of.
LEMMA OutsideStake ==
    ASSUME UNCHANGED <<auctions, cumulative, receipt>>, NEW a \in Address,
           Worth(funds', a) = Worth(funds, a)
    PROVE  Stake(a)' = Stake(a)
<1>1. Escrow(a)' = Escrow(a)
  BY DEF Escrow
<1>2. NetOfSales(a)' = NetOfSales(a)
  BY DEF NetOfSales, NetOfSale
<1> QED
  BY <1>1, <1>2 DEF Stake

\* No transaction changes what an account holds, is owed and has in escrow, but
\* for what its sales gained.
LEMMA NextStake ==
    ASSUME IInv, IInv', [Next]_vars, NEW a \in Address
    PROVE  Stake(a)' = Stake(a)
<1>1. ASSUME NEW u \in Sellers, NEW t \in Token, NEW r \in Reserves,
             NEW d \in Durations, Create(u, t, r, d)
      PROVE  Stake(a)' = Stake(a)
  BY <1>1, CreateStake
<1>2. ASSUME NEW u \in Users, NEW id \in AuctionId, NEW v \in BidAmounts, Bid(u, id, v)
      PROVE  Stake(a)' = Stake(a)
  BY <1>2, BidStake
<1>3. ASSUME NEW u \in Users, NEW id \in AuctionId, Settle(u, id)
      PROVE  Stake(a)' = Stake(a)
  BY <1>3, SettleStake
<1>4. ASSUME NEW id \in AuctionId, NEW batch \in SUBSET Users,
             NEW refused \in SUBSET (batch \cap Rejecting),
             RefundLosers(id, batch, refused)
      PROVE  Stake(a)' = Stake(a)
  BY <1>4, RefundStake
<1>5. ASSUME NEW u \in Users, NEW id \in AuctionId,
             CancelEarly(u, id) \/ ForceCancel(u, id)
      PROVE  Stake(a)' = Stake(a)
  BY <1>5, PlainCloseStake DEF CancelEarly, ForceCancel, Open, coreVars
<1>6. ASSUME NEW u \in Users, NEW id \in AuctionId, NEW ok, WithdrawLoserFunds(u, id, ok)
      PROVE  Stake(a)' = Stake(a)
  BY <1>6, WithdrawLoserStake
<1>7. ASSUME NEW u \in Address, WithdrawRefund(u), UNCHANGED <<houseVars, deliverable>>
      PROVE  Stake(a)' = Stake(a)
  <2>1. Worth(funds', a) = Worth(funds, a)
    BY <1>7, WithdrawRefundWorth DEF IInv, TypeOK
  <2> QED
    BY <1>7, <2>1, OutsideStake DEF houseVars
<1>8. ASSUME NEW k \in Keepers, SetKeeper(k), UNCHANGED <<houseVars, deliverable>>
      PROVE  Stake(a)' = Stake(a)
  BY <1>8, OutsideStake DEF SetKeeper, houseVars
<1>9. ASSUME NEW t \in Token, NEW u \in Sellers, TokenChange(t, u)
      PROVE  Stake(a)' = Stake(a)
  BY <1>9, OutsideStake DEF TokenChange, coreVars, houseVars
<1>10. ASSUME Tick, UNCHANGED <<houseVars, deliverable>>
       PROVE  Stake(a)' = Stake(a)
  BY <1>10, OutsideStake DEF Tick, houseVars
<1>11. CASE UNCHANGED vars
  BY <1>11, OutsideStake DEF vars, coreVars, houseVars
<1> QED
  BY <1>1, <1>2, <1>3, <1>4, <1>5, <1>6, <1>7, <1>8, <1>9, <1>10, <1>11 DEF Next

\* A new house holds nothing and has sold nothing.
LEMMA InitBooks == Init => EveryWeiAccounted
<1> SUFFICES ASSUME Init, NEW a \in Address
             PROVE  funds.wallet[a] + funds.pendingReturns[a] + Escrow(a)
                      = InitialWallet[a] + NetOfSales(a)
  BY DEF EveryWeiAccounted
<1>1. TypeOK
  BY InitIInv DEF IInv
<1>2. TotalsAreSums(a)
  BY <1>1, TotalsType
<1>3. \A id \in AuctionId : EscrowIn(a)[id] = 0
  BY DEF Init, EscrowIn
<1>4. \A id \in AuctionId : NetIn(a)[id] = 0
  <2> SUFFICES ASSUME NEW id \in AuctionId PROVE NetIn(a)[id] = 0
    OBVIOUS
  <2>1. receipt[id].price = 0
    BY DEF Init
  <2> QED
    BY <1>1, <2>1, NetOfSaleType DEF NetIn
<1>5. Escrow(a) = 0 /\ NetOfSales(a) = 0
  <2> DEFINE e == EscrowIn(a)
             n == NetIn(a)
  <2>1. /\ e \in [AuctionId -> Int] /\ n \in [AuctionId -> Int]
        /\ Escrow(a) = SumFunctionOnSet(e, AuctionId)
        /\ NetOfSales(a) = SumFunctionOnSet(n, AuctionId)
    BY <1>2 DEF TotalsAreSums
  <2> HIDE DEF e, n
  <2>2. (\A id \in AuctionId : e[id] = 0) => Escrow(a) = 0
    BY <2>1, IdsFinite, SumZero
  <2>3. (\A id \in AuctionId : n[id] = 0) => NetOfSales(a) = 0
    BY <2>1, IdsFinite, SumZero
  <2> QED
    BY <1>3, <1>4, <2>2, <2>3 DEF e, n
<1>6. funds.wallet[a] = InitialWallet[a] /\ funds.pendingReturns[a] = 0
  BY DEF Init
<1>7. InitialWallet[a] \in Nat
  OBVIOUS
<1> QED
  BY <1>5, <1>6, <1>7

\* The books stay balanced once they are.
LEMMA NextBooks ==
    EveryWeiAccounted /\ IInv /\ IInv' /\ [Next]_vars => EveryWeiAccounted'
<1> SUFFICES ASSUME EveryWeiAccounted, IInv, IInv', [Next]_vars, NEW a \in Address
             PROVE  funds'.wallet[a] + funds'.pendingReturns[a] + Escrow(a)'
                      = InitialWallet[a] + NetOfSales(a)'
  BY DEF EveryWeiAccounted
<1> DEFINE w == Worth(funds, a)
           v == Worth(funds', a)
           e == Escrow(a)
           f == Escrow(a)'
           i == InitialWallet[a]
           g == NetOfSales(a)
           h == NetOfSales(a)'
<1>1. e \in Int /\ g \in Int /\ f \in Int /\ h \in Int
  BY TotalsType, TotalsTypeNext DEF TotalsAreSums, IInv
<1>2. w \in Int /\ v \in Int /\ i \in Int
  BY WorthType DEF IInv, TypeOK
<1>3. w + e = i + g
  BY DEF EveryWeiAccounted, Worth
<1>4. v + f - h = w + e - g
  BY NextStake DEF Stake
<1> HIDE DEF w, v, e, f, i, g, h
<1>5. v + f = i + h
  BY <1>1, <1>2, <1>3, <1>4
<1> QED
  BY <1>5 DEF v, f, i, h, Worth

\* Every wei of every account is accounted for, in escrow, owed or held, for
\* any number of auctions, overbids, refused pushes, refunds and sales (bid,
\* settle, refundLosers, withdrawLoserFunds, withdrawRefund, _pay).
THEOREM BooksBalance == Spec => []EveryWeiAccounted
<1>1. IInv /\ EveryWeiAccounted /\ [Next]_vars => IInv' /\ EveryWeiAccounted'
  BY NextIInv, NextBooks
<1> QED
  BY <1>1, InitIInv, InitBooks, PTL DEF Spec

----------------------------------------------------------------------------
(* Each auction implements EnglishAuction                                  *)

AuctionStep(id) == Abstract(id)!Next \/ UNCHANGED Abstract(id)!vars

\* What the abstract auction sees of a concrete one: the arms of the mapping
\* exclude one another in every reachable state.
Seen(id) ==
    /\ ~Exists(id) => PhaseOf(id) = "none" /\ BestOf(id) = 0
    /\ Open(id) => PhaseOf(id) = "open"
    /\ Open(id) /\ auctions[id].leader = NoAddr => BestOf(id) = 0
    /\ Open(id) /\ auctions[id].leader # NoAddr
         => BestOf(id) = cumulative[id][auctions[id].leader]
    /\ Exists(id) /\ ~Open(id) /\ receipt[id].price > 0
         => PhaseOf(id) = "sold" /\ BestOf(id) = receipt[id].price
    /\ Exists(id) /\ ~Open(id) /\ ~(receipt[id].price > 0)
         => PhaseOf(id) = "unsold" /\ BestOf(id) = 0

LEMMA EverySeen == IInv => \A id \in AuctionId : Seen(id)
<1> SUFFICES ASSUME IInv, NEW id \in AuctionId PROVE Seen(id)
  OBVIOUS
<1>1. receipt[id].price > 0 => Exists(id) /\ ~Open(id)
  BY DEF IInv, AuctionInv, NotYetCreated, NoSaleBeforeSettlement, Open
<1>2. Open(id) => Exists(id)
  BY DEF Open
<1>3. /\ ~Exists(id) => PhaseOf(id) = "none"
      /\ Open(id) => PhaseOf(id) = "open"
      /\ Exists(id) /\ ~Open(id) /\ receipt[id].price > 0 => PhaseOf(id) = "sold"
      /\ Exists(id) /\ ~Open(id) /\ ~(receipt[id].price > 0) => PhaseOf(id) = "unsold"
  BY <1>1, <1>2 DEF PhaseOf
<1> QED
  BY <1>1, <1>2, <1>3 DEF Seen, BestOf

LEMMA EverySeenNext == IInv' => (\A id \in AuctionId : Seen(id))'
  BY EverySeen, PTL

\* An auction whose record, receipt and winning bid stay is not stepped:
\* nobody's later refund, and no call about another auction, shows in it.
LEMMA AuctionStutter ==
    ASSUME IInv, IInv', NEW id \in AuctionId,
           auctions'[id] = auctions[id], receipt'[id] = receipt[id],
           Open(id) /\ auctions[id].leader # NoAddr
             => cumulative'[id][auctions[id].leader]
                   = cumulative[id][auctions[id].leader]
    PROVE  AuctionStep(id)
<1>1. Seen(id) /\ Seen(id)'
  BY EverySeen, EverySeenNext
<1>2. /\ Exists(id)' <=> Exists(id)
      /\ Open(id)' <=> Open(id)
  BY DEF Exists, Open
<1>3. PhaseOf(id)' = PhaseOf(id) /\ BestOf(id)' = BestOf(id)
  BY <1>1, <1>2 DEF Seen
<1> QED
  BY <1>3 DEF AuctionStep, Abstract!vars

\* create starts an auction.
LEMMA CreateIsStart ==
    ASSUME IInv, IInv', NEW u \in Sellers, NEW t \in Token, NEW r \in Reserves,
           NEW d \in Durations, Create(u, t, r, d), NEW id \in AuctionId
    PROVE  AuctionStep(id)
<1> DEFINE end == now + d
           new == [seller |-> u, leader |-> NoAddr, token |-> t, reserve |-> r,
                   endsAt |-> end, originalEndsAt |-> end, settled |-> FALSE]
<1>1. /\ auctions' = [auctions EXCEPT ![nextAuctionId + 1] = new]
      /\ r >= MinPrice
      /\ UNCHANGED <<cumulative, receipt, now>>
      /\ auctions \in [AuctionId -> Auction]
      /\ nextAuctionId + 1 \in AuctionId
      /\ now \in Nat /\ d \in Nat \ {0} /\ u # NoAddr
  BY DEF Create, ExpiryFor, coreVars, IInv, TypeOK
<1>2. CASE id = nextAuctionId + 1
  <2>1. ~Exists(id)
    BY <1>1, <1>2 DEF IInv, TypeOK, CreatedInOrder, AuctionId
  <2>2. auctions'[id] = new
    BY <1>1, <1>2
  <2>3. /\ auctions'[id].leader = NoAddr
        /\ auctions'[id].reserve = r
        /\ auctions'[id].endsAt = end
        /\ auctions'[id].originalEndsAt = end
        /\ Exists(id)' /\ Open(id)'
    BY <1>1, <2>2 DEF Exists, Open
  <2>4. auctions[id].leader = NoAddr
    BY <2>1 DEF IInv, AuctionInv, NotYetCreated
  <2>5. /\ PhaseOf(id) = "none" /\ BestOf(id) = 0
        /\ PhaseOf(id)' = "open" /\ BestOf(id)' = 0
    BY <2>1, <2>3, EverySeen, EverySeenNext DEF Seen
  <2>6. end > now
    BY <1>1
  <2>7. Abstract(id)!Start
    BY <1>1, <2>3, <2>4, <2>5, <2>6 DEF Abstract!Start
  <2> QED
    BY <2>7 DEF AuctionStep, Abstract!Next
<1>3. CASE id # nextAuctionId + 1
  BY <1>1, <1>3, AuctionStutter
<1> QED
  BY <1>2, <1>3

\* bid tops up the winning bid or overtakes it.
LEMMA BidIsTopUpOrOvertake ==
    ASSUME IInv, IInv', NEW u \in Users, NEW i \in AuctionId, NEW v \in BidAmounts,
           Bid(u, i, v), NEW id \in AuctionId
    PROVE  AuctionStep(id)
<1> DEFINE a == auctions[i]
           total == cumulative[i][u] + v
           newEnd == IF a.leader = u THEN a.endsAt ELSE EndAfterLeadChange(a)
<1>1. /\ Open(i) /\ now < a.endsAt /\ v > 0
      /\ TakesOrKeepsLead(i, u, total)
      /\ cumulative' = [cumulative EXCEPT ![i][u] = total]
      /\ auctions' = [auctions EXCEPT ![i] = [a EXCEPT !.leader = u, !.endsAt = newEnd]]
      /\ receipt' = receipt
      /\ auctions \in [AuctionId -> Auction]
      /\ cumulative \in [AuctionId -> [Address -> Nat]]
      /\ u \in Address /\ u # NoAddr /\ v \in Nat /\ now \in Nat
  BY DEF Bid, IInv, TypeOK
<1>2. CASE id = i
  <2>1. /\ auctions'[i].leader = u
        /\ auctions'[i].endsAt = newEnd
        /\ auctions'[i].seller = a.seller
        /\ auctions'[i].settled = a.settled
        /\ auctions'[i].reserve = a.reserve
        /\ auctions'[i].originalEndsAt = a.originalEndsAt
        /\ cumulative'[i][u] = total
    BY <1>1 DEF Auction
  <2>2. Open(i)'
    BY <1>1, <2>1 DEF Open, Exists
  <2>3. PhaseOf(i) = "open" /\ PhaseOf(i)' = "open" /\ BestOf(i)' = total
    BY <1>1, <2>1, <2>2, EverySeen, EverySeenNext DEF Seen
  <2>4. CASE a.leader = u
    <3>1. BestOf(i) = cumulative[i][u]
      BY <1>1, <2>4, EverySeen DEF Seen
    <3>2. BestOf(i)' > BestOf(i)
      BY <1>1, <2>3, <3>1
    <3>3. Abstract(i)!TopUp
      BY <1>1, <2>1, <2>3, <2>4, <3>2 DEF Abstract!TopUp
    <3> QED
      BY <1>2, <3>3 DEF AuctionStep, Abstract!Next
  <2>5. CASE a.leader # u
    <3>1. /\ newEnd >= a.endsAt
          /\ newEnd <= a.originalEndsAt + MaxTotalExtension
          /\ \/ newEnd >= now + ExtensionWindow
             \/ newEnd = a.originalEndsAt + MaxTotalExtension
      <4>1. /\ a \in Auction
            /\ a.originalEndsAt <= a.endsAt
            /\ a.endsAt <= a.originalEndsAt + MaxTotalExtension
        BY <1>1 DEF IInv, AuctionInv, Overtime
      <4> QED
        BY <1>1, <2>5, <4>1, EndBounds
    <3>2. total >= IF a.leader = NoAddr THEN a.reserve
                                        ELSE BestOf(i) + MinBidIncrement
      <4>1. CASE a.leader = NoAddr
        BY <1>1, <2>5, <4>1 DEF TakesOrKeepsLead
      <4>2. CASE a.leader # NoAddr
        <5>1. BestOf(i) = cumulative[i][a.leader]
          BY <1>1, <4>2, EverySeen DEF Seen
        <5> QED
          BY <1>1, <2>5, <4>2, <5>1 DEF TakesOrKeepsLead
      <4> QED
        BY <4>1, <4>2
    <3>3. Abstract(i)!Overtake
      <4> HIDE DEF total, newEnd
      <4> QED
        BY <1>1, <2>1, <2>3, <2>5, <3>1, <3>2 DEF Abstract!Overtake
    <3> QED
      BY <1>2, <3>3 DEF AuctionStep, Abstract!Next
  <2> QED
    BY <2>4, <2>5
<1>3. CASE id # i
  BY <1>1, <1>3, AuctionStutter
<1> QED
  BY <1>2, <1>3

\* Closing changes nothing of the record but that it is settled.
LEMMA ClosedRecord ==
    ASSUME IInv, NEW i \in AuctionId, Open(i), Finalise(i)
    PROVE  /\ ~Open(i)' /\ Exists(i)'
           /\ auctions'[i].leader = auctions[i].leader
           /\ auctions'[i].reserve = auctions[i].reserve
           /\ auctions'[i].endsAt = auctions[i].endsAt
           /\ auctions'[i].originalEndsAt = auctions[i].originalEndsAt
           /\ \A id \in AuctionId \ {i} : auctions'[id] = auctions[id]
  BY DEF IInv, TypeOK, Auction, Open, Exists, Finalise

\* Closing without a sale, after the end or while nobody leads, abandons.
LEMMA CloseIsAbandon ==
    ASSUME IInv, IInv', NEW i \in AuctionId, Open(i), Finalise(i),
           auctions[i].leader = NoAddr \/ now >= auctions[i].endsAt,
           receipt' = receipt,
           \A j \in AuctionId \ {i} : cumulative'[j] = cumulative[j],
           NEW id \in AuctionId
    PROVE  AuctionStep(id)
<1>1. CASE id = i
  <2>1. PhaseOf(i) = "open"
    BY EverySeen DEF Seen
  <2>2. receipt'[i].price = 0
    BY NoSaleYet DEF Open
  <2>3. PhaseOf(i)' = "unsold" /\ BestOf(i)' = 0
    BY <2>2, ClosedRecord, EverySeenNext DEF Seen
  <2>4. Abstract(i)!Abandon
    BY <2>1, <2>3, ClosedRecord DEF Abstract!Abandon
  <2> QED
    BY <1>1, <2>4 DEF AuctionStep, Abstract!Next
<1>2. CASE id # i
  BY <1>2, ClosedRecord, AuctionStutter
<1> QED
  BY <1>1, <1>2

\* settle sells at the winning bid, or abandons.
LEMMA SettleIsSellOrAbandon ==
    ASSUME IInv, IInv', NEW u \in Users, NEW i \in AuctionId, Settle(u, i),
           NEW id \in AuctionId
    PROVE  AuctionStep(id)
<1>1. CASE SettleNoLeader(u, i)
  BY <1>1, CloseIsAbandon DEF SettleNoLeader, MaySettle
<1>2. ASSUME NEW okP, NEW okK, NEW okS, SettleDelivered(u, i, okP, okK, okS)
      PROVE  AuctionStep(id)
  <2> DEFINE w == auctions[i].leader
  <2>1. /\ Open(i) /\ now >= auctions[i].endsAt /\ w # NoAddr /\ Finalise(i)
        /\ cumulative' = [cumulative EXCEPT ![i][w] = 0]
        /\ receipt' = [receipt EXCEPT ![i] =
                          [price |-> cumulative[i][w], keeper |-> keeper]]
        /\ receipt \in [AuctionId -> Receipt]
        /\ cumulative \in [AuctionId -> [Address -> Nat]]
    BY <1>2 DEF SettleDelivered, MaySettle, IInv, TypeOK
  <2>2. CASE id = i
    <3>1. PhaseOf(i) = "open" /\ BestOf(i) = cumulative[i][w]
      BY <2>1, EverySeen DEF Seen
    <3>2. cumulative[i][w] > 0
      <4>1. /\ cumulative[i][w] >= auctions[i].reserve
            /\ auctions[i].reserve >= MinPrice
        BY <2>1 DEF IInv, AuctionInv, LeaderHoldsMax, ReserveClearsMinimum, Open
      <4>2. cumulative[i][w] \in Nat /\ auctions[i].reserve \in Nat
        BY <2>1 DEF IInv, TypeOK, Auction, Principal
      <4> QED
        BY <4>1, <4>2
    <3>3. receipt'[i].price = cumulative[i][w]
      BY <2>1
    <3>4. PhaseOf(i)' = "sold" /\ BestOf(i)' = cumulative[i][w]
      BY <2>1, <3>2, <3>3, ClosedRecord, EverySeenNext DEF Seen
    <3>5. Abstract(i)!Sell
      BY <2>1, <3>1, <3>4, ClosedRecord DEF Abstract!Sell
    <3> QED
      BY <2>2, <3>5 DEF AuctionStep, Abstract!Next
  <2>3. CASE id # i
    <3>1. cumulative'[id] = cumulative[id] /\ receipt'[id] = receipt[id]
      BY <2>1, <2>3
    <3> QED
      BY <2>1, <2>3, <3>1, ClosedRecord, AuctionStutter
  <2> QED
    BY <2>2, <2>3
<1>3. ASSUME NEW okW, SettleUndelivered(u, i, okW)
      PROVE  AuctionStep(id)
  <2>1. /\ Open(i) /\ now >= auctions[i].endsAt /\ Finalise(i)
        /\ receipt' = receipt
        /\ \A j \in AuctionId \ {i} : cumulative'[j] = cumulative[j]
    BY <1>3 DEF SettleUndelivered, MaySettle, IInv, TypeOK
  <2> QED
    BY <2>1, CloseIsAbandon
<1> QED
  BY <1>1, <1>2, <1>3 DEF Settle

\* Every transaction is a step of every auction, or no step of it.
LEMMA NextIsAuctionStep ==
    ASSUME IInv, IInv', [Next]_vars
    PROVE  \A id \in AuctionId : AuctionStep(id)
<1> SUFFICES ASSUME NEW id \in AuctionId PROVE AuctionStep(id)
  OBVIOUS
<1>1. ASSUME NEW u \in Sellers, NEW t \in Token, NEW r \in Reserves,
             NEW d \in Durations, Create(u, t, r, d)
      PROVE  AuctionStep(id)
  BY <1>1, CreateIsStart
<1>2. ASSUME NEW u \in Users, NEW i \in AuctionId, NEW v \in BidAmounts, Bid(u, i, v)
      PROVE  AuctionStep(id)
  BY <1>2, BidIsTopUpOrOvertake
<1>3. ASSUME NEW u \in Users, NEW i \in AuctionId, Settle(u, i)
      PROVE  AuctionStep(id)
  BY <1>3, SettleIsSellOrAbandon
<1>4. ASSUME NEW i \in AuctionId, NEW batch \in SUBSET Users,
             NEW refused \in SUBSET (batch \cap Rejecting),
             RefundLosers(i, batch, refused)
      PROVE  AuctionStep(id)
  <2>1. auctions' = auctions /\ receipt' = receipt
    BY <1>4 DEF RefundLosers
  <2>2. Open(id) => cumulative'[id] = cumulative[id]
    BY <1>4 DEF RefundLosers, Open, IInv, TypeOK
  <2> QED
    BY <2>1, <2>2, AuctionStutter
<1>5. ASSUME NEW u \in Users, NEW i \in AuctionId, CancelEarly(u, i)
      PROVE  AuctionStep(id)
  <2>1. Open(i)
    BY <1>5 DEF CancelEarly, Open, Exists
  <2> QED
    BY <1>5, <2>1, CloseIsAbandon DEF CancelEarly
<1>6. ASSUME NEW u \in Users, NEW i \in AuctionId, ForceCancel(u, i)
      PROVE  AuctionStep(id)
  <2>1. auctions[i].endsAt \in Nat /\ now \in Nat
    BY DEF IInv, TypeOK, Auction
  <2>2. now >= auctions[i].endsAt
    BY <1>6, <2>1 DEF ForceCancel
  <2> QED
    BY <1>6, <2>2, CloseIsAbandon DEF ForceCancel
<1>7. ASSUME NEW u \in Users, NEW i \in AuctionId, NEW ok, WithdrawLoserFunds(u, i, ok)
      PROVE  AuctionStep(id)
  <2>1. /\ auctions' = auctions /\ receipt' = receipt
        /\ auctions[i].leader # u
        /\ cumulative' = [cumulative EXCEPT ![i][u] = 0]
        /\ cumulative \in [AuctionId -> [Address -> Nat]]
    BY <1>7 DEF WithdrawLoserFunds, IInv, TypeOK
  <2>2. auctions[id].leader # NoAddr => auctions[id].leader \in Address
    BY DEF IInv, TypeOK, Auction, Principal
  <2>3. auctions[id].leader # NoAddr
          => cumulative'[id][auctions[id].leader] = cumulative[id][auctions[id].leader]
    BY <2>1, <2>2
  <2> QED
    BY <2>1, <2>3, AuctionStutter
<1>8. CASE UNCHANGED <<auctions, cumulative, receipt>>
  BY <1>8, AuctionStutter
<1>9. ASSUME NEW u \in Address, WithdrawRefund(u), UNCHANGED <<houseVars, deliverable>>
      PROVE  AuctionStep(id)
  BY <1>8, <1>9 DEF houseVars
<1>10. ASSUME NEW k \in Keepers, SetKeeper(k), UNCHANGED <<houseVars, deliverable>>
       PROVE  AuctionStep(id)
  BY <1>8, <1>10 DEF houseVars
<1>11. ASSUME NEW t \in Token, NEW u \in Sellers, TokenChange(t, u)
       PROVE  AuctionStep(id)
  BY <1>8, <1>11 DEF TokenChange, houseVars
<1>12. ASSUME Tick, UNCHANGED <<houseVars, deliverable>>
       PROVE  AuctionStep(id)
  BY <1>8, <1>12 DEF houseVars
<1>13. CASE UNCHANGED vars
  BY <1>8, <1>13 DEF vars, houseVars
<1> QED
  BY <1>1, <1>2, <1>3, <1>4, <1>5, <1>6, <1>7, <1>9, <1>10, <1>11, <1>12, <1>13
     DEF Next

\* The house refines one EnglishAuction per id: the best bid only grows, a new
\* leader clears the reserve or beats the old one by the increment and can be
\* answered for the window, the end stays under the hard cap, and every auction
\* closes once, sold at its best bid or not at all, whatever calls about other
\* auctions, late refunds and withdrawals happen in between (create, bid, settle,
\* cancelEarly, forceCancel, refundLosers, withdrawLoserFunds).
THEOREM AuctionsAreEnglish == Spec => EveryAuctionIsEnglish
<1>1. Init => \A id \in AuctionId : Abstract(id)!Init
  <2> SUFFICES ASSUME Init, NEW id \in AuctionId PROVE Abstract(id)!Init
    OBVIOUS
  <2>1. ~Exists(id) /\ auctions[id].leader = NoAddr
    BY DEF Init, Exists, ZeroAuction
  <2>2. PhaseOf(id) = "none" /\ BestOf(id) = 0
    BY <2>1, InitIInv, EverySeen DEF Seen
  <2> QED
    BY <2>1, <2>2 DEF Abstract!Init
<1>2. IInv /\ IInv' /\ [Next]_vars
         => [\A id \in AuctionId :
                Abstract(id)!Next \/ UNCHANGED Abstract(id)!vars]_vars
  BY NextIsAuctionStep DEF AuctionStep
<1> QED
  BY <1>1, <1>2, Inductive, PTL DEF Spec, EveryAuctionIsEnglish
=============================================================================

----------------------------- MODULE OfferBook -----------------------------
(***************************************************************************)
(* On-chain offers: one position per NFT and bidder, its whole principal   *)
(* in escrow until it is accepted, rejected, cancelled, or refunded after  *)
(* its expiry.  A call that reverts is no step; the hook of a bidder that  *)
(* refuses the token reverts acceptOffer.                                  *)
(***************************************************************************)
EXTENDS MarketplaceCore, FiniteSets, Functions

CONSTANTS
    Collections,       \* NFT contracts
    TokenIds,
    ERC1155,           \* the collections of that standard; the others: ERC-721
    Users,             \* the accounts that call the contract
    Keepers,           \* the addresses an admin ever makes keeper
    Curators,          \* collection -> its ERC-173 owner or the admin
    InitialWallet,     \* what every account holds at the start
    InitialBalance,    \* nft -> account -> units held at the start
    Principals,        \* the msg.value of an offer
    UnitCounts,        \* the units an ERC-1155 offer asks for
    MaxUint80,         \* type(uint80).max
    MaxSold            \* bound: the gross sales of one position slot

ASSUME BookAssumption ==
    /\ IsFiniteSet(Collections)   \* of type address
    /\ IsFiniteSet(TokenIds)      \* of type uint256
    /\ ERC1155 \subseteq Collections
    /\ Users \subseteq Address
    /\ Keepers \subseteq Address
    /\ Curators \in [Collections -> SUBSET Users]
    /\ InitialWallet \in [Address -> Nat]
    /\ InitialBalance \in [Collections \X TokenIds -> [Address -> Nat]]
    /\ Principals \subseteq Nat
    /\ UnitCounts \subseteq Nat
    /\ MaxUint80 \in Nat
    /\ MaxSold \in Nat

VARIABLES
    positions,  \* nft -> bidder -> Position; the zero record when there is none
    eligible,   \* the collections that accept offers
    balance,    \* nft -> account -> units held
    approved,   \* <<nft, owner>>: the owner approves the book
    sold,       \* nft -> bidder -> principals the OfferAccepted events carried
    earned      \* account -> what OfferAccepted and FeeSplit say it gained

bookVars == <<positions, eligible, sold, earned>>
tokenVars == <<balance, approved>>
vars == <<coreVars, bookVars, tokenVars>>

Nft == Collections \X TokenIds
Standard == {"ERC721", "ERC1155"}
KindOf(nft) == IF nft[1] \in ERC1155 THEN "ERC1155" ELSE "ERC721"

Position == [principal : Nat, units : Nat, expiresAt : Nat, standard : Standard]

NoPosition ==
    [principal |-> 0, units |-> 0, expiresAt |-> 0, standard |-> "ERC721"]

Init ==
    /\ funds = [wallet |-> InitialWallet,
                pendingReturns |-> [a \in Address |-> 0]]
    /\ keeper \in Keepers
    /\ now = 0
    /\ positions = [nft \in Nft |-> [b \in Address |-> NoPosition]]
    /\ eligible = {}
    /\ balance = InitialBalance
    /\ approved = {}
    /\ sold = [nft \in Nft |-> [b \in Address |-> 0]]
    /\ earned = [a \in Address |-> 0]

Delete(nft, bidder) ==
    positions' = [positions EXCEPT ![nft][bidder] = NoPosition]

\* ownerOf / balanceOf; asking a collection of the other standard reverts.
Holds(owner, nft, p) ==
    /\ p.standard = KindOf(nft)
    /\ balance[nft][owner] >= p.units

----------------------------------------------------------------------------
SetOfferEligible(caller, coll, flag) ==
    /\ caller \in Curators[coll]
    /\ eligible' = IF flag THEN eligible \cup {coll} ELSE eligible \ {coll}
    /\ UNCHANGED <<coreVars, positions, sold, earned, tokenVars>>

\* Mutation: an edit restarts the timer.
ExpiryOfOfferRenewed(p, duration) == ExpiryFor(duration)

\* An edit keeps the timer of the position it edits.
ExpiryOfOffer(p, duration) ==
    IF p.principal > 0 THEN p.expiresAt ELSE ExpiryFor(duration)

\* makeOffer, makeOffer1155: a new position, or an edit that refunds the old
\* principal.  MaxTime bounds the expiry.
MakeOffer(bidder, nft, standard, principal, units, duration, ok) ==
    LET p == positions[nft][bidder]
        isEdit == p.principal > 0
        paid == Deposit(funds, bidder, principal)
    IN  /\ nft[1] \in eligible
        /\ principal >= MinPrice
        /\ principal <= funds.wallet[bidder]
        /\ units > 0 /\ units <= MaxUint80
        /\ standard = "ERC721" => units = 1
        /\ now < ExpiryOfOffer(p, duration)
        /\ ExpiryOfOffer(p, duration) < MaxTime
        /\ positions' = [positions EXCEPT ![nft][bidder] =
              [principal |-> principal, units |-> units, standard |-> standard,
               expiresAt |-> ExpiryOfOffer(p, duration)]]
        /\ funds' = IF isEdit THEN Pay(paid, bidder, p.principal, ok) ELSE paid
        /\ UNCHANGED <<keeper, now, eligible, sold, earned, tokenVars>>

\* What one sale gives and takes, by its two events.
NetOfSale(a, seller, bidder, principal) ==
    LET fee == FeeOf(principal)
    IN  (IF a = seller THEN principal - fee ELSE 0)
        + (IF a = FeeRecipient THEN PlatformCut(fee) ELSE 0)
        + (IF a = keeper THEN KeeperCut(fee) ELSE 0)
        - (IF a = bidder THEN principal ELSE 0)

\* The position is the one the seller agreed to, and not dead yet.
TermsStand(p, expected) ==
    p.principal > 0 /\ p.principal = expected /\ now < p.expiresAt

AcceptOffer(seller, nft, bidder, expected, okP, okK, okS) ==
    LET p == positions[nft][bidder]
        fee == FeeOf(p.principal)
    IN  /\ TermsStand(p, expected)
        /\ Holds(seller, nft, p)
        /\ <<nft, seller>> \in approved
        /\ sold[nft][bidder] + p.principal <= MaxSold
        /\ Delete(nft, bidder)
        /\ balance' = [balance EXCEPT ![nft] = Moved(@, seller, bidder, p.units)]
        /\ approved' \in {approved, approved \ {<<nft, seller>>}}
        /\ funds' = Pay(PayFee(funds, fee, okP, okK),
                        seller, p.principal - fee, okS)
        /\ sold' = [sold EXCEPT ![nft][bidder] = @ + p.principal]
        /\ earned' = [a \in Address |->
                        earned[a] + NetOfSale(a, seller, bidder, p.principal)]
        /\ UNCHANGED <<keeper, now, eligible>>

----------------------------------------------------------------------------
(* The three refunds.  None of them asks whether offers are still eligible.*)

Refund(nft, bidder, ok) ==
    /\ positions[nft][bidder].principal > 0
    /\ Delete(nft, bidder)
    /\ funds' = Pay(funds, bidder, positions[nft][bidder].principal, ok)
    /\ UNCHANGED <<keeper, now, eligible, sold, earned, tokenVars>>

\* Mutation: the expired escrow of a bidder only the keeper may move.
RefundExpiredOfferByKeeper(caller, nft, bidder, ok) ==
    /\ caller = keeper
    /\ now >= positions[nft][bidder].expiresAt
    /\ Refund(nft, bidder, ok)

RefundExpiredOffer(caller, nft, bidder, ok) ==
    /\ caller \in {bidder, keeper}
    /\ now >= positions[nft][bidder].expiresAt
    /\ Refund(nft, bidder, ok)

CancelOffer(bidder, nft, ok) ==
    /\ now < positions[nft][bidder].expiresAt
    /\ Refund(nft, bidder, ok)

RejectOffer(owner, nft, bidder, ok) ==
    /\ Holds(owner, nft, positions[nft][bidder])
    /\ Refund(nft, bidder, ok)

----------------------------------------------------------------------------
(* The world outside: tokens and approvals change hands at will.           *)

TokenMove(nft, from, to) ==
    /\ balance[nft][from] > 0
    /\ balance' = [balance EXCEPT ![nft] = Moved(@, from, to, 1)]
    /\ UNCHANGED <<coreVars, bookVars, approved>>

Approve(nft, owner) ==
    /\ approved' \in {approved \cup {<<nft, owner>>}, approved \ {<<nft, owner>>}}
    /\ UNCHANGED <<coreVars, bookVars, balance>>

MakeSomeOffer ==
    \E b \in Users, nft \in Nft, s \in Standard, pr \in Principals,
       n \in UnitCounts, d \in Durations : \E ok \in PushOutcomes(b) :
       MakeOffer(b, nft, s, pr, n, d, ok)

AcceptFor(seller, nft, bidder, expected) ==
    \E okP \in PushOutcomes(FeeRecipient), okK \in PushOutcomes(keeper),
       okS \in PushOutcomes(seller) :
       AcceptOffer(seller, nft, bidder, expected, okP, okK, okS)

RefundSome ==
    \E b \in Users, nft \in Nft : \E ok \in PushOutcomes(b) :
       \/ \E c \in Users : RefundExpiredOffer(c, nft, b, ok)
       \/ CancelOffer(b, nft, ok)
       \/ \E o \in Users : RejectOffer(o, nft, b, ok)

Environment ==
    \/ \E u \in Address : WithdrawRefund(u) /\ UNCHANGED <<bookVars, tokenVars>>
    \/ \E k \in Keepers : SetKeeper(k) /\ UNCHANGED <<bookVars, tokenVars>>
    \/ Tick /\ UNCHANGED <<bookVars, tokenVars>>
    \/ \E nft \in Nft, u, v \in Users : TokenMove(nft, u, v)
    \/ \E nft \in Nft, u \in Users : Approve(nft, u)

Next ==
    \/ \E u \in Users, c \in Collections, flag \in BOOLEAN :
          SetOfferEligible(u, c, flag)
    \/ MakeSomeOffer
    \/ \E u, b \in Users, nft \in Nft, e \in Principals : AcceptFor(u, nft, b, e)
    \/ RefundSome
    \/ Environment

Spec == Init /\ [][Next]_vars

----------------------------------------------------------------------------
(* Properties                                                              *)

TypeOK ==
    /\ funds \in Funds
    /\ keeper \in Keepers
    /\ now \in 0 .. MaxTime
    /\ positions \in [Nft -> [Address -> Position]]
    /\ eligible \subseteq Collections
    /\ balance \in [Nft -> [Address -> Nat]]
    /\ approved \subseteq Nft \X Users
    /\ sold \in [Nft -> [Address -> 0 .. MaxSold]]
    /\ earned \in [Address -> Int]

Escrow(a) == SumFunctionOnSet([nft \in Nft |-> positions[nft][a].principal], Nft)

\* Every account holds, is owed or has on offer exactly what it came with and
\* what the sale events say it gained or spent: edits, refused pushes,
\* refunds and accepts lose nothing and pay nothing twice (_makeOffer,
\* acceptOffer, refundExpiredOffer, cancelOffer, rejectOffer, _pay).
EveryWeiAccounted ==
    \A a \in Address :
        funds.wallet[a] + funds.pendingReturns[a] + Escrow(a)
           = InitialWallet[a] + earned[a]

Slot(nft, b) == INSTANCE EscrowSlot WITH
    Floor <- MinPrice,
    principal <- positions[nft][b].principal,
    deadline <- positions[nft][b].expiresAt,
    traded <- sold[nft][b]

\* Each position keeps the promise of EscrowSlot, whatever happens to the
\* others, to the token and to the keeper role: one deadline from the offer to
\* the trade, however often it is edited (_makeOffer, acceptOffer).
EveryPositionIsASlot ==
    /\ \A nft \in Nft, b \in Address : Slot(nft, b)!Init
    /\ [][\A nft \in Nft, b \in Address :
             Slot(nft, b)!Next \/ UNCHANGED Slot(nft, b)!vars]_vars

----------------------------------------------------------------------------
(* A bidder alone: only time and the bidder's own expired refund are fair. *)

BidderAlone ==
    /\ WF_vars(Tick /\ UNCHANGED <<bookVars, tokenVars>>)
    /\ \A b \in Users, nft \in Nft :
          WF_vars(\E ok \in PushOutcomes(b) : RefundExpiredOffer(b, nft, b, ok))

FairSpec == Spec /\ BidderAlone

\* "A dead keeper can never strand it": the principal of every offer leaves
\* escrow although no keeper, owner or admin ever acts, and although the
\* collection may have stopped accepting offers (refundExpiredOffer).
NoPrincipalStranded ==
    \A nft \in Nft, b \in Users :
        positions[nft][b].principal > 0 ~> positions[nft][b].principal = 0
=============================================================================

---------------------------- MODULE Marketplace ----------------------------
(***************************************************************************)
(* Fixed-price listings: one per NFT and seller, free, not custodial.  The *)
(* token stays with the seller, so a listing may outlive what it offers;   *)
(* a purchase whose transfer fails reverts and is no step.                 *)
(***************************************************************************)
EXTENDS MarketplaceCore, FiniteSets, Sequences

CONSTANTS
    Collections,       \* NFT contracts
    TokenIds,
    ERC1155,           \* the collections of that standard; the others: ERC-721
    Users,             \* the accounts that call the contract
    Keepers,           \* the addresses an admin ever makes keeper
    InitialWallet,     \* what every account holds at the start
    InitialBalance,    \* nft -> account -> units held at the start
    Prices,            \* the prices sellers ask and buyers send
    UnitCounts,        \* the units an ERC-1155 listing offers
    MaxBatch           \* batchList's limit, 50

ASSUME ListingAssumption ==
    /\ ERC1155 \subseteq Collections
    /\ Users \subseteq Address
    /\ Keepers \subseteq Address
    /\ InitialWallet \in [Address -> Nat]
    /\ InitialBalance \in [Collections \X TokenIds -> [Address -> Nat]]
    /\ Prices \subseteq Nat
    /\ UnitCounts \subseteq Nat
    /\ MaxBatch \in Nat \ {0}

VARIABLES
    listings,   \* nft -> seller -> Listing; the zero record when there is none
    earned,     \* account -> what the Bought and FeeSplit events say it gained
    balance,    \* nft -> account -> units held
    approved    \* <<nft, owner>>: the owner approves the marketplace

tokenVars == <<balance, approved>>
vars == <<coreVars, listings, earned, tokenVars>>

Nft == Collections \X TokenIds
Standard == {"ERC721", "ERC1155"}
KindOf(nft) == IF nft[1] \in ERC1155 THEN "ERC1155" ELSE "ERC721"

\* seller is the key the record is stored under: zero when price is.
Listing == [price : Nat, amount : Nat, expiresAt : Nat, standard : Standard]

NoListing == [price |-> 0, amount |-> 0, expiresAt |-> 0, standard |-> "ERC721"]

Exists(l) == l.price > 0
Expired(l) == Exists(l) /\ now > l.expiresAt
Live(l) == Exists(l) /\ now <= l.expiresAt

Init ==
    /\ funds = [wallet |-> InitialWallet,
                pendingReturns |-> [a \in Address |-> 0]]
    /\ keeper \in Keepers
    /\ now = 0
    /\ listings = [nft \in Nft |-> [s \in Address |-> NoListing]]
    /\ earned = [a \in Address |-> 0]
    /\ balance = InitialBalance
    /\ approved = {}

Holds(owner, nft, standard, amount) ==
    /\ standard = KindOf(nft)
    /\ balance[nft][owner] >= amount

Delete(nft, seller) ==
    listings' = [listings EXCEPT ![nft][seller] = NoListing]

----------------------------------------------------------------------------
(* _list's guards.  A live listing is relisted only at its own price.      *)

Listable(seller, nft, standard, amount, price) ==
    /\ price >= MinPrice
    /\ Live(listings[nft][seller]) => listings[nft][seller].price = price
    /\ Holds(seller, nft, standard, amount)
    /\ <<nft, seller>> \in approved

List1155(seller, nft, amount, price, duration) ==
    /\ amount > 0
    /\ Listable(seller, nft, "ERC1155", amount, price)
    /\ ExpiryFor(duration) < MaxTime
    /\ listings' = [listings EXCEPT ![nft][seller] =
          [price |-> price, amount |-> amount, standard |-> "ERC1155",
           expiresAt |-> ExpiryFor(duration)]]
    /\ UNCHANGED <<coreVars, earned, tokenVars>>

\* list is a batch of one.  An item that fails reverts the whole batch; the
\* second of two items for one token finds the first one live.
BatchList(seller, items) ==
    LET last(nft) == CHOOSE i \in DOMAIN items :
                        /\ items[i].nft = nft
                        /\ \A j \in DOMAIN items : items[j].nft = nft => j <= i
    IN  /\ Len(items) \in 1 .. MaxBatch
        /\ \A i \in DOMAIN items :
              /\ Listable(seller, items[i].nft, "ERC721", 1, items[i].price)
              /\ ExpiryFor(items[i].duration) < MaxTime
        /\ \A i, j \in DOMAIN items :
              items[i].nft = items[j].nft => items[i].price = items[j].price
        /\ listings' = [nft \in Nft |->
              IF \E i \in DOMAIN items : items[i].nft = nft
              THEN [listings[nft] EXCEPT ![seller] =
                      [price |-> items[last(nft)].price, amount |-> 1,
                       standard |-> "ERC721",
                       expiresAt |-> ExpiryFor(items[last(nft)].duration)]]
              ELSE listings[nft]]
        /\ UNCHANGED <<coreVars, earned, tokenVars>>

Cancel(seller, nft) ==
    /\ Exists(listings[nft][seller])
    /\ Delete(nft, seller)
    /\ UNCHANGED <<coreVars, earned, tokenVars>>

EditPrice(seller, nft, price) ==
    /\ Live(listings[nft][seller])
    /\ price >= MinPrice
    /\ listings' = [listings EXCEPT ![nft][seller].price = price]
    /\ UNCHANGED <<coreVars, earned, tokenVars>>

\* Mutation: the keeper is trusted to know what has expired.
CleanExpiredUnchecked(caller, nft, seller) ==
    /\ caller = keeper
    /\ Exists(listings[nft][seller])
    /\ Delete(nft, seller)
    /\ UNCHANGED <<coreVars, earned, tokenVars>>

CleanExpired(caller, nft, seller) ==
    /\ caller = keeper
    /\ Expired(listings[nft][seller])
    /\ Delete(nft, seller)
    /\ UNCHANGED <<coreVars, earned, tokenVars>>

----------------------------------------------------------------------------
\* What one sale gives and takes, by its two events.
NetOfSale(a, seller, buyer, price) ==
    LET fee == FeeOf(price)
    IN  (IF a = seller THEN price - fee ELSE 0)
        + (IF a = FeeRecipient THEN PlatformCut(fee) ELSE 0)
        + (IF a = keeper THEN KeeperCut(fee) ELSE 0)
        - (IF a = buyer THEN price ELSE 0)

PaysExactly(l, value) == Live(l) /\ value = l.price

Buy(buyer, nft, seller, value, okP, okK, okS) ==
    LET l == listings[nft][seller]
        fee == FeeOf(l.price)
    IN  /\ PaysExactly(l, value)
        /\ value <= funds.wallet[buyer]
        /\ Holds(seller, nft, l.standard, l.amount)
        /\ <<nft, seller>> \in approved
        /\ Delete(nft, seller)
        /\ balance' = [balance EXCEPT ![nft] = Moved(@, seller, buyer, l.amount)]
        /\ approved' \in {approved, approved \ {<<nft, seller>>}}
        /\ funds' = Pay(PayFee(Deposit(funds, buyer, l.price), fee, okP, okK),
                        seller, l.price - fee, okS)
        /\ earned' = [a \in Address |->
                        earned[a] + NetOfSale(a, seller, buyer, l.price)]
        /\ UNCHANGED <<keeper, now>>

BuyAt(buyer, nft, seller, value) ==
    \E okP \in PushOutcomes(FeeRecipient), okK \in PushOutcomes(keeper),
       okS \in PushOutcomes(seller) :
       Buy(buyer, nft, seller, value, okP, okK, okS)

----------------------------------------------------------------------------
TokenMove(nft, from, to) ==
    /\ balance[nft][from] > 0
    /\ balance' = [balance EXCEPT ![nft] = Moved(@, from, to, 1)]
    /\ UNCHANGED <<coreVars, listings, earned, approved>>

Approve(nft, owner) ==
    /\ approved' \in {approved \cup {<<nft, owner>>}, approved \ {<<nft, owner>>}}
    /\ UNCHANGED <<coreVars, listings, earned, balance>>

Items == [nft : Nft, price : Prices, duration : Durations]
Batches == UNION {[1 .. n -> Items] : n \in 1 .. MaxBatch}

SellerSteps ==
    \/ \E u \in Users, nft \in Nft, n \in UnitCounts, pr \in Prices, d \in Durations :
          List1155(u, nft, n, pr, d)
    \/ \E u \in Users, items \in Batches : BatchList(u, items)
    \/ \E u \in Users, nft \in Nft : Cancel(u, nft)
    \/ \E u \in Users, nft \in Nft, pr \in Prices : EditPrice(u, nft, pr)

KeeperSteps == \E c, u \in Address, nft \in Nft : CleanExpired(c, nft, u)

Environment ==
    \/ \E u \in Address :
          WithdrawRefund(u) /\ UNCHANGED <<listings, earned, tokenVars>>
    \/ \E k \in Keepers :
          SetKeeper(k) /\ UNCHANGED <<listings, earned, tokenVars>>
    \/ Tick /\ UNCHANGED <<listings, earned, tokenVars>>
    \/ \E nft \in Nft, u, v \in Users : TokenMove(nft, u, v)
    \/ \E nft \in Nft, u \in Users : Approve(nft, u)

Next ==
    \/ SellerSteps
    \/ KeeperSteps
    \/ \E b, u \in Users, nft \in Nft, v \in Prices : BuyAt(b, nft, u, v)
    \/ Environment

Spec == Init /\ [][Next]_vars

----------------------------------------------------------------------------
TypeOK ==
    /\ funds \in Funds
    /\ keeper \in Keepers
    /\ now \in 0 .. MaxTime
    /\ listings \in [Nft -> [Address -> Listing]]
    /\ earned \in [Address -> Int]
    /\ balance \in [Nft -> [Address -> Nat]]
    /\ approved \subseteq Nft \X Users

\* Every account holds or is owed exactly what it came with and what the sale
\* events say it gained or spent: the contract keeps nothing of its own and no
\* sale pays twice, whoever refuses a push and whichever roles coincide (buy,
\* _payFee, _pay, withdrawRefund).
EveryWeiAccounted ==
    \A a \in Address :
        funds.wallet[a] + funds.pendingReturns[a] = InitialWallet[a] + earned[a]
=============================================================================

------------------------- MODULE MarketplaceProofs -------------------------
(***************************************************************************)
(* Proofs about Marketplace for every set of accounts, tokens, prices and  *)
(* durations, any batch limit and any bound on the clock; and about        *)
(* ListingIndex, the site over it, for any number of events waiting and of *)
(* faults.  Only the second part uses IndexAssumption.                     *)
(***************************************************************************)
EXTENDS ListingIndex, MarketplaceCoreProofs, SequenceTheorems

USE CoreAssumption, ListingAssumption

----------------------------------------------------------------------------
(* Type correctness                                                        *)

\* Among the items of a batch for one token there is a last one: the listing
\* batchList leaves behind is always one the batch asked for.
LEMMA LastIndex ==
    ASSUME NEW n \in Nat, NEW T \in SUBSET (1 .. n), T # {}
    PROVE  \E i \in T : \A j \in T : j <= i
<1> DEFINE HasLast(U) == \E i \in U : \A j \in U : j <= i
           P == {m \in Nat : \A U \in SUBSET (1 .. m) : U # {} => HasLast(U)}
<1>1. 0 \in P
  <2>1. 1 .. 0 = {}
    OBVIOUS
  <2> QED
    BY <2>1
<1>2. ASSUME NEW m \in P PROVE m + 1 \in P
  <2>1. m \in Nat /\ \A U \in SUBSET (1 .. m) : U # {} => HasLast(U)
    OBVIOUS
  <2>2. ASSUME NEW U \in SUBSET (1 .. m + 1), U # {} PROVE HasLast(U)
    <3>1. CASE m + 1 \in U
      BY <2>1, <3>1
    <3>2. CASE m + 1 \notin U
      <4>1. U \in SUBSET (1 .. m)
        BY <2>1, <3>2
      <4> QED
        BY <2>1, <2>2, <4>1
    <3> QED
      BY <3>1, <3>2
  <2> QED
    BY <2>1, <2>2
<1>3. P = Nat
  <2> HIDE DEF P
  <2>1. P \in SUBSET Nat
    BY DEF P
  <2> QED
    BY <2>1, <1>1, <1>2, NatInductionSet
<1> QED
  BY <1>3

\* A batch writes well-formed listings.
LEMMA BatchListType ==
    ASSUME TypeOK, NEW u \in Users, NEW items \in Batches, BatchList(u, items)
    PROVE  TypeOK'
<1> DEFINE For(nft) == {i \in DOMAIN items : items[i].nft = nft}
           last(nft) == CHOOSE i \in DOMAIN items :
                          /\ items[i].nft = nft
                          /\ \A j \in DOMAIN items : items[j].nft = nft => j <= i
           new(nft) == [price |-> items[last(nft)].price, amount |-> 1,
                        standard |-> "ERC721",
                        expiresAt |-> ExpiryFor(items[last(nft)].duration)]
<1>1. PICK n \in 1 .. MaxBatch : items \in [1 .. n -> Items]
  BY DEF Batches
<1>2. ASSUME NEW nft \in Nft, \E i \in DOMAIN items : items[i].nft = nft
      PROVE  new(nft) \in Listing
  <2>0. DOMAIN items = 1 .. n /\ n \in Nat
    BY <1>1
  <2>1. For(nft) \in SUBSET (1 .. n) /\ For(nft) # {}
    BY <1>2, <2>0
  <2>2. \E i \in For(nft) : \A j \in For(nft) : j <= i
    BY <2>0, <2>1, LastIndex
  <2>3. last(nft) \in DOMAIN items
    BY <2>2
  <2> HIDE DEF last
  <2>4. /\ items[last(nft)].price \in Nat
        /\ items[last(nft)].duration \in Nat
    BY <1>1, <2>3 DEF Items
  <2>5. ExpiryFor(items[last(nft)].duration) \in Nat
    BY <2>4 DEF ExpiryFor, TypeOK
  <2> QED
    BY <2>4, <2>5 DEF Listing, Standard
<1>3. listings' = [nft \in Nft |->
         IF \E i \in DOMAIN items : items[i].nft = nft
         THEN [listings[nft] EXCEPT ![u] = new(nft)] ELSE listings[nft]]
  BY Zenon DEF BatchList
<1> HIDE DEF new
<1>4. listings' \in [Nft -> [Address -> Listing]]
  BY <1>2, <1>3 DEF TypeOK
<1> QED
  BY <1>4 DEF BatchList, TypeOK, coreVars, tokenVars

\* Every other step of a seller, and the keeper's.
LEMMA ListingStepType ==
    ASSUME TypeOK, SellerSteps \/ KeeperSteps
    PROVE  TypeOK'
<1>0. NoListing \in Listing
  BY DEF NoListing, Listing, Standard
<1>1. ASSUME NEW u \in Users, NEW nft \in Nft, NEW n \in UnitCounts,
             NEW pr \in Prices, NEW d \in Durations, List1155(u, nft, n, pr, d)
      PROVE  TypeOK'
  <2> DEFINE new == [price |-> pr, amount |-> n, standard |-> "ERC1155",
                     expiresAt |-> ExpiryFor(d)]
  <2>1. new \in Listing
    BY DEF TypeOK, Listing, Standard, ExpiryFor
  <2>2. listings' = [listings EXCEPT ![nft][u] = new]
    BY <1>1 DEF List1155
  <2> HIDE DEF new
  <2>3. listings' \in [Nft -> [Address -> Listing]]
    BY <2>1, <2>2 DEF TypeOK
  <2> QED
    BY <1>1, <2>3 DEF List1155, TypeOK, coreVars, tokenVars
<1>2. ASSUME NEW u \in Address, NEW nft \in Nft, Delete(nft, u)
      PROVE  listings' \in [Nft -> [Address -> Listing]]
  BY <1>0, <1>2 DEF Delete, TypeOK
<1>3. ASSUME NEW u \in Users, NEW nft \in Nft, Cancel(u, nft)
      PROVE  TypeOK'
  <2>1. listings' \in [Nft -> [Address -> Listing]]
    BY <1>2, <1>3 DEF Cancel
  <2> QED
    BY <1>3, <2>1 DEF Cancel, TypeOK, coreVars, tokenVars
<1>4. ASSUME NEW u \in Users, NEW nft \in Nft, NEW pr \in Prices,
             EditPrice(u, nft, pr)
      PROVE  TypeOK'
  <2> DEFINE new == [listings[nft][u] EXCEPT !.price = pr]
  <2>0. listings[nft][u] \in Listing
    BY DEF TypeOK
  <2>1. new \in Listing
    BY <2>0 DEF Listing
  <2>2. listings' = [listings EXCEPT ![nft][u] = new]
    BY <1>4 DEF EditPrice
  <2> HIDE DEF new
  <2>3. listings' \in [Nft -> [Address -> Listing]]
    BY <2>1, <2>2 DEF TypeOK
  <2> QED
    BY <1>4, <2>3 DEF EditPrice, TypeOK, coreVars, tokenVars
<1>5. ASSUME NEW c \in Address, NEW u \in Address, NEW nft \in Nft,
             CleanExpired(c, nft, u)
      PROVE  TypeOK'
  <2>1. listings' \in [Nft -> [Address -> Listing]]
    BY <1>2, <1>5 DEF CleanExpired
  <2> QED
    BY <1>5, <2>1 DEF CleanExpired, TypeOK, coreVars, tokenVars
<1> QED
  BY <1>1, <1>3, <1>4, <1>5, BatchListType DEF SellerSteps, KeeperSteps

\* What a sale of one listing does, whoever refuses a push: the type of every
\* account is kept, and each is worth what its events say it gained or spent.
LEMMA SaleWorth ==
    ASSUME TypeOK, NEW b \in Address, NEW s \in Address, NEW price \in Nat,
           price <= funds.wallet[b], NEW okP, NEW okK, NEW okS
    PROVE  LET fee == FeeOf(price)
               after == Pay(PayFee(Deposit(funds, b, price), fee, okP, okK),
                            s, price - fee, okS)
           IN  /\ after \in Funds
               /\ \A a \in Address :
                     /\ NetOfSale(a, s, b, price) \in Int
                     /\ Worth(after, a) = Worth(funds, a) + NetOfSale(a, s, b, price)
<1> DEFINE fee == FeeOf(price)
           paid == Deposit(funds, b, price)
           after == Pay(PayFee(paid, fee, okP, okK), s, price - fee, okS)
<1>1. funds \in Funds /\ keeper \in Address
  BY DEF TypeOK
<1>2. paid \in Funds
  BY <1>1, DepositType
<1>3. \A a \in Address :
         Worth(paid, a) = Worth(funds, a) - (IF a = b THEN price ELSE 0)
  BY <1>1, DepositWorth
<1> HIDE DEF paid
<1>4. /\ fee \in Nat /\ price - fee \in Nat
      /\ KeeperCut(fee) \in Nat /\ PlatformCut(fee) \in Nat
  BY FeeCutTypes
<1>5. /\ after \in Funds
      /\ \A a \in Address :
            Worth(after, a)
               = Worth(paid, a)
                 + (IF a = s THEN price - fee ELSE 0)
                 + (IF a = FeeRecipient THEN PlatformCut(fee) ELSE 0)
                 + (IF a = keeper THEN KeeperCut(fee) ELSE 0)
  BY <1>2, <1>1, ProceedsWorth
<1> HIDE DEF after
<1>6. ASSUME NEW a \in Address
      PROVE  /\ NetOfSale(a, s, b, price) \in Int
             /\ Worth(after, a) = Worth(funds, a) + NetOfSale(a, s, b, price)
  <2>1. Worth(funds, a) \in Nat
    BY <1>1, WorthType
  <2>2. NetOfSale(a, s, b, price)
           = (IF a = s THEN price - fee ELSE 0)
             + (IF a = FeeRecipient THEN PlatformCut(fee) ELSE 0)
             + (IF a = keeper THEN KeeperCut(fee) ELSE 0)
             - (IF a = b THEN price ELSE 0)
    BY DEF NetOfSale
  <2> HIDE DEF fee
  <2> QED
    BY <1>3, <1>4, <1>5, <2>1, <2>2
<1> QED
  BY <1>6, <1>5 DEF after, paid

\* A purchase: types, and the books balance for every account (buy).
LEMMA BuyStep ==
    ASSUME TypeOK, NEW b \in Users, NEW s \in Users, NEW nft \in Nft,
           NEW v, BuyAt(b, nft, s, v)
    PROVE  /\ TypeOK'
           /\ \A a \in Address :
                 Worth(funds', a) - earned'[a] = Worth(funds, a) - earned[a]
<1> DEFINE l == listings[nft][s]
<1>1. PICK okP \in PushOutcomes(FeeRecipient), okK \in PushOutcomes(keeper),
           okS \in PushOutcomes(s) : Buy(b, nft, s, v, okP, okK, okS)
  BY DEF BuyAt
<1>2. /\ l \in Listing
      /\ l.price \in Nat
      /\ l.price <= funds.wallet[b]
      /\ balance[nft][s] >= l.amount
      /\ funds' = Pay(PayFee(Deposit(funds, b, l.price), FeeOf(l.price), okP, okK),
                      s, l.price - FeeOf(l.price), okS)
      /\ earned' = [a \in Address |-> earned[a] + NetOfSale(a, s, b, l.price)]
  BY <1>1 DEF Buy, PaysExactly, Holds, TypeOK, Listing
<1>3. /\ funds' \in Funds
      /\ \A a \in Address :
            /\ NetOfSale(a, s, b, l.price) \in Int
            /\ Worth(funds', a) = Worth(funds, a) + NetOfSale(a, s, b, l.price)
  BY <1>2, SaleWorth
<1>4. listings' \in [Nft -> [Address -> Listing]]
  BY <1>1 DEF Buy, Delete, NoListing, Listing, Standard, TypeOK
<1>5. earned' \in [Address -> Int]
  BY <1>2, <1>3 DEF TypeOK
<1>6. balance' \in [Nft -> [Address -> Nat]]
  <2>1. l.amount \in Nat /\ balance[nft] \in [Address -> Nat]
    BY <1>2 DEF TypeOK, Listing
  <2>2. Moved(balance[nft], s, b, l.amount) \in [Address -> Nat]
    BY <1>2, <2>1, MovedType
  <2>3. balance' = [balance EXCEPT ![nft] = Moved(balance[nft], s, b, l.amount)]
    BY <1>1 DEF Buy
  <2> QED
    BY <2>2, <2>3 DEF TypeOK
<1>7. /\ keeper' = keeper
      /\ now' = now
      /\ approved' \subseteq Nft \X Users
  BY <1>1 DEF Buy, TypeOK
<1>8. TypeOK'
  BY <1>3, <1>4, <1>5, <1>6, <1>7 DEF TypeOK
<1>9. ASSUME NEW a \in Address
      PROVE  Worth(funds', a) - earned'[a] = Worth(funds, a) - earned[a]
  <2>1. /\ earned'[a] = earned[a] + NetOfSale(a, s, b, l.price)
        /\ earned[a] \in Int
        /\ Worth(funds, a) \in Nat
    BY <1>2, WorthType DEF TypeOK
  <2> QED
    BY <1>3, <2>1
<1> QED
  BY <1>8, <1>9

\* Withdrawals, keeper rotation, time, token transfers and approvals.
LEMMA EnvironmentStep ==
    ASSUME TypeOK, Environment
    PROVE  /\ TypeOK'
           /\ earned' = earned
           /\ \A a \in Address : Worth(funds', a) = Worth(funds, a)
<1>1. ASSUME NEW u \in Address, WithdrawRefund(u),
             UNCHANGED <<listings, earned, tokenVars>>
      PROVE  /\ TypeOK'
             /\ earned' = earned
             /\ \A a \in Address : Worth(funds', a) = Worth(funds, a)
  <2>1. /\ funds' \in Funds
        /\ \A a \in Address : Worth(funds', a) = Worth(funds, a)
    BY <1>1, WithdrawRefundWorth DEF TypeOK
  <2> QED
    BY <1>1, <2>1 DEF TypeOK, WithdrawRefund, tokenVars
<1>2. ASSUME NEW k \in Keepers, SetKeeper(k),
             UNCHANGED <<listings, earned, tokenVars>>
      PROVE  TypeOK' /\ UNCHANGED <<funds, earned>>
  BY <1>2 DEF TypeOK, SetKeeper, tokenVars
<1>3. ASSUME Tick, UNCHANGED <<listings, earned, tokenVars>>
      PROVE  TypeOK' /\ UNCHANGED <<funds, earned>>
  BY <1>3 DEF TypeOK, Tick, tokenVars
<1>4. ASSUME NEW nft \in Nft, NEW u \in Users, NEW v \in Users, TokenMove(nft, u, v)
      PROVE  TypeOK' /\ UNCHANGED <<funds, earned>>
  <2>1. Moved(balance[nft], u, v, 1) \in [Address -> Nat]
    <3>1. balance[nft] \in [Address -> Nat] /\ 1 <= balance[nft][u]
      BY <1>4 DEF TypeOK, TokenMove
    <3> QED
      BY <3>1, MovedType
  <2>2. balance' \in [Nft -> [Address -> Nat]]
    BY <1>4, <2>1 DEF TypeOK, TokenMove
  <2> QED
    BY <1>4, <2>2 DEF TypeOK, TokenMove, coreVars
<1>5. ASSUME NEW nft \in Nft, NEW u \in Users, Approve(nft, u)
      PROVE  TypeOK' /\ UNCHANGED <<funds, earned>>
  BY <1>5 DEF TypeOK, Approve, coreVars
<1> QED
  BY <1>1, <1>2, <1>3, <1>4, <1>5 DEF Environment

\* Listing, editing and cleaning move no money.
LEMMA ListingStepFunds ==
    ASSUME SellerSteps \/ KeeperSteps
    PROVE  UNCHANGED <<funds, earned>>
  BY DEF SellerSteps, KeeperSteps, List1155, BatchList, Cancel, EditPrice,
     CleanExpired, coreVars

----------------------------------------------------------------------------
(* The two invariants                                                      *)

IInv == TypeOK /\ EveryWeiAccounted

\* The books balance when the market opens.
LEMMA InitIInv == Init => IInv
<1> SUFFICES ASSUME Init PROVE IInv
  OBVIOUS
<1>1. TypeOK
  BY DEF Init, TypeOK, Funds, Nft, NoListing, Listing, Standard
<1>2. EveryWeiAccounted
  BY DEF Init, EveryWeiAccounted
<1> QED
  BY <1>1, <1>2 DEF IInv

\* Every transaction keeps the types, and changes what an account is worth by what
\* its events say.
LEMMA NextWorth ==
    ASSUME TypeOK, [Next]_vars
    PROVE  /\ TypeOK'
           /\ \A a \in Address :
                 Worth(funds', a) - earned'[a] = Worth(funds, a) - earned[a]
<1>1. CASE SellerSteps \/ KeeperSteps
  BY <1>1, ListingStepType, ListingStepFunds
<1>2. ASSUME NEW b \in Users, NEW u \in Users, NEW nft \in Nft, NEW v \in Prices,
             BuyAt(b, nft, u, v)
      PROVE  /\ TypeOK'
             /\ \A a \in Address :
                   Worth(funds', a) - earned'[a] = Worth(funds, a) - earned[a]
  BY <1>2, BuyStep
<1>3. CASE Environment
  BY <1>3, EnvironmentStep
<1>4. CASE UNCHANGED vars
  BY <1>4 DEF TypeOK, vars, coreVars, tokenVars
<1> QED
  BY <1>1, <1>2, <1>3, <1>4 DEF Next

\* So it keeps the balance of the books.
LEMMA NextIInv == IInv /\ [Next]_vars => IInv'
<1> SUFFICES ASSUME IInv, [Next]_vars PROVE IInv'
  OBVIOUS
<1>1. TypeOK
  BY DEF IInv
<1>2. /\ TypeOK'
      /\ \A a \in Address :
            Worth(funds', a) - earned'[a] = Worth(funds, a) - earned[a]
  BY <1>1, NextWorth
<1>3. ASSUME NEW a \in Address
      PROVE  funds'.wallet[a] + funds'.pendingReturns[a]
                = InitialWallet[a] + earned'[a]
  <2>1. /\ Worth(funds, a) \in Nat /\ Worth(funds', a) \in Nat
        /\ earned[a] \in Int /\ earned'[a] \in Int
        /\ InitialWallet[a] \in Nat
    BY <1>1, <1>2, WorthType DEF TypeOK
  <2>2. Worth(funds, a) = InitialWallet[a] + earned[a]
    BY DEF IInv, EveryWeiAccounted, Worth
  <2>3. Worth(funds', a) = InitialWallet[a] + earned'[a]
    BY <1>2, <2>1, <2>2
  <2> QED
    BY <2>3 DEF Worth
<1> QED
  BY <1>2, <1>3 DEF IInv, EveryWeiAccounted

\* Every reachable state is well typed: no price, unit count, balance or credit
\* ever goes below zero, whatever is listed, bought or moved.
THEOREM TypeCorrect == Spec => []TypeOK
<1>1. IInv => TypeOK
  BY DEF IInv
<1> QED
  BY <1>1, InitIInv, NextIInv, PTL DEF Spec

\* Every wei of every account is accounted for in every reachable state, for
\* all prices, refusals and coincidences of roles (buy, _payFee, _pay,
\* withdrawRefund).
THEOREM BooksBalance == Spec => []EveryWeiAccounted
<1>1. IInv => EveryWeiAccounted
  BY DEF IInv
<1> QED
  BY <1>1, InitIInv, NextIInv, PTL DEF Spec

----------------------------------------------------------------------------
(* The site over the contract: every step of it is one of the contract's   *)

\* A listing asks a price some seller may ask, and lasts for one of the durations.
PricesAsked ==
    \A nft \in Nft, u \in Address :
        Exists(listings[nft][u]) => listings[nft][u].price \in Prices

\* The item of a batch whose listing stays for its token.
LastOf(items, nft) == CHOOSE i \in DOMAIN items :
                         /\ items[i].nft = nft
                         /\ \A j \in DOMAIN items : items[j].nft = nft => j <= i

\* A batch changes the listings of its seller for its tokens, and no other.
LEMMA BatchSpares ==
    ASSUME TypeOK, NEW u \in Users, NEW items \in Batches, BatchList(u, items),
           NEW nft \in Nft, NEW v \in Address,
           v # u \/ \A j \in DOMAIN items : items[j].nft # nft
    PROVE  listings'[nft][v] = listings[nft][v]
<1> DEFINE last == LastOf(items, nft)
           new == [price |-> items[last].price, amount |-> 1, standard |-> "ERC721",
                   expiresAt |-> ExpiryFor(items[last].duration)]
<1>1. listings'[nft] = IF \E j \in DOMAIN items : items[j].nft = nft
                       THEN [listings[nft] EXCEPT ![u] = new] ELSE listings[nft]
  BY Zenon DEF BatchList, LastOf
<1>2. listings[nft] \in [Address -> Listing]
  BY DEF TypeOK
<1> HIDE DEF new
<1> QED
  BY <1>1, <1>2

\* What it leaves for a token is what its last item for it says.
LEMMA BatchLeaves ==
    ASSUME TypeOK, NEW u \in Users, NEW items \in Batches, BatchList(u, items),
           NEW nft \in Nft, \E j \in DOMAIN items : items[j].nft = nft,
           NEW i, i = LastOf(items, nft)
    PROVE  /\ i \in DOMAIN items /\ items[i].nft = nft
           /\ \A j \in DOMAIN items : items[j].nft = nft => j <= i
           /\ listings'[nft][u].price = items[i].price
           /\ listings'[nft][u].price >= MinPrice
           /\ listings'[nft][u].expiresAt = ExpiryFor(items[i].duration)
<1> DEFINE new == [price |-> items[i].price, amount |-> 1, standard |-> "ERC721",
                   expiresAt |-> ExpiryFor(items[i].duration)]
<1>1. PICK n \in 1 .. MaxBatch : items \in [1 .. n -> Items]
  BY DEF Batches
<1>2. listings'[nft] = [listings[nft] EXCEPT ![u] = new]
  <2>1. listings'[nft] = IF \E j \in DOMAIN items : items[j].nft = nft
                         THEN [listings[nft] EXCEPT ![u] = new] ELSE listings[nft]
    BY Zenon DEF BatchList, LastOf
  <2> QED
    BY <2>1
<1>3. u \in Address /\ listings[nft] \in [Address -> Listing]
  BY DEF TypeOK
<1>4. /\ i \in DOMAIN items /\ items[i].nft = nft
      /\ \A j \in DOMAIN items : items[j].nft = nft => j <= i
  <2>1. DOMAIN items = 1 .. n /\ n \in Nat
    BY <1>1
  <2>2. {j \in DOMAIN items : items[j].nft = nft} \in SUBSET (1 .. n)
    BY <2>1
  <2>3. \E k \in {j \in DOMAIN items : items[j].nft = nft} :
           \A j \in {j \in DOMAIN items : items[j].nft = nft} : j <= k
    BY <2>1, <2>2, LastIndex
  <2> QED
    BY <2>3 DEF LastOf
<1>5. \A j \in DOMAIN items : items[j].price >= MinPrice
  BY DEF BatchList, Listable
<1>6. listings'[nft][u] = new
  BY <1>2, <1>3
<1> QED
  BY <1>4, <1>5, <1>6

LEMMA PricesAskedStep ==
    ASSUME TypeOK, PricesAsked, [Next]_vars
    PROVE  PricesAsked'
<1> SUFFICES ASSUME NEW nft \in Nft, NEW u \in Address, Exists(listings'[nft][u])
             PROVE  listings'[nft][u].price \in Prices
  BY DEF PricesAsked, Exists
<1>0. listings[nft] \in [Address -> Listing] /\ listings \in [Nft -> [Address -> Listing]]
  BY DEF TypeOK
<1>1. CASE listings'[nft][u] = listings[nft][u]
  BY <1>1 DEF PricesAsked, Exists
<1>2. ASSUME NEW o \in Address, NEW t \in Nft, Delete(t, o)
      PROVE  listings'[nft][u].price \in Prices
  <2>1. listings'[nft][u] \in {listings[nft][u], NoListing}
    BY <1>0, <1>2 DEF Delete
  <2> QED
    BY <1>1, <2>1 DEF NoListing, Exists
<1>3. ASSUME NEW o \in Users, NEW t \in Nft, NEW n \in UnitCounts,
             NEW pr \in Prices, NEW d \in Durations, List1155(o, t, n, pr, d)
      PROVE  listings'[nft][u].price \in Prices
  <2>1. listings'[nft][u] = listings[nft][u] \/ listings'[nft][u].price = pr
    BY <1>0, <1>3 DEF List1155
  <2> QED
    BY <1>1, <2>1
<1>4. ASSUME NEW o \in Users, NEW items \in Batches, BatchList(o, items)
      PROVE  listings'[nft][u].price \in Prices
  <2>1. listings'[nft][u] = listings[nft][u]
           \/ \E i \in DOMAIN items : listings'[nft][u].price = items[i].price
    <3>1. CASE u # o \/ \A j \in DOMAIN items : items[j].nft # nft
      BY <1>4, <3>1, BatchSpares
    <3>2. CASE u = o /\ \E j \in DOMAIN items : items[j].nft = nft
      <4>1. PICK i : i = LastOf(items, nft)
        OBVIOUS
      <4> QED
        BY <1>4, <3>2, <4>1, BatchLeaves
    <3> QED
      BY <3>1, <3>2
  <2>2. \A i \in DOMAIN items : items[i].price \in Prices
    BY DEF Batches, Items
  <2> QED
    BY <1>1, <2>1, <2>2
<1>5. ASSUME NEW o \in Users, NEW t \in Nft, NEW pr \in Prices, EditPrice(o, t, pr)
      PROVE  listings'[nft][u].price \in Prices
  <2>1. listings'[nft][u] = listings[nft][u] \/ listings'[nft][u].price = pr
    <3>1. listings' = [listings EXCEPT ![t] =
                          [listings[t] EXCEPT ![o] = [listings[t][o] EXCEPT !.price = pr]]]
      BY <1>5 DEF EditPrice
    <3>2. listings[t] \in [Address -> Listing] /\ listings[t][o] \in Listing
      BY <1>0
    <3> QED
      BY <1>0, <3>1, <3>2 DEF Listing
  <2> QED
    BY <1>1, <2>1
<1>6. CASE SellerSteps
  <2>1. ASSUME NEW o \in Users, NEW t \in Nft, Cancel(o, t)
        PROVE  listings'[nft][u].price \in Prices
    BY <1>2, <2>1 DEF Cancel
  <2> QED
    BY <1>3, <1>4, <1>5, <1>6, <2>1 DEF SellerSteps
<1>7. CASE KeeperSteps
  BY <1>2, <1>7 DEF KeeperSteps, CleanExpired
<1>8. ASSUME NEW b \in Users, NEW o \in Users, NEW t \in Nft, NEW v \in Prices,
             BuyAt(b, t, o, v)
      PROVE  listings'[nft][u].price \in Prices
  BY <1>2, <1>8 DEF BuyAt, Buy
<1>9. CASE Environment
  <2>1. listings' = listings
    BY <1>9 DEF Environment, TokenMove, Approve
  <2> QED
    BY <1>1, <2>1
<1>10. CASE UNCHANGED vars
  BY <1>1, <1>10 DEF vars
<1> QED
  BY <1>6, <1>7, <1>8, <1>9, <1>10 DEF Next

\* What the traders, the keeper's worker and time do at the site is what the
\* contract allows; the indexer and the other workers leave the contract alone.
LEMMA SiteStepIsStep ==
    ASSUME TypeOK, PricesAsked, [SiteNext]_siteVars
    PROVE  [Next]_vars
<1>1. CASE ChainStep
  <2>1. ASSUME NEW u \in Users, NEW items \in Batches, ListTokens(u, items)
        PROVE  Next
    BY <2>1 DEF ListTokens, Next, SellerSteps
  <2>2. ASSUME NEW u \in Users, NEW nft \in Nft, NEW pr \in Prices, Reprice(u, nft, pr)
        PROVE  Next
    BY <2>2 DEF Reprice, Next, SellerSteps
  <2>3. ASSUME NEW u \in Users, NEW nft \in Nft, Withdraw(u, nft)
        PROVE  Next
    BY <2>3 DEF Withdraw, Next, SellerSteps
  <2>4. ASSUME NEW b \in Users, NEW u \in Users, NEW nft \in Nft, Sell(b, nft, u)
        PROVE  Next
    <3>1. BuyAt(b, nft, u, listings[nft][u].price)
      BY <2>4 DEF Sell
    <3>2. Exists(listings[nft][u])
      BY <3>1 DEF BuyAt, Buy, PaysExactly, Live
    <3>3. listings[nft][u].price \in Prices
      BY <3>2 DEF PricesAsked
    <3> QED
      BY <3>1, <3>3 DEF Next
  <2>5. ASSUME NEW nft \in Nft, NEW u \in Users, NEW v \in Users, Give(nft, u, v)
        PROVE  Next
    BY <2>5 DEF Give, Next, Environment
  <2>6. CASE SilentStep
    BY <2>6, IndexAssumption DEF SilentStep, Next, Environment
  <2> QED
    BY <1>1, <2>1, <2>2, <2>3, <2>4, <2>5, <2>6 DEF ChainStep
<1>2. CASE Indexer
  BY <1>2 DEF Indexer, StartRange, Dispatch, DispatchFails, Commit, AbortRange, chainVars
<1>3. CASE ExpirySweeper
  BY <1>3 DEF ExpirySweeper, SelectExpired, DeactivateExpired, chainVars
<1>4. CASE KeeperSweep
  <2>1. ASSUME NEW key \in Keys, SendClean(key)
        PROVE  Next
    <3>1. CleanExpired(keeper, key[1], key[2]) /\ keeper \in Address
          /\ key[1] \in Nft /\ key[2] \in Address
      BY <2>1 DEF SendClean, Keys, TypeOK
    <3> QED
      BY <3>1 DEF Next, KeeperSteps
  <2> QED
    BY <1>4, <2>1 DEF KeeperSweep, SelectUncleaned, CleanFails, MarkCleaned, chainVars
<1>5. CASE OwnershipCheck
  BY <1>5 DEF OwnershipCheck, AskOwner, RepairRow, chainVars
<1>6. CASE Crash
  BY <1>6 DEF Crash, chainVars
<1>7. CASE UNCHANGED siteVars
  BY <1>7 DEF siteVars, chainVars
<1> QED
  BY <1>1, <1>2, <1>3, <1>4, <1>5, <1>6, <1>7 DEF SiteNext

\* The site never makes the contract do what it could not do alone, so what is
\* proved of the marketplace holds of it behind the site.
THEOREM SiteImplementsMarketplace == SiteSpec => Spec
<1>1. SiteInit => Init /\ TypeOK /\ PricesAsked
  <2> SUFFICES ASSUME SiteInit
               PROVE  Init /\ TypeOK /\ PricesAsked
    OBVIOUS
  <2>1. Init /\ TypeOK
    BY InitIInv DEF SiteInit, IInv
  <2>2. PricesAsked
    BY <2>1 DEF Init, PricesAsked, NoListing, Exists
  <2> QED
    BY <2>1, <2>2
<1>2. TypeOK /\ PricesAsked /\ [SiteNext]_siteVars => [Next]_vars
  BY SiteStepIsStep
<1>3. TypeOK /\ PricesAsked /\ [Next]_vars => TypeOK' /\ PricesAsked'
  BY NextWorth, PricesAskedStep
<1> QED
  BY <1>1, <1>2, <1>3, PTL DEF SiteSpec, Spec

----------------------------------------------------------------------------
(* The index: every active row is a listing, once nothing is waiting       *)

\* The events that tell what became of a listing, and the last of them for one.
About(e, key) == e.type # "Transfer" /\ e.nft = key[1] /\ e.seller = key[2]

LastAbout(log, i, key) ==
    /\ i \in DOMAIN log /\ About(log[i], key)
    /\ \A j \in DOMAIN log : About(log[j], key) => j <= i

Silent(log, key) == \A i \in DOMAIN log : ~About(log[i], key)

Pending == range \o chainLog

\* The contract's record of a key is what an event says, or what its row says.
Tells(e, key) ==
    LET l == listings[key[1]][key[2]]
    IN  IF e.type = "Listed" THEN Exists(l) /\ l.price = e.price /\ l.expiresAt = e.expiresAt
                             ELSE ~Exists(l)
RowIsListing(key) ==
    LET r == rows[key]
        l == listings[key[1]][key[2]]
    IN  r.active => Exists(l) /\ l.price = r.price /\ l.expiresAt = r.expiresAt
RowFollows(e, key) ==
    LET r == rows[key]
    IN  r.active => e.type = "Listed" /\ r.price = e.price /\ r.expiresAt = e.expiresAt

\* The last event that waits for a key is the truth of it; with none, its row is.
LogIsTrue ==
    \A key \in Keys :
        /\ \A i \in DOMAIN Pending : LastAbout(Pending, i, key) => Tells(Pending[i], key)
        /\ Silent(Pending, key) => RowIsListing(key)

\* The calls made are the first of the range's calls.
InOrder ==
    /\ todo \subseteq Calls(range)
    /\ \A i \in Calls(range) \ todo : \A j \in todo : i < j

\* Where no call failed, a row whose last event of the range is handled follows it.
RangeIsHandled ==
    range # <<>> /\ ~failed =>
        \A key \in Keys, i \in DOMAIN range :
            LastAbout(range, i, key) /\ i \notin todo => RowFollows(range[i], key)

\* Nothing is listed for free, so an active row is never taken for a missing one.
PricedEvent == {e \in Event : e.type = "Listed" => e.price > 0}

RowsTyped ==
    /\ rows \in [Keys -> Row]
    /\ \A key \in Keys : /\ rows[key].orphaned => ~rows[key].active
                         /\ rows[key].active => Present(rows[key])

SiteTyped ==
    /\ SiteTypeOK
    /\ chainLog \in Seq(PricedEvent) /\ range \in Seq(PricedEvent)
    /\ \A key \in Keys : rows[key].active => Present(rows[key])

IndexIInv == /\ TypeOK /\ PricesAsked /\ SiteTyped
             /\ LogIsTrue /\ InOrder /\ RangeIsHandled

\* Two logs, one after the other.
LEMMA LogConcat ==
    ASSUME NEW a \in Seq(PricedEvent), NEW b \in Seq(PricedEvent), NEW key
    PROVE  /\ a \o b \in Seq(PricedEvent)
           /\ DOMAIN (a \o b) = 1 .. Len(a) + Len(b)
           /\ \A i \in DOMAIN a : (a \o b)[i] = a[i]
           /\ \A i \in DOMAIN b : (a \o b)[Len(a) + i] = b[i]
           /\ Silent(a \o b, key) <=> Silent(a, key) /\ Silent(b, key)
           /\ \A i \in DOMAIN (a \o b) :
                 LastAbout(a \o b, i, key) <=>
                     \/ i \in DOMAIN a /\ LastAbout(a, i, key) /\ Silent(b, key)
                     \/ i - Len(a) \in DOMAIN b /\ LastAbout(b, i - Len(a), key)
<1>1. /\ a \o b \in Seq(PricedEvent) /\ Len(a \o b) = Len(a) + Len(b)
      /\ \A i \in 1 .. Len(a) + Len(b) :
            (a \o b)[i] = IF i <= Len(a) THEN a[i] ELSE b[i - Len(a)]
  BY ConcatProperties
<1>2. /\ Len(a) \in Nat /\ DOMAIN a = 1 .. Len(a)
      /\ Len(b) \in Nat /\ DOMAIN b = 1 .. Len(b)
      /\ DOMAIN (a \o b) = 1 .. Len(a) + Len(b)
  BY <1>1, LenProperties
<1> DEFINE c == a \o b
<1> HIDE DEF c
<1>3. /\ DOMAIN c = 1 .. Len(a) + Len(b)
      /\ \A i \in DOMAIN a : i \in DOMAIN c /\ c[i] = a[i]
      /\ \A i \in DOMAIN b : Len(a) + i \in DOMAIN c /\ c[Len(a) + i] = b[i]
      /\ \A i \in DOMAIN c : i \in DOMAIN a \/ (i - Len(a) \in DOMAIN b /\ i > Len(a))
      /\ \A i \in DOMAIN c : i \notin DOMAIN a => c[i] = b[i - Len(a)]
  BY <1>1, <1>2 DEF c
<1>4. Silent(c, key) <=> Silent(a, key) /\ Silent(b, key)
  <2>1. ASSUME Silent(c, key)
        PROVE  Silent(a, key) /\ Silent(b, key)
    BY <1>3, <2>1 DEF Silent
  <2>2. ASSUME Silent(a, key), Silent(b, key)
        PROVE  Silent(c, key)
    <3> SUFFICES ASSUME NEW i \in DOMAIN c
                 PROVE  ~About(c[i], key)
      BY DEF Silent
    <3>1. CASE i \in DOMAIN a
      BY <1>3, <2>2, <3>1 DEF Silent
    <3>2. CASE i \notin DOMAIN a
      BY <1>3, <2>2, <3>2 DEF Silent
    <3> QED
      BY <3>1, <3>2
  <2> QED
    BY <2>1, <2>2
<1>5. ASSUME NEW i \in DOMAIN c, LastAbout(c, i, key), i \in DOMAIN a
      PROVE  LastAbout(a, i, key) /\ Silent(b, key)
  <2>1. \A j \in DOMAIN a : About(a[j], key) => j <= i
    BY <1>3, <1>5 DEF LastAbout
  <2>2. ASSUME NEW j \in DOMAIN b, About(b[j], key)
        PROVE  FALSE
    <3>1. Len(a) + j <= i
      BY <1>3, <1>5, <2>2 DEF LastAbout
    <3> QED
      BY <1>2, <1>5, <3>1
  <2> QED
    BY <1>3, <1>5, <2>1, <2>2 DEF LastAbout, Silent
<1>6. ASSUME NEW i \in DOMAIN c, LastAbout(c, i, key), i \notin DOMAIN a
      PROVE  i - Len(a) \in DOMAIN b /\ LastAbout(b, i - Len(a), key)
  <2>1. i - Len(a) \in DOMAIN b /\ About(b[i - Len(a)], key)
    BY <1>3, <1>6 DEF LastAbout
  <2>2. ASSUME NEW j \in DOMAIN b, About(b[j], key)
        PROVE  j <= i - Len(a)
    <3>1. Len(a) + j <= i
      BY <1>3, <1>6, <2>2 DEF LastAbout
    <3> QED
      BY <1>2, <1>3, <3>1
  <2> QED
    BY <2>1, <2>2 DEF LastAbout
<1>7. ASSUME NEW i \in DOMAIN a, LastAbout(a, i, key), Silent(b, key)
      PROVE  LastAbout(c, i, key)
  <2>1. ASSUME NEW j \in DOMAIN c, About(c[j], key)
        PROVE  j <= i
    <3>1. j \in DOMAIN a
      BY <1>3, <1>7, <2>1 DEF Silent
    <3> QED
      BY <1>3, <1>7, <2>1, <3>1 DEF LastAbout
  <2> QED
    BY <1>3, <1>7, <2>1 DEF LastAbout
<1>8. ASSUME NEW i \in DOMAIN c, i - Len(a) \in DOMAIN b, LastAbout(b, i - Len(a), key)
      PROVE  LastAbout(c, i, key)
  <2>0. i \notin DOMAIN a
    BY <1>2, <1>3, <1>8
  <2>1. ASSUME NEW j \in DOMAIN c, About(c[j], key)
        PROVE  j <= i
    <3>1. CASE j \in DOMAIN a
      BY <1>2, <1>8, <3>1, <1>3
    <3>2. CASE j \notin DOMAIN a
      <4>1. j - Len(a) \in DOMAIN b /\ About(b[j - Len(a)], key)
        BY <1>3, <2>1, <3>2
      <4>2. j - Len(a) <= i - Len(a)
        BY <1>8, <4>1 DEF LastAbout
      <4> QED
        BY <1>2, <1>3, <4>2
    <3> QED
      BY <3>1, <3>2
  <2> QED
    BY <1>3, <1>8, <2>0, <2>1 DEF LastAbout
<1> QED
  BY <1>1, <1>2, <1>3, <1>4, <1>5, <1>6, <1>7, <1>8 DEF c

\* A log that is not silent about a listing has a last word on it.
LEMMA LastWord ==
    ASSUME NEW log \in Seq(PricedEvent), NEW key, ~Silent(log, key)
    PROVE  \E i \in DOMAIN log : LastAbout(log, i, key)
<1> DEFINE T == {i \in DOMAIN log : About(log[i], key)}
<1>1. DOMAIN log = 1 .. Len(log) /\ Len(log) \in Nat
  BY LenProperties
<1>2. T \in SUBSET (1 .. Len(log)) /\ T # {}
  BY <1>1 DEF Silent
<1>3. PICK i \in T : \A j \in T : j <= i
  BY <1>1, <1>2, LastIndex
<1> QED
  BY <1>3 DEF LastAbout

\* A step of the chain that tells what it did to every listing it touched.
LEMMA Emitted ==
    ASSUME SiteTyped, LogIsTrue, NEW events \in Seq(PricedEvent),
           chainLog' = chainLog \o events, UNCHANGED <<range, rows>>,
           \A key \in Keys :
              /\ \A i \in DOMAIN events : LastAbout(events, i, key) => Tells(events[i], key)'
              /\ Silent(events, key) => listings'[key[1]][key[2]] = listings[key[1]][key[2]]
    PROVE  LogIsTrue'
<1>0. chainLog \in Seq(PricedEvent) /\ range \in Seq(PricedEvent) /\ Pending \in Seq(PricedEvent)
  BY LogConcat DEF SiteTyped, SiteTypeOK, Pending
<1>1. Pending' = Pending \o events
  <2>1. Pending' = range \o (chainLog \o events)
    BY DEF Pending
  <2>2. (range \o chainLog) \o events = range \o (chainLog \o events)
    BY <1>0, ConcatAssociative, SMTT(30)
  <2> QED
    BY <2>1, <2>2 DEF Pending
<1> SUFFICES ASSUME NEW key \in Keys
             PROVE  /\ \A i \in DOMAIN Pending' :
                          LastAbout(Pending', i, key) => Tells(Pending[i], key)'
                    /\ Silent(Pending', key) => RowIsListing(key)'
  BY DEF LogIsTrue
<1>2. ASSUME NEW i \in DOMAIN Pending', LastAbout(Pending', i, key)
      PROVE  Tells(Pending[i], key)'
  <2>1. CASE i \in DOMAIN Pending /\ LastAbout(Pending, i, key) /\ Silent(events, key)
    <3>1. Tells(Pending[i], key) /\ Pending'[i] = Pending[i]
      BY <1>0, <1>1, <2>1, LogConcat DEF LogIsTrue
    <3>2. listings'[key[1]][key[2]] = listings[key[1]][key[2]]
      BY <2>1
    <3> QED
      BY <3>1, <3>2 DEF Tells, Exists
  <2>2. CASE i - Len(Pending) \in DOMAIN events /\ LastAbout(events, i - Len(Pending), key)
    <3>1. Pending'[i] = events[i - Len(Pending)]
      <4>1. i = Len(Pending) + (i - Len(Pending))
        BY <1>0, <1>1, LogConcat, LenProperties
      <4> QED
        BY <1>0, <1>1, <2>2, <4>1, LogConcat
    <3> QED
      BY <2>2, <3>1
  <2> QED
    BY <1>0, <1>1, <1>2, <2>1, <2>2, LogConcat
<1>3. ASSUME Silent(Pending', key)
      PROVE  RowIsListing(key)'
  <2>1. Silent(Pending, key) /\ Silent(events, key)
    BY <1>0, <1>1, <1>3, LogConcat
  <2> QED
    BY <2>1 DEF LogIsTrue, RowIsListing, Exists
<1> QED
  BY <1>2, <1>3

LEMMA ListedIsEvent ==
    ASSUME NEW nft \in Nft, NEW u \in Users, NEW p \in Nat \ {0}, NEW e \in Nat
    PROVE  ListedEvent(nft, u, p, e) \in PricedEvent
  BY DEF ListedEvent, Event, PricedEvent

LEMMA OtherIsEvent ==
    ASSUME NEW type \in {"Cancelled", "Bought", "Transfer"}, NEW nft \in Nft,
           NEW u \in Users, NEW to \in Users \cup {NoAddr}
    PROVE  OtherEvent(type, nft, u, to) \in PricedEvent
  BY DEF OtherEvent, Event, PricedEvent

\* An event on its own.
LEMMA OneEvent ==
    ASSUME NEW e \in PricedEvent
    PROVE  /\ <<e>> \in Seq(PricedEvent)
           /\ \A i, key : LastAbout(<<e>>, i, key) => i = 1 /\ <<e>>[i] = e /\ About(e, key)
           /\ \A key : About(e, key) => ~Silent(<<e>>, key)
<1>1. <<e>> \in Seq(PricedEvent) /\ DOMAIN <<e>> = {1} /\ <<e>>[1] = e
  OBVIOUS
<1> QED
  BY <1>1 DEF LastAbout, Silent

\* A batch emits one event to an item; the last one for a token is its listing.
LEMMA ListTokensIndex ==
    ASSUME TypeOK, SiteTyped, LogIsTrue, NEW u \in Users, NEW items \in Batches,
           ListTokens(u, items), UNCHANGED <<range, rows>>
    PROVE  LogIsTrue' /\ chainLog' \in Seq(PricedEvent)
<1>1. PICK n \in 1 .. MaxBatch : items \in [1 .. n -> Items]
  BY DEF Batches
<1>2. PICK events : events = [i \in DOMAIN items |->
          ListedEvent(items[i].nft, u, items[i].price, ExpiryFor(items[i].duration))]
  OBVIOUS
<1>3. BatchList(u, items) /\ chainLog' = chainLog \o events
  BY <1>2 DEF ListTokens, Emit
<1>4. ASSUME NEW i \in DOMAIN items
      PROVE  /\ events[i] \in PricedEvent /\ events[i].type = "Listed"
             /\ events[i].nft = items[i].nft /\ events[i].seller = u
             /\ events[i].price = items[i].price
             /\ events[i].expiresAt = ExpiryFor(items[i].duration)
  <2>1. items[i].nft \in Nft /\ items[i].price \in Nat \ {0} /\ items[i].duration \in Nat
    <3>1. items[i] \in Items /\ items[i].price >= MinPrice
      BY <1>1, <1>3 DEF BatchList, Listable
    <3>2. items[i].price \in Prices
      BY <3>1 DEF Items
    <3>3. PICK p \in Prices : p = items[i].price
      BY <3>2
    <3>4. p >= MinPrice
      BY <3>1, <3>3
    <3>5. p \in Nat \ {0}
      BY <3>4
    <3> QED
      BY <3>1, <3>3, <3>5 DEF Items
  <2>2. ExpiryFor(items[i].duration) \in Nat
    BY <2>1 DEF ExpiryFor, TypeOK
  <2>3. events[i] = ListedEvent(items[i].nft, u, items[i].price, ExpiryFor(items[i].duration))
    BY <1>2
  <2> QED
    BY <2>1, <2>2, <2>3, ListedIsEvent DEF ListedEvent
<1>5. DOMAIN events = DOMAIN items /\ DOMAIN items = 1 .. n /\ n \in Nat
  BY <1>1, <1>2
<1>6. events \in Seq(PricedEvent)
  <2>1. events \in [1 .. n -> PricedEvent]
    BY <1>2, <1>4, <1>5
  <2> QED
    BY <1>5, <2>1
<1>7. ASSUME NEW key \in Keys, NEW i \in DOMAIN events, LastAbout(events, i, key)
      PROVE  Tells(events[i], key)'
  <2>1. key[1] \in Nft /\ key[2] = u /\ items[i].nft = key[1] /\ i \in DOMAIN items
    BY <1>4, <1>5, <1>7 DEF Keys, LastAbout, About
  <2>2. \A j \in DOMAIN items : items[j].nft = key[1] => j <= i
    BY <1>4, <1>5, <1>7, <2>1 DEF LastAbout, About
  <2>3. PICK k : k = LastOf(items, key[1])
    OBVIOUS
  <2>4. /\ k \in DOMAIN items /\ items[k].nft = key[1]
        /\ \A j \in DOMAIN items : items[j].nft = key[1] => j <= k
        /\ listings'[key[1]][u].price = items[k].price
        /\ listings'[key[1]][u].price >= MinPrice
        /\ listings'[key[1]][u].expiresAt = ExpiryFor(items[k].duration)
    BY <1>3, <2>1, <2>3, BatchLeaves
  <2>5. k = i
    BY <1>5, <2>1, <2>2, <2>4
  <2>6. listings'[key[1]][u].price > 0
    <3>1. items[i].price \in Nat
      BY <1>1, <2>1 DEF Items
    <3> QED
      BY <2>4, <2>5, <3>1
  <2> QED
    BY <1>4, <2>1, <2>4, <2>5, <2>6 DEF Tells, Exists
<1>8. ASSUME NEW key \in Keys, Silent(events, key)
      PROVE  listings'[key[1]][key[2]] = listings[key[1]][key[2]]
  <2>1. key[1] \in Nft /\ key[2] \in Address
    BY DEF Keys
  <2>2. key[2] # u \/ \A j \in DOMAIN items : items[j].nft # key[1]
    BY <1>4, <1>5, <1>8 DEF Silent, About
  <2>3. PICK nft \in Nft, v \in Address : nft = key[1] /\ v = key[2]
    BY <2>1
  <2>4. v # u \/ \A j \in DOMAIN items : items[j].nft # nft
    BY <2>2, <2>3
  <2>5. listings'[nft][v] = listings[nft][v]
    BY <1>3, <2>4, BatchSpares
  <2> QED
    BY <2>3, <2>5
<1>9. chainLog' \in Seq(PricedEvent)
  BY <1>3, <1>6, LogConcat DEF SiteTyped, SiteTypeOK
<1> QED
  BY <1>3, <1>6, <1>7, <1>8, <1>9, Emitted

\* A step that emits one event, about the one listing it changes.
LEMMA OneEventIndex ==
    ASSUME TypeOK, SiteTyped, LogIsTrue, NEW nft \in Nft, NEW u \in Users,
           NEW e \in PricedEvent, chainLog' = chainLog \o <<e>>, UNCHANGED <<range, rows>>,
           \/ e.type = "Transfer" /\ listings' = listings
           \/ /\ e.type # "Transfer" /\ e.nft = nft /\ e.seller = u
              /\ \A key \in Keys : key # <<nft, u>> =>
                     listings'[key[1]][key[2]] = listings[key[1]][key[2]]
              /\ Tells(e, <<nft, u>>)'
    PROVE  LogIsTrue' /\ chainLog' \in Seq(PricedEvent)
<1>1. <<e>> \in Seq(PricedEvent)
  BY OneEvent
<1>2. ASSUME NEW key \in Keys, NEW i \in DOMAIN <<e>>, LastAbout(<<e>>, i, key)
      PROVE  Tells(<<e>>[i], key)'
  <2>1. <<e>>[i] = e /\ About(e, key)
    BY <1>2, OneEvent
  <2>2. key = <<nft, u>>
    BY <2>1 DEF About, Keys
  <2> QED
    BY <2>1, <2>2 DEF About
<1>3. ASSUME NEW key \in Keys, Silent(<<e>>, key)
      PROVE  listings'[key[1]][key[2]] = listings[key[1]][key[2]]
  <2>1. ~About(e, key)
    BY <1>3, OneEvent
  <2> QED
    BY <2>1 DEF About
<1>4. chainLog' \in Seq(PricedEvent)
  BY <1>1, LogConcat DEF SiteTyped, SiteTypeOK
<1> QED
  BY <1>1, <1>2, <1>3, <1>4, Emitted

\* A deleted listing: what a cancellation, a sale and the keeper's sweep leave.
LEMMA DeletedListing ==
    ASSUME TypeOK, NEW nft \in Nft, NEW u \in Users, Delete(nft, u),
           NEW e, e.type \in {"Cancelled", "Bought"}
    PROVE  /\ \A key \in Keys : key # <<nft, u>> =>
                  listings'[key[1]][key[2]] = listings[key[1]][key[2]]
           /\ Tells(e, <<nft, u>>)'
<1>1. listings \in [Nft -> [Address -> Listing]] /\ u \in Address
  BY DEF TypeOK
<1>2. listings' = [listings EXCEPT ![nft] = [listings[nft] EXCEPT ![u] = NoListing]]
  BY DEF Delete
<1>3. listings'[nft][u] = NoListing
  BY <1>1, <1>2
<1>4. ASSUME NEW key \in Keys, key # <<nft, u>>
      PROVE  listings'[key[1]][key[2]] = listings[key[1]][key[2]]
  <2>1. key[1] \in Nft /\ key[2] \in Address /\ (key[1] # nft \/ key[2] # u)
    BY <1>4 DEF Keys
  <2> QED
    BY <1>1, <1>2, <2>1
<1>5. ~Exists(listings'[nft][u])
  BY <1>3 DEF NoListing, Exists
<1> QED
  BY <1>4, <1>5 DEF Tells

\* Every step of the traders and of time.
LEMMA ChainStepIndex ==
    ASSUME TypeOK, PricesAsked, SiteTyped, LogIsTrue, ChainStep
    PROVE  LogIsTrue' /\ chainLog' \in Seq(PricedEvent)
<1>0. UNCHANGED <<range, rows>>
  BY DEF ChainStep, indexVars
<1>1. ASSUME NEW u \in Users, NEW items \in Batches, ListTokens(u, items)
      PROVE  LogIsTrue' /\ chainLog' \in Seq(PricedEvent)
  BY <1>0, <1>1, ListTokensIndex
<1>2. ASSUME NEW u \in Users, NEW nft \in Nft, NEW p \in Prices, Reprice(u, nft, p)
      PROVE  LogIsTrue' /\ chainLog' \in Seq(PricedEvent)
  <2>1. PICK e : e = ListedEvent(nft, u, p, listings[nft][u].expiresAt)
    OBVIOUS
  <2>2. /\ listings[nft][u] \in Listing /\ listings \in [Nft -> [Address -> Listing]]
        /\ u \in Address
    BY DEF TypeOK
  <2>3. e \in PricedEvent /\ e.type = "Listed" /\ e.nft = nft /\ e.seller = u
        /\ e.price = p /\ e.expiresAt = listings[nft][u].expiresAt
    <3>1. p >= MinPrice
      BY <1>2 DEF Reprice, EditPrice
    <3>2. listings[nft][u].expiresAt \in Nat /\ p \in Nat \ {0}
      BY <2>2, <3>1 DEF Listing
    <3> QED
      BY <2>1, <3>2, ListedIsEvent DEF ListedEvent
  <2>4. /\ EditPrice(u, nft, p) /\ chainLog' = chainLog \o <<e>>
    BY <1>2, <2>1 DEF Reprice, Emit
  <2>5. /\ p >= MinPrice
        /\ listings' = [listings EXCEPT ![nft] =
                           [listings[nft] EXCEPT ![u] = [listings[nft][u] EXCEPT !.price = p]]]
    BY <2>4 DEF EditPrice
  <2>6. /\ listings'[nft][u].price = p
        /\ listings'[nft][u].expiresAt = listings[nft][u].expiresAt
    <3>1. listings'[nft][u] = [listings[nft][u] EXCEPT !.price = p]
      BY <2>2, <2>5
    <3> QED
      BY <2>2, <3>1 DEF Listing
  <2>7. Tells(e, <<nft, u>>)'
    <3>1. p > 0
      BY <2>5
    <3> QED
      BY <2>3, <2>6, <3>1 DEF Tells, Exists
  <2>8. ASSUME NEW key \in Keys, key # <<nft, u>>
        PROVE  listings'[key[1]][key[2]] = listings[key[1]][key[2]]
    <3>1. key[1] \in Nft /\ key[2] \in Address /\ (key[1] # nft \/ key[2] # u)
      BY <2>8 DEF Keys
    <3> QED
      BY <2>2, <2>5, <3>1
  <2> QED
    BY <1>0, <2>3, <2>4, <2>7, <2>8, OneEventIndex
<1>3. ASSUME NEW u \in Users, NEW nft \in Nft, Withdraw(u, nft)
      PROVE  LogIsTrue' /\ chainLog' \in Seq(PricedEvent)
  <2>1. PICK e : e = OtherEvent("Cancelled", nft, u, NoAddr)
    OBVIOUS
  <2>2. e \in PricedEvent /\ e.type = "Cancelled" /\ e.nft = nft /\ e.seller = u
    BY <2>1, OtherIsEvent DEF OtherEvent
  <2>3. Delete(nft, u) /\ chainLog' = chainLog \o <<e>>
    BY <1>3, <2>1 DEF Withdraw, Cancel, Emit
  <2>4. /\ \A k \in Keys : k # <<nft, u>> =>
              listings'[k[1]][k[2]] = listings[k[1]][k[2]]
        /\ Tells(e, <<nft, u>>)'
    BY <2>2, <2>3, DeletedListing
  <2> QED
    BY <1>0, <2>2, <2>3, <2>4, OneEventIndex
<1>4. ASSUME NEW b \in Users, NEW u \in Users, NEW nft \in Nft, Sell(b, nft, u)
      PROVE  LogIsTrue' /\ chainLog' \in Seq(PricedEvent)
  <2>1. PICK e : e = OtherEvent("Bought", nft, u, b)
    OBVIOUS
  <2>2. e \in PricedEvent /\ e.type = "Bought" /\ e.nft = nft /\ e.seller = u
    BY <2>1, OtherIsEvent DEF OtherEvent
  <2>3. Delete(nft, u) /\ chainLog' = chainLog \o <<e>>
    BY <1>4, <2>1 DEF Sell, BuyAt, Buy, Emit
  <2>4. /\ \A k \in Keys : k # <<nft, u>> =>
              listings'[k[1]][k[2]] = listings[k[1]][k[2]]
        /\ Tells(e, <<nft, u>>)'
    BY <2>2, <2>3, DeletedListing
  <2> QED
    BY <1>0, <2>2, <2>3, <2>4, OneEventIndex
<1>5. ASSUME NEW nft \in Nft, NEW u \in Users, NEW v \in Users, Give(nft, u, v)
      PROVE  LogIsTrue' /\ chainLog' \in Seq(PricedEvent)
  <2>1. PICK e : e = OtherEvent("Transfer", nft, u, v)
    OBVIOUS
  <2>2. e \in PricedEvent /\ e.type = "Transfer"
    BY <2>1, OtherIsEvent DEF OtherEvent
  <2>3. listings' = listings /\ chainLog' = chainLog \o <<e>>
    BY <1>5, <2>1 DEF Give, TokenMove, Emit
  <2> QED
    BY <1>0, <2>2, <2>3, OneEventIndex
<1>6. CASE SilentStep
  <2>1. UNCHANGED <<chainLog, listings>>
    BY <1>6 DEF SilentStep, Approve
  <2> QED
    BY <1>0, <2>1 DEF LogIsTrue, Pending, Tells, RowIsListing, Exists, SiteTyped, SiteTypeOK
<1> QED
  BY <1>1, <1>2, <1>3, <1>4, <1>5, <1>6 DEF ChainStep

\* The keeper's transaction ends an expired listing and says so.
LEMMA SendCleanIndex ==
    ASSUME TypeOK, SiteTyped, LogIsTrue, NEW key \in Keys, SendClean(key)
    PROVE  LogIsTrue' /\ chainLog' \in Seq(PricedEvent)
<1>1. PICK nft \in Nft, u \in Users : key = <<nft, u>>
  BY DEF Keys
<1>2. PICK e : e = OtherEvent("Cancelled", nft, u, NoAddr)
  OBVIOUS
<1>3. e \in PricedEvent /\ e.type = "Cancelled" /\ e.nft = nft /\ e.seller = u
  BY <1>2, OtherIsEvent DEF OtherEvent
<1>4. /\ Delete(nft, u) /\ UNCHANGED <<range, rows>>
      /\ chainLog' = Append(chainLog, e)
  BY <1>1, <1>2 DEF SendClean, CleanExpired, indexVars
<1>5. chainLog' = chainLog \o <<e>>
  BY <1>3, <1>4 DEF SiteTyped, SiteTypeOK
<1>6. /\ \A k \in Keys : k # <<nft, u>> =>
            listings'[k[1]][k[2]] = listings[k[1]][k[2]]
      /\ Tells(e, <<nft, u>>)'
  BY <1>3, <1>4, DeletedListing
<1> QED
  BY <1>3, <1>4, <1>5, <1>6, OneEventIndex

----------------------------------------------------------------------------
(* The workers of the site                                                 *)

\* A row shows no more than it did.
ShowsNoMore(key) ==
    rows'[key].active => /\ rows[key].active
                         /\ rows'[key].price = rows[key].price
                         /\ rows'[key].expiresAt = rows[key].expiresAt

LEMMA RowsStayTrue ==
    ASSUME LogIsTrue, UNCHANGED <<range, chainLog, listings>>,
           \A key \in Keys : Silent(Pending, key) => ShowsNoMore(key)
    PROVE  LogIsTrue'
<1>1. Pending' = Pending
  BY DEF Pending
<1>2. ASSUME NEW key \in Keys, NEW i \in DOMAIN Pending, LastAbout(Pending, i, key)
      PROVE  Tells(Pending[i], key)'
  <2>1. Tells(Pending[i], key)
    BY <1>2 DEF LogIsTrue
  <2> QED
    BY <1>1, <2>1 DEF Tells, Exists
<1>3. ASSUME NEW key \in Keys, Silent(Pending, key)
      PROVE  RowIsListing(key)'
  <2>1. RowIsListing(key) /\ ShowsNoMore(key)
    BY <1>3 DEF LogIsTrue
  <2> QED
    BY <2>1 DEF RowIsListing, ShowsNoMore, Exists
<1> QED
  BY <1>1, <1>2, <1>3 DEF LogIsTrue

LEMMA RowsStayHandled ==
    ASSUME RangeIsHandled, UNCHANGED <<range, todo, failed>>,
           \A key \in Keys : ShowsNoMore(key)
    PROVE  RangeIsHandled'
<1> SUFFICES ASSUME range # <<>>, ~failed, NEW key \in Keys, NEW i \in DOMAIN range,
                    LastAbout(range, i, key), i \notin todo
             PROVE  RowFollows(range[i], key)'
  BY DEF RangeIsHandled
<1>1. RowFollows(range[i], key) /\ ShowsNoMore(key)
  BY DEF RangeIsHandled
<1> QED
  BY <1>1 DEF RowFollows, ShowsNoMore

\* The sweepers, the mark of a receipt and the ownership check only hide rows.
LEMMA WorkersHide ==
    ASSUME SiteTyped,
           \/ \E key \in Keys : DeactivateExpired(key)
           \/ MarkCleaned
           \/ RepairRow
    PROVE  /\ \A key \in Keys : ShowsNoMore(key)
           /\ RowsTyped'
<1>0. RowsTyped /\ rows \in [Keys -> Row]
  BY DEF SiteTyped, SiteTypeOK, RowsTyped
<1>1. ASSUME rows' = rows
      PROVE  /\ \A key \in Keys : ShowsNoMore(key)
             /\ RowsTyped'
  BY <1>0, <1>1 DEF ShowsNoMore, RowsTyped
<1>2. ASSUME NEW k \in Keys, NEW r \in Row, rows' = [rows EXCEPT ![k] = r],
             r.active => /\ rows[k].active
                         /\ r.price = rows[k].price /\ r.expiresAt = rows[k].expiresAt,
             r.orphaned => ~r.active
      PROVE  /\ \A key \in Keys : ShowsNoMore(key)
             /\ RowsTyped'
  <2>1. \A key \in Keys : rows'[key] = IF key = k THEN r ELSE rows[key]
    BY <1>0, <1>2
  <2>2. \A key \in Keys : ShowsNoMore(key)
    BY <1>0, <1>2, <2>1 DEF ShowsNoMore
  <2>3. \A key \in Keys : rows'[key].active => Present(rows'[key])
    BY <1>0, <2>2 DEF ShowsNoMore, RowsTyped, Present
  <2> QED
    BY <1>0, <1>2, <2>1, <2>2, <2>3 DEF RowsTyped
<1>3. ASSUME NEW k \in Keys, DeactivateExpired(k)
      PROVE  /\ \A key \in Keys : ShowsNoMore(key)
             /\ RowsTyped'
  <2>1. PICK r : r = [rows[k] EXCEPT !.active = FALSE]
    OBVIOUS
  <2>2. r \in Row /\ r.active = FALSE
    <3>1. rows[k] \in Row
      BY <1>0
    <3> QED
      BY <2>1, <3>1 DEF Row
  <2>3. rows' = rows \/ rows' = [rows EXCEPT ![k] = r]
    BY <1>3, <2>1 DEF DeactivateExpired
  <2> QED
    BY <1>1, <1>2, <2>2, <2>3
<1>4. CASE MarkCleaned
  <2>1. PICK k \in Keys : k = marking
    BY <1>4 DEF MarkCleaned, SiteTyped, SiteTypeOK
  <2>2. PICK r : r = [rows[k] EXCEPT !.chain_cleaned = TRUE]
    OBVIOUS
  <2>3. /\ r \in Row /\ r.active = rows[k].active /\ r.orphaned = rows[k].orphaned
        /\ r.price = rows[k].price /\ r.expiresAt = rows[k].expiresAt
    <3>1. rows[k] \in Row
      BY <1>0
    <3> QED
      BY <2>2, <3>1 DEF Row
  <2>4. rows' = [rows EXCEPT ![k] = r]
    BY <1>4, <2>1, <2>2 DEF MarkCleaned
  <2> QED
    BY <1>0, <1>2, <2>3, <2>4 DEF RowsTyped
<1>5. CASE RepairRow
  <2>1. CASE rows' = rows
    BY <1>1, <2>1
  <2>2. CASE rows' # rows
    <3>1. PICK k \in Keys : k = check.key
      BY <1>5 DEF RepairRow, SiteTyped, SiteTypeOK
    <3>2. PICK r : r = [[rows[k] EXCEPT !.active = FALSE] EXCEPT !.orphaned = TRUE]
      OBVIOUS
    <3>3. r \in Row /\ r.active = FALSE
      <4>1. rows[k] \in Row
        BY <1>0
      <4> QED
        BY <3>2, <4>1 DEF Row
    <3>4. rows' = [rows EXCEPT ![k].active = FALSE, ![k].orphaned = TRUE]
      BY <1>5, <2>2, <3>1 DEF RepairRow, EnsureListingSellerOwnership, OrphanListing
    <3>5. rows' = [rows EXCEPT ![k] = r]
      <4>1. \A key \in Keys : rows'[key] = IF key = k THEN r ELSE rows[key]
        BY <1>0, <3>2, <3>4 DEF Row
      <4>2. rows' = [key \in Keys |-> rows'[key]]
        BY <1>0, <3>4
      <4> QED
        BY <1>0, <4>1, <4>2
    <3> QED
      BY <1>2, <3>3, <3>5
  <2> QED
    BY <2>1, <2>2
<1> QED
  BY <1>3, <1>4, <1>5

\* The next call of a range is one that is left, and the first of them.
LEMMA NextCallIsFirst ==
    ASSUME SiteTyped, todo # {}
    PROVE  NextCall \in todo /\ \A j \in todo : NextCall <= j
<1>1. todo \subseteq Nat
  BY DEF SiteTyped, SiteTypeOK
<1>2. PICK i \in todo : \A j \in todo : ~(<<j, i>> \in OpToRel(<, Nat))
  BY <1>1, NatLessThanWellFounded, WFMin
<1>3. \A m, n \in Nat : m < n => <<m, n>> \in OpToRel(<, Nat)
  BY Zenon DEF OpToRel
<1>4. \A j \in todo : i <= j
  <2> SUFFICES ASSUME NEW j \in todo, j < i
               PROVE  FALSE
    BY <1>1
  <2>1. <<j, i>> \in OpToRel(<, Nat)
    BY <1>1, <1>3
  <2> QED
    BY <1>2, <2>1
<1> QED
  BY <1>4 DEF NextCall

\* A call either handles its own event, or moves a token.
LEMMA CallShape ==
    ASSUME SiteTyped, NEW k \in Calls(range)
    PROVE  /\ CallOf(k) \in PricedEvent
           /\ \/ k \in DOMAIN range /\ CallOf(k) = range[k] /\ range[k].type # "Transfer"
              \/ k \notin DOMAIN range /\ CallOf(k).type = "Transfer"
<1>1. range \in Seq(PricedEvent) /\ Len(range) \in Nat /\ DOMAIN range = 1 .. Len(range)
  BY LenProperties DEF SiteTyped, SiteTypeOK
<1>2. \A i \in DOMAIN range : range[i] \in PricedEvent
  BY <1>1, ElementOfSeq
<1>3. CASE k \in DOMAIN range /\ range[k].type # "Transfer"
  <2>1. CallOf(k) = range[k]
    BY <1>1, <1>3 DEF CallOf
  <2> QED
    BY <1>2, <1>3, <2>1
<1>4. ASSUME NEW j \in DOMAIN range, k = Len(range) + j
      PROVE  k \notin DOMAIN range /\ CallOf(k).type = "Transfer" /\ CallOf(k) \in PricedEvent
  <2>1. ~(k <= Len(range)) /\ k - Len(range) = j
    BY <1>1, <1>4
  <2>2. CallOf(k) = [range[j] EXCEPT !.type = "Transfer"]
    BY <2>1 DEF CallOf
  <2>3. range[j] \in PricedEvent
    BY <1>2
  <2>4. CallOf(k).type = "Transfer" /\ CallOf(k) \in PricedEvent
    BY <2>2, <2>3 DEF Event, PricedEvent
  <2> QED
    BY <1>1, <2>1, <2>4
<1> QED
  BY <1>3, <1>4 DEF Calls

\* The events are handled in order, so a handled event that is the last word of its
\* range on a listing is not overwritten, and a later one is still to come.
LEMMA DispatchIndex ==
    ASSUME SiteTyped, LogIsTrue, InOrder, RangeIsHandled, Dispatch
    PROVE  /\ LogIsTrue' /\ InOrder' /\ RangeIsHandled'
           /\ RowsTyped' /\ owner' \in [Nft -> Users \cup {NoAddr}]
<1> DEFINE k == NextCall
           c == CallOf(NextCall)
<1>1. /\ k \in todo /\ (\A j \in todo : k <= j) /\ k \in Calls(range)
  BY NextCallIsFirst DEF Dispatch, InOrder
<1>2. /\ c \in PricedEvent
      /\ \/ k \in DOMAIN range /\ c = range[k] /\ range[k].type # "Transfer"
         \/ k \notin DOMAIN range /\ c.type = "Transfer"
  BY <1>1, CallShape
<1>3. /\ Handle(c) /\ todo' = todo \ {k}
      /\ UNCHANGED <<range, chainLog, listings, failed>>
  BY DEF Dispatch, chainVars, vars
<1>4. /\ rows \in [Keys -> Row] /\ RowsTyped
      /\ owner \in [Nft -> Users \cup {NoAddr}]
      /\ range \in Seq(PricedEvent) /\ chainLog \in Seq(PricedEvent)
      /\ todo \subseteq Nat
  BY DEF SiteTyped, SiteTypeOK, RowsTyped
<1> HIDE DEF k, c
<1>5. InOrder'
  <2>1. Calls(range)' = Calls(range)
    BY <1>3 DEF Calls
  <2>2. ASSUME NEW i \in Calls(range) \ todo', NEW j \in todo'
        PROVE  i < j
    <3>1. CASE i = k
      BY <1>1, <1>3, <1>4, <2>2, <3>1
    <3>2. CASE i # k
      BY <1>3, <2>2, <3>2 DEF InOrder
    <3> QED
      BY <3>1, <3>2
  <2> QED
    BY <1>3, <2>1, <2>2 DEF InOrder
<1>6. CASE c.type = "Transfer"
  <2>1. OnTransfer(c) /\ k \notin DOMAIN range
    BY <1>2, <1>3, <1>6 DEF Handle
  <2>2. ASSUME NEW key \in Keys
        PROVE  /\ ShowsNoMore(key) /\ rows'[key] \in Row
               /\ rows'[key].orphaned => ~rows'[key].active
               /\ rows'[key].active => Present(rows'[key])
    <3>1. /\ rows[key] \in Row /\ (rows[key].orphaned => ~rows[key].active)
          /\ rows[key].active => Present(rows[key])
      BY <1>4 DEF RowsTyped
    <3>2. rows'[key] = rows[key]
             \/ rows'[key] = [[rows[key] EXCEPT !.active = FALSE] EXCEPT !.orphaned = TRUE]
      BY <2>1, <3>1 DEF OnTransfer, Row
    <3> QED
      BY <3>1, <3>2 DEF ShowsNoMore, Row
  <2>3. RowsTyped'
    <3>1. rows' \in [Keys -> Row]
      BY <2>1, <2>2 DEF OnTransfer
    <3> QED
      BY <2>2, <3>1 DEF RowsTyped
  <2>4. owner' \in [Nft -> Users \cup {NoAddr}]
    BY <1>2, <1>4, <2>1 DEF OnTransfer, Event, PricedEvent
  <2>5. LogIsTrue'
    BY <1>3, <2>2, RowsStayTrue
  <2>6. RangeIsHandled'
    <3> SUFFICES ASSUME range # <<>>, ~failed, NEW key \in Keys, NEW i \in DOMAIN range,
                        LastAbout(range, i, key), i \notin todo'
                 PROVE  RowFollows(range[i], key)'
      BY <1>3 DEF RangeIsHandled
    <3>1. i \notin todo
      BY <1>3, <2>1
    <3>2. RowFollows(range[i], key) /\ ShowsNoMore(key)
      BY <2>2, <3>1 DEF RangeIsHandled
    <3> QED
      BY <1>3, <3>2 DEF RowFollows, ShowsNoMore
  <2> QED
    BY <1>5, <2>2, <2>3, <2>4, <2>5, <2>6
<1>7. CASE c.type # "Transfer"
  <2> DEFINE mine == <<c.nft, c.seller>>
  <2>1. /\ k \in DOMAIN range /\ c = range[k] /\ mine \in Keys
        /\ About(c, mine)
    BY <1>2, <1>7 DEF Keys, Event, PricedEvent, About
  <2>2. PICK r \in Row : /\ rows' = [rows EXCEPT ![mine] = r]
                         /\ r.active => /\ c.type = "Listed"
                                        /\ r.price = c.price /\ r.expiresAt = c.expiresAt
                         /\ r.orphaned => ~r.active
    <3>1. rows[mine] \in Row /\ (rows[mine].orphaned => ~rows[mine].active)
      BY <1>4, <2>1 DEF RowsTyped
    <3>2. CASE c.type = "Listed"
      <4>1. PICK r : r = [price |-> c.price, expiresAt |-> c.expiresAt, active |-> TRUE,
                          orphaned |-> FALSE, chain_cleaned |-> rows[mine].chain_cleaned]
        OBVIOUS
      <4>2. r \in Row /\ r.orphaned = FALSE /\ r.price = c.price /\ r.expiresAt = c.expiresAt
        BY <1>2, <3>1, <4>1 DEF Row, Event, PricedEvent
      <4>3. rows' = [rows EXCEPT ![mine] = r]
        BY <1>3, <3>2, <4>1 DEF Handle, OnListed
      <4> QED
        BY <3>2, <4>2, <4>3
    <3>3. CASE c.type # "Listed" /\ Present(rows[mine])
      <4>1. PICK r : r = [[rows[mine] EXCEPT !.active = FALSE] EXCEPT !.chain_cleaned = TRUE]
        OBVIOUS
      <4>2. r \in Row /\ r.active = FALSE
        BY <3>1, <4>1 DEF Row
      <4>3. rows' = [rows EXCEPT ![mine] =
                        [rows[mine] EXCEPT !.active = FALSE, !.chain_cleaned = TRUE]]
        BY <1>3, <1>7, <3>3 DEF Handle, OnGone
      <4>4. r = [rows[mine] EXCEPT !.active = FALSE, !.chain_cleaned = TRUE]
        BY <3>1, <4>1 DEF Row
      <4> QED
        BY <4>2, <4>3, <4>4
    <3>4. CASE c.type # "Listed" /\ ~Present(rows[mine])
      <4>1. rows' = [rows EXCEPT ![mine] = rows[mine]]
        BY <1>3, <1>7, <3>4 DEF Handle, OnGone
      <4>2. ~rows[mine].active
        BY <2>1, <3>4 DEF SiteTyped
      <4> QED
        BY <3>1, <4>1, <4>2
    <3> QED
      BY <3>2, <3>3, <3>4
  <2>3. \A key \in Keys : rows'[key] = IF key = mine THEN r ELSE rows[key]
    BY <1>4, <2>1, <2>2
  <2>4. RowsTyped'
    <3>1. rows' \in [Keys -> Row]
      BY <1>4, <2>2
    <3>2. r.active => Present(r)
      BY <1>2, <2>2 DEF Present, PricedEvent
    <3> QED
      BY <1>4, <2>2, <2>3, <3>1, <3>2 DEF RowsTyped
  <2>5. owner' \in [Nft -> Users \cup {NoAddr}]
    <3>1. c.nft \in Nft /\ c.seller \in Users
      BY <1>2 DEF Event, PricedEvent
    <3> QED
      BY <1>3, <1>4, <1>7, <3>1 DEF Handle, OnListed, OnGone
  <2>6. LogIsTrue'
    <3>1. ~Silent(range, mine)
      BY <2>1 DEF Silent
    <3>2. ~Silent(Pending, mine)
      BY <1>4, <3>1, LogConcat DEF Pending
    <3>3. \A key \in Keys : Silent(Pending, key) => ShowsNoMore(key)
      BY <2>3, <3>2 DEF ShowsNoMore
    <3> QED
      BY <1>3, <3>3, RowsStayTrue
  <2>7. RangeIsHandled'
    <3> SUFFICES ASSUME range # <<>>, ~failed, NEW key \in Keys, NEW i \in DOMAIN range,
                        LastAbout(range, i, key), i \notin todo'
                 PROVE  RowFollows(range[i], key)'
      BY <1>3 DEF RangeIsHandled
    <3>1. CASE key = mine
      <4>1. k <= i /\ i \in Calls(range)
        BY <2>1, <3>1 DEF LastAbout, About, Calls
      <4>2. i = k
        <5>1. i \in todo => i = k
          BY <1>3
        <5>2. i \notin todo => i < k
          BY <1>1, <4>1 DEF InOrder
        <5>3. i \in Nat /\ k \in Nat
          BY <1>1, <1>4, LenProperties
        <5> QED
          BY <4>1, <5>1, <5>2, <5>3
      <4>3. rows'[key] = r /\ range[i] = c
        BY <2>1, <2>3, <3>1, <4>2
      <4> QED
        BY <1>3, <2>2, <4>3 DEF RowFollows
    <3>2. CASE key # mine
      <4>1. i # k
        BY <2>1, <3>2 DEF LastAbout, About, Keys
      <4>2. RowFollows(range[i], key) /\ rows'[key] = rows[key]
        BY <1>3, <2>3, <3>2, <4>1 DEF RangeIsHandled
      <4> QED
        BY <1>3, <4>2 DEF RowFollows
    <3> QED
      BY <3>1, <3>2
  <2> QED
    BY <1>5, <2>4, <2>5, <2>6, <2>7
<1> QED
  BY <1>6, <1>7

\* A call that fails is a call made, and no row changes.
LEMMA DispatchFailsIndex ==
    ASSUME SiteTyped, LogIsTrue, InOrder, DispatchFails
    PROVE  LogIsTrue' /\ InOrder' /\ RangeIsHandled'
<1>1. /\ NextCall \in todo /\ \A j \in todo : NextCall <= j
      /\ todo' = todo \ {NextCall} /\ failed'
      /\ UNCHANGED <<range, chainLog, listings, rows>>
  BY NextCallIsFirst DEF DispatchFails, chainVars, vars
<1>2. LogIsTrue'
  BY <1>1, RowsStayTrue DEF ShowsNoMore
<1>3. Calls(range)' = Calls(range) /\ todo \subseteq Nat
  BY <1>1 DEF Calls, SiteTyped, SiteTypeOK
<1>4. InOrder'
  <2> SUFFICES ASSUME NEW i \in Calls(range) \ todo', NEW j \in todo'
               PROVE  i < j
    BY <1>1, <1>3 DEF InOrder
  <2>1. CASE i = NextCall
    BY <1>1, <1>3, <2>1
  <2>2. CASE i # NextCall
    BY <1>1, <2>2 DEF InOrder
  <2> QED
    BY <2>1, <2>2
<1> QED
  BY <1>1, <1>2, <1>4 DEF RangeIsHandled

LEMMA LengthOfRest ==
    ASSUME NEW m \in Nat, NEW n \in 1 .. m
    PROVE  (IF n + 1 <= m THEN m - (n + 1) + 1 ELSE 0) = m - n
  OBVIOUS

\* A log cut in two is the log.
LEMMA CutLog ==
    ASSUME NEW log \in Seq(PricedEvent), NEW n \in 1 .. Len(log)
    PROVE  /\ SubSeq(log, 1, n) \in Seq(PricedEvent)
           /\ SubSeq(log, n + 1, Len(log)) \in Seq(PricedEvent)
           /\ SubSeq(log, 1, n) \o SubSeq(log, n + 1, Len(log)) = log
<1>1. Len(log) \in Nat /\ DOMAIN log = 1 .. Len(log)
  BY LenProperties
<1>2. PICK a : a = SubSeq(log, 1, n)
  OBVIOUS
<1>3. PICK b : b = SubSeq(log, n + 1, Len(log))
  OBVIOUS
<1>4. /\ a \in Seq(PricedEvent) /\ Len(a) = n
      /\ \A i \in 1 .. n : a[i] = log[i]
  <2>1. \A i \in 1 .. n : log[i] \in PricedEvent
    BY <1>1, ElementOfSeq
  <2>2. /\ a \in Seq(PricedEvent) /\ Len(a) = IF 1 <= n THEN n - 1 + 1 ELSE 0
        /\ \A i \in 1 .. n - 1 + 1 : a[i] = log[1 + i - 1]
    <3>1. n \in Int
      OBVIOUS
    <3> QED
      BY ONLY <1>2, <2>1, <3>1, SubSeqProperties, SMTT(30)
  <2> QED
    BY <2>2
<1>5. /\ b \in Seq(PricedEvent) /\ Len(b) = Len(log) - n
      /\ \A i \in 1 .. Len(log) - n : b[i] = log[n + i]
  <2>1. \A i \in (n + 1) .. Len(log) : log[i] \in PricedEvent
    BY <1>1, ElementOfSeq
  <2>2. /\ b \in Seq(PricedEvent)
        /\ Len(b) = IF n + 1 <= Len(log) THEN Len(log) - (n + 1) + 1 ELSE 0
        /\ \A i \in 1 .. Len(log) - (n + 1) + 1 : b[i] = log[(n + 1) + i - 1]
    <3>1. n + 1 \in Int /\ Len(log) \in Int
      BY <1>1
    <3> QED
      BY ONLY <1>3, <2>1, <3>1, SubSeqProperties, SMTT(30)
  <2>3. Len(log) - (n + 1) + 1 = Len(log) - n /\ n \in Int /\ Len(log) \in Int /\ n <= Len(log)
    BY <1>1
  <2>4. Len(b) = Len(log) - n
    BY <1>1, <2>2, LengthOfRest
  <2>5. ASSUME NEW i \in 1 .. Len(log) - n
        PROVE  b[i] = log[n + i]
    <3>1. i \in 1 .. Len(log) - (n + 1) + 1 /\ (n + 1) + i - 1 = n + i
      BY <1>1, <2>3
    <3>2. b[i] = log[(n + 1) + i - 1]
      BY Zenon, <2>2, <3>1
    <3> QED
      BY <3>1, <3>2
  <2> QED
    BY <2>2, <2>4, <2>5
<1>6. /\ a \o b \in Seq(PricedEvent) /\ Len(a \o b) = Len(log)
      /\ \A i \in 1 .. Len(log) : (a \o b)[i] = log[i]
  <2>1. PICK l : l = a \o b
    OBVIOUS
  <2>2. /\ l \in Seq(PricedEvent) /\ Len(l) = Len(a) + Len(b)
        /\ \A i \in 1 .. Len(a) + Len(b) :
              l[i] = IF i <= Len(a) THEN a[i] ELSE b[i - Len(a)]
    <3>1. a \in Seq(PricedEvent) /\ b \in Seq(PricedEvent)
      BY <1>4, <1>5
    <3>2. /\ a \o b \in Seq(PricedEvent) /\ Len(a \o b) = Len(a) + Len(b)
          /\ \A i \in 1 .. Len(a) + Len(b) :
                (a \o b)[i] = IF i <= Len(a) THEN a[i] ELSE b[i - Len(a)]
      BY ONLY <3>1, ConcatProperties, SMTT(30)
    <3> QED
      BY Zenon, <2>1, <3>2
  <2>3. Len(a) + Len(b) = Len(log)
    BY <1>1, <1>4, <1>5
  <2>4. ASSUME NEW i \in 1 .. Len(log)
        PROVE  l[i] = log[i]
    <3>1. CASE i <= n
      BY <1>4, <2>2, <2>3, <3>1
    <3>2. CASE i > n
      <4>1. i - n \in 1 .. Len(log) - n /\ n + (i - n) = i
        BY <1>1, <3>2
      <4>2. b[i - n] = log[n + (i - n)]
        BY <1>5, <4>1
      <4>3. l[i] = b[i - n]
        BY <1>1, <1>4, <2>2, <2>3, <3>2
      <4> QED
        BY <4>1, <4>2, <4>3
    <3> QED
      BY <1>1, <3>1, <3>2
  <2> QED
    BY <2>1, <2>2, <2>3, <2>4
<1>7. a \o b = log
  BY <1>1, <1>6, SeqEqual
<1> QED
  BY <1>2, <1>3, <1>4, <1>5, <1>7

\* What waits stays the same when events only change their place.
LEMMA PlaceOfEvents ==
    ASSUME LogIsTrue, Pending' = Pending, UNCHANGED <<listings, rows>>
    PROVE  LogIsTrue'
<1>1. ASSUME NEW key \in Keys, NEW i \in DOMAIN Pending, LastAbout(Pending, i, key)
      PROVE  Tells(Pending[i], key)'
  <2>1. Tells(Pending[i], key)
    BY <1>1 DEF LogIsTrue
  <2> QED
    BY <2>1 DEF Tells, Exists
<1>2. ASSUME NEW key \in Keys, Silent(Pending, key)
      PROVE  RowIsListing(key)'
  BY <1>2 DEF LogIsTrue, RowIsListing, Exists
<1> QED
  BY <1>1, <1>2 DEF LogIsTrue

\* The calls of a range are numbered up to twice its length.
LEMMA CallsBound ==
    ASSUME NEW log \in Seq(PricedEvent)
    PROVE  Calls(log) \subseteq 1 .. 2 * Len(log)
<1>1. Len(log) \in Nat /\ DOMAIN log = 1 .. Len(log)
  BY LenProperties
<1> QED
  BY <1>1 DEF Calls

LEMMA StartRangeIndex ==
    ASSUME SiteTyped, LogIsTrue, InOrder, StartRange
    PROVE  /\ LogIsTrue' /\ InOrder' /\ RangeIsHandled'
           /\ chainLog' \in Seq(PricedEvent) /\ range' \in Seq(PricedEvent)
           /\ todo' \subseteq 1 .. 2 * Len(range')
<1>1. chainLog \in Seq(PricedEvent)
  BY DEF SiteTyped
<1>2. /\ chainLog' \in Seq(PricedEvent) /\ range' \in Seq(PricedEvent)
      /\ range' \o chainLog' = chainLog
  BY <1>1, CutLog DEF StartRange
<1>3. range = <<>> /\ todo' = Calls(range') /\ UNCHANGED <<listings, rows>>
  BY DEF StartRange, chainVars, vars
<1>4. <<>> \o chainLog = chainLog
  BY <1>1, ConcatEmptySeq
<1>5. LogIsTrue'
  BY <1>2, <1>3, <1>4, PlaceOfEvents DEF Pending
<1>6. InOrder'
  <2>1. Calls(range)' = Calls(range')
    BY DEF Calls
  <2> QED
    BY <1>3, <2>1 DEF InOrder
<1>7. RangeIsHandled'
  <2> SUFFICES ASSUME NEW key \in Keys, NEW i \in DOMAIN range', LastAbout(range', i, key)
               PROVE  i \in todo'
    BY DEF RangeIsHandled
  <2> QED
    BY <1>3 DEF LastAbout, About, Calls
<1> QED
  BY <1>2, <1>3, <1>5, <1>6, <1>7, CallsBound

\* A range is left behind only when its last word on every listing is in the rows.
LEMMA CommitIndex ==
    ASSUME SiteTyped, LogIsTrue, InOrder, RangeIsHandled, Commit
    PROVE  LogIsTrue' /\ InOrder' /\ RangeIsHandled'
<1>1. /\ range \in Seq(PricedEvent) /\ chainLog \in Seq(PricedEvent)
      /\ range # <<>> /\ todo = {} /\ ~failed
      /\ range' = <<>> /\ todo' = {} /\ UNCHANGED <<chainLog, listings, rows>>
  BY DEF SiteTyped, Commit, chainVars, vars
<1>2. Pending' = chainLog
  BY <1>1, ConcatEmptySeq DEF Pending
<1>3. Len(range) \in Nat /\ DOMAIN Pending = 1 .. Len(range) + Len(chainLog)
      /\ DOMAIN range = 1 .. Len(range) /\ DOMAIN chainLog = 1 .. Len(chainLog)
      /\ Len(chainLog) \in Nat
  BY <1>1, LogConcat, LenProperties DEF Pending
<1>4. ASSUME NEW key \in Keys, NEW i \in DOMAIN chainLog, LastAbout(chainLog, i, key)
      PROVE  Tells(chainLog[i], key)'
  <2>1. PICK j \in DOMAIN Pending : j = Len(range) + i
    BY <1>3
  <2>2. j - Len(range) = i
    BY <1>3, <2>1
  <2>3. LastAbout(Pending, j, key) /\ Pending[j] = chainLog[i]
    <3>1. Pending[j] = chainLog[i]
      BY <1>1, <2>1, LogConcat DEF Pending
    <3>2. j - Len(range) \in DOMAIN chainLog /\ LastAbout(chainLog, j - Len(range), key)
      BY <1>4, <2>2
    <3>3. LastAbout(Pending, j, key)
      BY <1>1, <2>1, <3>2, LogConcat DEF Pending
    <3> QED
      BY <3>1, <3>3
  <2>4. Tells(chainLog[i], key)
    BY <2>3 DEF LogIsTrue
  <2> QED
    BY <1>1, <2>4 DEF Tells, Exists
<1>5. ASSUME NEW key \in Keys, Silent(chainLog, key)
      PROVE  RowIsListing(key)'
  <2>1. CASE Silent(range, key)
    <3>1. Silent(Pending, key)
      BY <1>1, <1>5, <2>1, LogConcat DEF Pending
    <3> QED
      BY <1>1, <3>1 DEF LogIsTrue, RowIsListing, Exists
  <2>2. CASE ~Silent(range, key)
    <3>1. PICK i \in DOMAIN range : LastAbout(range, i, key)
      BY <1>1, <2>2, LastWord
    <3>2. i \in DOMAIN Pending /\ LastAbout(Pending, i, key) /\ Pending[i] = range[i]
      BY <1>1, <1>3, <1>5, <3>1, LogConcat DEF Pending
    <3>3. Tells(range[i], key)
      BY <3>2 DEF LogIsTrue
    <3>4. RowFollows(range[i], key)
      BY <1>1, <3>1 DEF RangeIsHandled
    <3> QED
      BY <1>1, <3>3, <3>4 DEF Tells, RowFollows, RowIsListing, Exists
  <2> QED
    BY <2>1, <2>2
<1>6. LogIsTrue'
  BY <1>1, <1>2, <1>4, <1>5 DEF LogIsTrue
<1>7. InOrder'
  BY <1>1 DEF InOrder
<1> QED
  BY <1>1, <1>6, <1>7 DEF RangeIsHandled

\* A range given back waits again, before what has been emitted since.
LEMMA GiveBackIndex ==
    ASSUME SiteTyped, LogIsTrue, GiveBackRange, UNCHANGED <<listings, rows>>
    PROVE  /\ LogIsTrue' /\ InOrder' /\ RangeIsHandled'
           /\ chainLog' \in Seq(PricedEvent) /\ range' = <<>> /\ todo' = {}
<1>1. /\ range \in Seq(PricedEvent) /\ chainLog \in Seq(PricedEvent)
      /\ chainLog' = range \o chainLog /\ range' = <<>> /\ todo' = {}
  BY DEF SiteTyped, GiveBackRange
<1>2. range \o chainLog \in Seq(PricedEvent)
  BY <1>1, LogConcat
<1>3. Pending' = Pending
  BY <1>1, <1>2, ConcatEmptySeq DEF Pending
<1>4. LogIsTrue'
  BY <1>3, PlaceOfEvents
<1>5. InOrder' /\ RangeIsHandled'
  BY <1>1 DEF InOrder, RangeIsHandled
<1> QED
  BY <1>1, <1>2, <1>4, <1>5

----------------------------------------------------------------------------
(* The invariant of the site, and what follows from it                     *)

\* The part of the type that is neither a log nor a row.
RestTyped ==
    /\ failed \in BOOLEAN
    /\ owner \in [Nft -> Users \cup {NoAddr}]
    /\ expiring \subseteq Keys /\ sweep \subseteq Keys
    /\ marking \in Keys \cup {None}
    /\ check = None \/ check \in [key : Keys, owns : BOOLEAN]
    /\ faults \in 0 .. MaxFaults
    /\ kept \in [Keys -> BOOLEAN]

LogsTyped == /\ chainLog \in Seq(PricedEvent) /\ range \in Seq(PricedEvent)
             /\ todo \subseteq 1 .. 2 * Len(range)

LEMMA SiteTypedParts == SiteTyped <=> RowsTyped /\ RestTyped /\ LogsTyped
<1>1. Seq(PricedEvent) \subseteq Seq(Event)
  <2>1. PricedEvent \subseteq Event
    BY DEF PricedEvent
  <2> QED
    BY <2>1, SeqMonotonic
<1>2. ASSUME SiteTyped PROVE RowsTyped /\ RestTyped /\ LogsTyped
  BY <1>2 DEF SiteTyped, SiteTypeOK, RowsTyped, RestTyped, LogsTyped
<1>3. ASSUME RowsTyped, RestTyped, LogsTyped PROVE SiteTyped
  <2>1. chainLog \in Seq(Event) /\ range \in Seq(Event)
    BY <1>1, <1>3 DEF LogsTyped
  <2> QED
    BY <1>3, <2>1 DEF SiteTyped, SiteTypeOK, RowsTyped, RestTyped, LogsTyped
<1> QED
  BY <1>2, <1>3

\* What the workers remember keeps its type in every step.
LEMMA RestTypedStep ==
    ASSUME RowsTyped, RestTyped, LogsTyped, [SiteNext]_siteVars,
           Dispatch => owner' \in [Nft -> Users \cup {NoAddr}]
    PROVE  RestTyped'
<1>1. CASE ChainStep
  <2>1. UNCHANGED <<failed, owner, expiring, sweep, marking, check, faults>>
    BY <1>1 DEF ChainStep, indexVars, workerVars
  <2>2. ASSUME NEW u \in Users, NEW items \in Batches, ListTokens(u, items)
        PROVE  kept' \in [Keys -> BOOLEAN]
    BY <2>2 DEF ListTokens, Keep, RestTyped
  <2>3. ASSUME NEW b \in Users, NEW u \in Users, NEW nft \in Nft, Sell(b, nft, u)
        PROVE  kept' \in [Keys -> BOOLEAN]
    BY <2>3 DEF Sell, Keep, RestTyped
  <2>4. ASSUME NEW nft \in Nft, NEW u \in Users, NEW v \in Users, Give(nft, u, v)
        PROVE  kept' \in [Keys -> BOOLEAN]
    BY <2>4 DEF Give, Keep, RestTyped
  <2>5. kept' \in [Keys -> BOOLEAN]
    BY <1>1, <2>2, <2>3, <2>4 DEF ChainStep, Reprice, Withdraw, SilentStep, RestTyped
  <2> QED
    BY <2>1, <2>5 DEF RestTyped
<1>2. CASE Dispatch
  BY <1>2 DEF Dispatch, RestTyped, workerVars
<1>3. CASE DispatchFails \/ Crash
  <2>1. faults' \in 0 .. MaxFaults
    BY <1>3, IndexAssumption DEF DispatchFails, Crash, MayFail, RestTyped
  <2> QED
    BY <1>3, <2>1 DEF DispatchFails, Crash, GiveBackRange, RestTyped, workerVars
<1>4. CASE StartRange \/ Commit \/ AbortRange
  BY <1>4 DEF StartRange, Commit, AbortRange, GiveBackRange, RestTyped, workerVars
<1>5. CASE SelectExpired \/ SelectUncleaned \/ MarkCleaned
  BY <1>5 DEF SelectExpired, SelectUncleaned, MarkCleaned, RestTyped, indexVars
<1>6. ASSUME NEW key \in Keys, DeactivateExpired(key) \/ SendClean(key)
      PROVE  RestTyped'
  BY <1>6 DEF DeactivateExpired, SendClean, RestTyped, indexVars
<1>7. ASSUME NEW key \in Keys, CleanFails(key)
      PROVE  RestTyped'
  <2>1. faults' \in 0 .. MaxFaults
    BY <1>7, IndexAssumption DEF CleanFails, MayFail, RestTyped
  <2> QED
    BY <1>7, <2>1 DEF CleanFails, RestTyped, indexVars
<1>8. ASSUME NEW key \in Keys, AskOwner(key)
      PROVE  RestTyped'
  <2>1. check' \in [key : Keys, owns : BOOLEAN]
    BY <1>8 DEF AskOwner
  <2> QED
    BY <1>8, <2>1 DEF AskOwner, RestTyped, indexVars
<1>9. CASE RepairRow
  <2>1. check \in [key : Keys, owns : BOOLEAN]
    BY <1>9 DEF RepairRow, RestTyped
  <2>2. PICK nft \in Nft, u \in Users : check.key = <<nft, u>>
    BY <2>1 DEF Keys
  <2>3. owner' = owner \/ owner' = [owner EXCEPT ![nft] = u]
    BY <1>9, <2>2 DEF RepairRow, EnsureListingSellerOwnership, OrphanListing
  <2>4. owner' \in [Nft -> Users \cup {NoAddr}]
    BY <2>3 DEF RestTyped
  <2> QED
    BY <1>9, <2>4 DEF RepairRow, RestTyped
<1>10. CASE UNCHANGED siteVars
  BY <1>10 DEF siteVars, indexVars, workerVars, RestTyped
<1> QED
  BY <1>1, <1>2, <1>3, <1>4, <1>5, <1>6, <1>7, <1>8, <1>9, <1>10
     DEF SiteNext, Indexer, ExpirySweeper, KeeperSweep, OwnershipCheck

IndexParts == RowsTyped /\ LogsTyped /\ LogIsTrue /\ InOrder /\ RangeIsHandled

\* Rows, logs and the range keep what is true of them in every step; of the
\* indexer's steps first.
LEMMA IndexerParts ==
    ASSUME SiteTyped, LogIsTrue, InOrder, RangeIsHandled, Indexer \/ Crash
    PROVE  IndexParts'
<1>1. RowsTyped /\ LogsTyped
  BY SiteTypedParts
<1>2. CASE StartRange
  <2>1. /\ LogIsTrue' /\ InOrder' /\ RangeIsHandled' /\ LogsTyped'
    BY <1>2, StartRangeIndex DEF LogsTyped
  <2> QED
    BY <1>1, <1>2, <2>1 DEF StartRange, RowsTyped, IndexParts
<1>3. CASE Dispatch
  <2>1. LogIsTrue' /\ InOrder' /\ RangeIsHandled' /\ RowsTyped'
    BY <1>3, DispatchIndex
  <2>2. LogsTyped'
    BY <1>1, <1>3 DEF Dispatch, LogsTyped
  <2> QED
    BY <2>1, <2>2 DEF IndexParts
<1>4. CASE DispatchFails
  <2>1. LogIsTrue' /\ InOrder' /\ RangeIsHandled'
    BY <1>4, DispatchFailsIndex
  <2>2. LogsTyped' /\ RowsTyped'
    BY <1>1, <1>4 DEF DispatchFails, LogsTyped, RowsTyped
  <2> QED
    BY <2>1, <2>2 DEF IndexParts
<1>5. CASE Commit
  <2>1. LogIsTrue' /\ InOrder' /\ RangeIsHandled'
    BY <1>5, CommitIndex
  <2>2. LogsTyped' /\ RowsTyped'
    BY <1>1, <1>5 DEF Commit, LogsTyped, RowsTyped
  <2> QED
    BY <2>1, <2>2 DEF IndexParts
<1>6. CASE AbortRange \/ Crash
  <2>1. GiveBackRange /\ UNCHANGED <<listings, rows>>
    BY <1>6 DEF AbortRange, Crash, chainVars, vars
  <2>2. /\ LogIsTrue' /\ InOrder' /\ RangeIsHandled'
        /\ chainLog' \in Seq(PricedEvent) /\ range' = <<>> /\ todo' = {}
    BY <2>1, GiveBackIndex
  <2>3. LogsTyped' /\ RowsTyped'
    BY <1>1, <2>1, <2>2 DEF LogsTyped, RowsTyped
  <2> QED
    BY <2>2, <2>3 DEF IndexParts
<1> QED
  BY <1>2, <1>3, <1>4, <1>5, <1>6 DEF Indexer

\* Then of the traders' and the workers' steps.
LEMMA OtherParts ==
    ASSUME TypeOK, PricesAsked, SiteTyped, LogIsTrue, InOrder, RangeIsHandled,
           \/ ChainStep \/ ExpirySweeper \/ KeeperSweep \/ OwnershipCheck
           \/ UNCHANGED siteVars
    PROVE  IndexParts'
<1>1. RowsTyped /\ LogsTyped
  BY SiteTypedParts
<1>2. ASSUME UNCHANGED <<range, todo, failed, rows>>, LogIsTrue',
             chainLog' \in Seq(PricedEvent)
      PROVE  IndexParts'
  <2>1. InOrder'
    BY <1>2 DEF InOrder, Calls
  <2>2. RangeIsHandled'
    BY <1>2, RowsStayHandled DEF ShowsNoMore
  <2>3. RowsTyped' /\ LogsTyped'
    BY <1>1, <1>2 DEF RowsTyped, LogsTyped
  <2> QED
    BY <1>2, <2>1, <2>2, <2>3 DEF IndexParts
<1>3. CASE ChainStep
  <2>1. UNCHANGED <<range, todo, failed, rows>>
    BY <1>3 DEF ChainStep, indexVars
  <2> QED
    BY <1>2, <1>3, <2>1, ChainStepIndex
<1>4. ASSUME NEW key \in Keys, SendClean(key)
      PROVE  IndexParts'
  <2>1. UNCHANGED <<range, todo, failed, rows>>
    BY <1>4 DEF SendClean, indexVars
  <2> QED
    BY <1>2, <1>4, <2>1, SendCleanIndex
<1>5. ASSUME UNCHANGED <<range, todo, failed, rows, chainLog, listings>>
      PROVE  IndexParts'
  <2>1. LogIsTrue'
    BY <1>5, RowsStayTrue DEF ShowsNoMore
  <2> QED
    BY <1>1, <1>2, <1>5, <2>1 DEF LogsTyped
<1>6. CASE \/ \E key \in Keys : DeactivateExpired(key)
           \/ MarkCleaned
           \/ RepairRow
  <2>1. UNCHANGED <<range, todo, failed, chainLog, listings>>
    BY <1>6 DEF DeactivateExpired, MarkCleaned, RepairRow, chainVars, vars
  <2>2. (\A key \in Keys : ShowsNoMore(key)) /\ RowsTyped'
    BY <1>6, WorkersHide
  <2>3. LogIsTrue' /\ RangeIsHandled'
    BY <2>1, <2>2, RowsStayTrue, RowsStayHandled
  <2>4. InOrder' /\ LogsTyped'
    BY <1>1, <2>1 DEF InOrder, Calls, LogsTyped
  <2> QED
    BY <2>2, <2>3, <2>4 DEF IndexParts
<1>7. CASE SelectExpired \/ SelectUncleaned \/ UNCHANGED siteVars
  <2>1. UNCHANGED <<range, todo, failed, rows, chainLog, listings>>
    BY <1>7 DEF SelectExpired, SelectUncleaned, siteVars, indexVars, chainVars, vars
  <2> QED
    BY <1>5, <2>1
<1>8. ASSUME NEW key \in Keys, CleanFails(key) \/ AskOwner(key)
      PROVE  IndexParts'
  <2>1. UNCHANGED <<range, todo, failed, rows, chainLog, listings>>
    BY <1>8 DEF CleanFails, AskOwner, indexVars, chainVars, vars
  <2> QED
    BY <1>5, <2>1
<1> QED
  BY <1>3, <1>4, <1>6, <1>7, <1>8 DEF ExpirySweeper, KeeperSweep, OwnershipCheck

LEMMA SiteInitIInv == SiteInit => IndexIInv
<1> SUFFICES ASSUME SiteInit PROVE IndexIInv
  OBVIOUS
<1>1. TypeOK /\ listings = [nft \in Nft |-> [s \in Address |-> NoListing]]
  BY InitIInv DEF SiteInit, IInv, Init
<1>2. PricesAsked
  BY <1>1 DEF PricesAsked, NoListing, Exists
<1>3. chainLog = <<>> /\ range = <<>> /\ todo = {} /\ failed = FALSE
      /\ rows = [key \in Keys |-> NoRow]
  BY DEF SiteInit
<1>4. SiteTyped
  <2>1. RowsTyped
    BY <1>3 DEF RowsTyped, NoRow, Row
  <2>2. LogsTyped
    BY <1>3 DEF LogsTyped
  <2>3. RestTyped
    <3>1. /\ owner \in [Nft -> Users \cup {NoAddr}] /\ kept \in [Keys -> BOOLEAN]
          /\ faults \in 0 .. MaxFaults
      BY IndexAssumption DEF SiteInit
    <3> QED
      BY <1>3, <3>1 DEF SiteInit, RestTyped
  <2> QED
    BY <2>1, <2>2, <2>3, SiteTypedParts
<1>5. LogIsTrue
  <2>1. Pending = <<>>
    BY <1>3, ConcatEmptySeq, EmptySeq DEF Pending
  <2>2. DOMAIN Pending = {}
    BY <2>1
  <2> QED
    BY <1>3, <2>2 DEF LogIsTrue, RowIsListing, NoRow
<1>6. InOrder /\ RangeIsHandled
  BY <1>3 DEF InOrder, Calls, RangeIsHandled
<1> QED
  BY <1>1, <1>2, <1>4, <1>5, <1>6 DEF IndexIInv

LEMMA SiteNextIInv == IndexIInv /\ [SiteNext]_siteVars => IndexIInv'
<1> SUFFICES ASSUME IndexIInv, [SiteNext]_siteVars PROVE IndexIInv'
  OBVIOUS
<1>1. TypeOK /\ PricesAsked /\ SiteTyped /\ LogIsTrue /\ InOrder /\ RangeIsHandled
  BY DEF IndexIInv
<1>2. TypeOK' /\ PricesAsked'
  BY <1>1, SiteStepIsStep, NextWorth, PricesAskedStep
<1>3. IndexParts'
  BY <1>1, IndexerParts, OtherParts DEF SiteNext
<1>4. RestTyped'
  <2>1. Dispatch => owner' \in [Nft -> Users \cup {NoAddr}]
    BY <1>1, DispatchIndex
  <2> QED
    BY <1>1, <2>1, SiteTypedParts, RestTypedStep
<1>5. SiteTyped'
  BY <1>3, <1>4, SiteTypedParts, PTL DEF IndexParts
<1> QED
  BY <1>2, <1>3, <1>5 DEF IndexIInv, IndexParts

\* Rows, logs and what the workers remember keep their types, whatever fails or
\* crashes, and no row is ever both shown and orphaned.
THEOREM SiteTypeCorrect == SiteSpec => []SiteTypeOK
<1>1. IndexIInv => SiteTypeOK
  BY DEF IndexIInv, SiteTyped
<1> QED
  BY <1>1, SiteInitIInv, SiteNextIInv, PTL DEF SiteSpec

\* Once the index has caught up every active row is a listing the contract has, at
\* the row's price and expiry, for every range the indexer takes, every failed
\* call, crash and replay, and whatever the sweepers did meanwhile.
THEOREM IndexIsRight == SiteSpec => []ActiveRowsAreListings
<1>1. IndexIInv => ActiveRowsAreListings
  <2> SUFFICES ASSUME IndexIInv, CaughtUp, NEW nft \in Nft, NEW u \in Users
               PROVE  RowIsListing(<<nft, u>>)
    BY DEF ActiveRowsAreListings, RowIsListing
  <2>1. Pending = <<>>
    BY ConcatEmptySeq, EmptySeq DEF CaughtUp, Pending
  <2>2. <<nft, u>> \in Keys /\ Silent(Pending, <<nft, u>>)
    BY <2>1 DEF Keys, Silent
  <2> QED
    BY <2>2 DEF IndexIInv, LogIsTrue
<1> QED
  BY <1>1, SiteInitIInv, SiteNextIInv, PTL DEF SiteSpec

\* The keeper's sweep never ends a running listing, however long ago it selected
\* the row (cleanExpired's own check of the expiry).
THEOREM SweepSpares == SiteSpec => SweepSparesRunning
<1>1. IndexIInv /\ [SiteNext]_siteVars =>
        [sweep' # sweep =>
           \A nft \in Nft, u \in Users :
              Live(listings[nft][u]) => listings'[nft][u] = listings[nft][u]]_siteVars
  <2> SUFFICES ASSUME IndexIInv, SiteNext, sweep' # sweep,
                      NEW nft \in Nft, NEW u \in Users, Live(listings[nft][u])
               PROVE  listings'[nft][u] = listings[nft][u]
    OBVIOUS
  <2>1. CASE listings' = listings
    BY <2>1
  <2>2. ASSUME NEW key \in Keys, SendClean(key)
        PROVE  listings'[nft][u] = listings[nft][u]
    <3>1. PICK t \in Nft, o \in Users : key = <<t, o>>
      BY DEF Keys
    <3>2. Expired(listings[t][o]) /\ Delete(t, o) /\ TypeOK
      BY <2>2, <3>1 DEF SendClean, CleanExpired, IndexIInv
    <3>3. t # nft \/ o # u
      <4>1. now \in Nat /\ \A k \in Nft, v \in Address : listings[k][v].expiresAt \in Nat
        BY <3>2 DEF TypeOK, Listing
      <4>2. now <= listings[nft][u].expiresAt /\ now > listings[t][o].expiresAt
        BY <3>2 DEF Expired, Live
      <4>3. u \in Address
        OBVIOUS
      <4> QED
        BY <4>1, <4>2, <4>3
    <3>4. <<nft, u>> \in Keys /\ <<nft, u>> # <<t, o>>
      BY <3>3 DEF Keys
    <3>5. \A k \in Keys : k # <<t, o>> => listings'[k[1]][k[2]] = listings[k[1]][k[2]]
      <4>1. PICK e : e = OtherEvent("Cancelled", t, o, NoAddr)
        OBVIOUS
      <4>2. e.type \in {"Cancelled", "Bought"}
        BY <4>1 DEF OtherEvent
      <4>3. /\ \A k \in Keys : k # <<t, o>> =>
                  listings'[k[1]][k[2]] = listings[k[1]][k[2]]
            /\ Tells(e, <<t, o>>)'
        BY <3>1, <3>2, <4>2, DeletedListing
      <4> QED
        BY <4>3
    <3> QED
      BY <3>4, <3>5
  <2>3. CASE ChainStep \/ Indexer \/ ExpirySweeper \/ OwnershipCheck
    BY <2>3 DEF ChainStep, Indexer, StartRange, Dispatch, DispatchFails, Commit,
       AbortRange, ExpirySweeper, SelectExpired, DeactivateExpired, OwnershipCheck,
       AskOwner, RepairRow, workerVars
  <2> QED
    BY <2>1, <2>2, <2>3 DEF SiteNext, KeeperSweep, SelectUncleaned, CleanFails,
       MarkCleaned, Crash, chainVars, vars
<1> QED
  BY <1>1, SiteInitIInv, SiteNextIInv, PTL DEF SiteSpec, SweepSparesRunning

=============================================================================

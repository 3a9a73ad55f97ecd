-------------------------- MODULE OfferBookProofs --------------------------
(***************************************************************************)
(* Proofs about OfferBook for every set of accounts, collections, offers   *)
(* and durations, and any bound on the clock and on the recorded sales.    *)
(***************************************************************************)
EXTENDS OfferBook, MarketplaceCoreProofs

USE CoreAssumption, BookAssumption

----------------------------------------------------------------------------
(* Escrow                                                                  *)

\* There are finitely many tokens, so the escrow of an account is a sum.
LEMMA NftFinite == IsFiniteSet(Nft)
  BY FS_Product DEF Nft

\* The escrow of an account is an integer.
LEMMA EscrowType ==
    ASSUME TypeOK, NEW a \in Address
    PROVE  Escrow(a) \in Int
<1>1. [nft \in Nft |-> positions[nft][a].principal] \in [Nft -> Int]
  BY DEF TypeOK, Position
<1> QED
  BY <1>1, NftFinite, SumType DEF Escrow

\* A call that touches one position changes what its bidder has in escrow by
\* the change of that principal.
LEMMA EscrowUpdate ==
    ASSUME TypeOK, TypeOK', NEW a \in Address, NEW nft \in Nft,
           \A other \in Nft \ {nft} : positions'[other][a] = positions[other][a]
    PROVE  Escrow(a)' = Escrow(a) + positions'[nft][a].principal
                                  - positions[nft][a].principal
<1> DEFINE before == [n \in Nft |-> positions[n][a].principal]
           after == [n \in Nft |-> positions'[n][a].principal]
<1>1. before \in [Nft -> Int] /\ after \in [Nft -> Int]
  BY DEF TypeOK, Position
<1>2. \A n \in Nft \ {nft} : after[n] = before[n]
  OBVIOUS
<1>3. /\ before[nft] = positions[nft][a].principal
      /\ after[nft] = positions'[nft][a].principal
  OBVIOUS
<1>4. Escrow(a) = SumFunctionOnSet(before, Nft)
  BY DEF Escrow
<1>5. Escrow(a)' = SumFunctionOnSet(after, Nft)
  BY DEF Escrow
<1> HIDE DEF before, after
<1>6. SumFunctionOnSet(after, Nft)
         = SumFunctionOnSet(before, Nft) + after[nft] - before[nft]
  BY <1>1, <1>2, NftFinite, SumUpdate
<1> QED
  BY <1>3, <1>4, <1>5, <1>6

\* A call that touches no position of an account leaves its escrow alone.
LEMMA EscrowSame ==
    ASSUME NEW a \in Address,
           \A nft \in Nft : positions'[nft][a] = positions[nft][a]
    PROVE  Escrow(a)' = Escrow(a)
<1>1. [n \in Nft |-> positions'[n][a].principal]
         = [n \in Nft |-> positions[n][a].principal]
  OBVIOUS
<1> QED
  BY <1>1 DEF Escrow

\* What an account holds, is owed and has on offer, less what its sales gained.
Stake(a) == Worth(funds, a) + Escrow(a) - earned[a]

\* One position replaced by another.
LEMMA PositionStep ==
    ASSUME TypeOK, NEW b \in Address, NEW nft \in Nft, NEW p \in Position,
           positions' = [positions EXCEPT ![nft][b] = p], TypeOK'
    PROVE  \A a \in Address :
              /\ Escrow(a) \in Int
              /\ Escrow(a)' = Escrow(a) + (IF a = b
                    THEN p.principal - positions[nft][b].principal ELSE 0)
<1> SUFFICES ASSUME NEW a \in Address
             PROVE  /\ Escrow(a) \in Int
                    /\ Escrow(a)' = Escrow(a) + (IF a = b
                          THEN p.principal - positions[nft][b].principal ELSE 0)
  OBVIOUS
<1>1. Escrow(a) \in Int
  BY EscrowType
<1>2. CASE a = b
  <2>1. /\ positions'[nft][a] = p
        /\ \A other \in Nft \ {nft} : positions'[other][a] = positions[other][a]
    BY <1>2 DEF TypeOK
  <2>2. Escrow(a)' = Escrow(a) + p.principal - positions[nft][a].principal
    BY <2>1, EscrowUpdate
  <2>3. p.principal \in Nat /\ positions[nft][b].principal \in Nat
    BY DEF TypeOK, Position
  <2> QED
    BY <1>1, <1>2, <2>2, <2>3
<1>3. CASE a # b
  <2>1. \A n \in Nft : positions'[n][a] = positions[n][a]
    BY <1>3 DEF TypeOK
  <2> QED
    BY <1>1, <1>3, <2>1, EscrowSame
<1> QED
  BY <1>1, <1>2, <1>3

----------------------------------------------------------------------------
(* One lemma per call                                                      *)

\* An empty slot is a position like any other.
LEMMA NoPositionType == NoPosition \in Position
  BY DEF NoPosition, Position, Standard

\* makeOffer, makeOffer1155: the principal of the new position comes out of
\* the bidder's wallet, the one it replaces goes back to the bidder.
LEMMA MakeOfferStep ==
    ASSUME TypeOK, NEW b \in Users, NEW nft \in Nft, NEW std \in Standard,
           NEW pr \in Principals, NEW n \in UnitCounts, NEW d \in Durations,
           NEW ok, MakeOffer(b, nft, std, pr, n, d, ok)
    PROVE  TypeOK' /\ \A a \in Address : Stake(a)' = Stake(a)
<1> DEFINE old == positions[nft][b]
           new == [principal |-> pr, units |-> n, standard |-> std,
                   expiresAt |-> ExpiryOfOffer(old, d)]
           paid == Deposit(funds, b, pr)
<1>1. /\ old \in Position /\ old.principal \in Nat /\ old.expiresAt \in Nat
      /\ b \in Address /\ pr \in Nat /\ n \in Nat /\ d \in Nat
      /\ funds \in Funds /\ now \in Nat
      /\ pr <= funds.wallet[b]
  <2>1. old \in Position /\ b \in Address
    BY DEF TypeOK
  <2>2. old.principal \in Nat /\ old.expiresAt \in Nat
    BY <2>1 DEF Position
  <2>3. funds \in Funds /\ now \in Nat /\ pr <= funds.wallet[b]
    BY DEF TypeOK, MakeOffer
  <2> QED
    BY <2>1, <2>2, <2>3
<1>2. ExpiryOfOffer(old, d) \in Nat
  BY <1>1 DEF ExpiryOfOffer, ExpiryFor
<1>3. new \in Position
  BY <1>1, <1>2 DEF Position
<1>4. positions' = [positions EXCEPT ![nft][b] = new]
  BY DEF MakeOffer
<1>5. funds' = IF old.principal > 0 THEN Pay(paid, b, old.principal, ok) ELSE paid
  BY DEF MakeOffer
<1> HIDE DEF new
<1>6. paid \in Funds
  BY <1>1, DepositType
<1>7. \A a \in Address :
         Worth(paid, a) = Worth(funds, a) - (IF a = b THEN pr ELSE 0)
  BY <1>1, DepositWorth
<1> HIDE DEF paid
<1>8. /\ funds' \in Funds
      /\ \A a \in Address :
            Worth(funds', a) = Worth(paid, a) + (IF a = b THEN old.principal ELSE 0)
  <2>1. CASE old.principal > 0
    <3>1. Pay(paid, b, old.principal, ok) \in Funds
      BY <1>1, <1>6, PayType
    <3>2. \A a \in Address :
             Worth(Pay(paid, b, old.principal, ok), a)
                = Worth(paid, a) + (IF a = b THEN old.principal ELSE 0)
      BY <1>1, <1>6, PayWorth
    <3> QED
      BY <1>5, <2>1, <3>1, <3>2
  <2>2. CASE old.principal = 0
    <3>1. \A a \in Address : Worth(paid, a) \in Nat
      BY <1>6, WorthType
    <3> QED
      BY <1>5, <1>6, <2>2, <3>1
  <2> QED
    BY <1>1, <2>1, <2>2
<1>9. TypeOK'
  <2>1. positions' \in [Nft -> [Address -> Position]]
    BY <1>1, <1>3, <1>4 DEF TypeOK
  <2> QED
    BY <1>8, <2>1 DEF TypeOK, MakeOffer, tokenVars
<1>10. \A a \in Address :
          /\ Escrow(a) \in Int
          /\ Escrow(a)' = Escrow(a) + (IF a = b THEN new.principal - old.principal ELSE 0)
  BY <1>1, <1>3, <1>4, <1>9, PositionStep
<1>11. new.principal = pr
  BY DEF new
<1>12. ASSUME NEW a \in Address PROVE Stake(a)' = Stake(a)
  <2>1. /\ Worth(funds, a) \in Nat /\ earned[a] \in Int
        /\ earned' = earned
    BY <1>1, WorthType DEF TypeOK, MakeOffer
  <2> QED
    BY <1>1, <1>7, <1>8, <1>10, <1>11, <2>1 DEF Stake
<1> QED
  BY <1>9, <1>12

\* acceptOffer: the escrowed principal becomes the seller's proceeds and the
\* fee's two cuts; the sale events say so.
LEMMA AcceptOfferStep ==
    ASSUME TypeOK, NEW s \in Users, NEW b \in Users, NEW nft \in Nft,
           NEW e \in Principals, NEW okP, NEW okK, NEW okS,
           AcceptOffer(s, nft, b, e, okP, okK, okS)
    PROVE  TypeOK' /\ \A a \in Address : Stake(a)' = Stake(a)
<1> DEFINE p == positions[nft][b]
           pr == p.principal
           fee == FeeOf(pr)
<1>1. /\ p \in Position /\ pr \in Nat /\ p.units \in Nat
      /\ b \in Address /\ s \in Address
      /\ funds \in Funds /\ keeper \in Address
      /\ balance[nft] \in [Address -> Nat]
      /\ p.units <= balance[nft][s]
      /\ sold[nft][b] + pr <= MaxSold
      /\ sold[nft][b] \in Nat
  BY DEF TypeOK, Position, AcceptOffer, Holds
<1>2. /\ positions' = [positions EXCEPT ![nft][b] = NoPosition]
      /\ balance' = [balance EXCEPT ![nft] = Moved(balance[nft], s, b, p.units)]
      /\ funds' = Pay(PayFee(funds, fee, okP, okK), s, pr - fee, okS)
      /\ sold' = [sold EXCEPT ![nft][b] = sold[nft][b] + pr]
      /\ earned' = [a \in Address |-> earned[a] + NetOfSale(a, s, b, pr)]
      /\ UNCHANGED <<keeper, now, eligible>>
      /\ approved' \subseteq Nft \X Users
  BY DEF AcceptOffer, Delete, TypeOK
<1>3. /\ fee \in Nat /\ pr - fee \in Nat
      /\ KeeperCut(fee) \in Nat /\ PlatformCut(fee) \in Nat
  BY <1>1, FeeCutTypes
<1>4. /\ funds' \in Funds
      /\ \A a \in Address :
            Worth(funds', a)
               = Worth(funds, a)
                 + (IF a = s THEN pr - fee ELSE 0)
                 + (IF a = FeeRecipient THEN PlatformCut(fee) ELSE 0)
                 + (IF a = keeper THEN KeeperCut(fee) ELSE 0)
  BY <1>1, <1>2, ProceedsWorth
<1>5. \A a \in Address :
         NetOfSale(a, s, b, pr)
            = (IF a = s THEN pr - fee ELSE 0)
              + (IF a = FeeRecipient THEN PlatformCut(fee) ELSE 0)
              + (IF a = keeper THEN KeeperCut(fee) ELSE 0)
              - (IF a = b THEN pr ELSE 0)
  BY DEF NetOfSale
<1> HIDE DEF fee, pr
<1>6. TypeOK'
  <2>1. positions' \in [Nft -> [Address -> Position]]
    BY <1>2, NoPositionType DEF TypeOK
  <2>2. balance' \in [Nft -> [Address -> Nat]]
    <3>1. Moved(balance[nft], s, b, p.units) \in [Address -> Nat]
      BY <1>1, MovedType
    <3> QED
      BY <1>2, <3>1 DEF TypeOK
  <2>3. sold' \in [Nft -> [Address -> 0 .. MaxSold]]
    BY <1>1, <1>2 DEF TypeOK
  <2>4. earned' \in [Address -> Int]
    <3>1. ASSUME NEW a \in Address PROVE NetOfSale(a, s, b, pr) \in Int
      <4>1. pr \in Int
        BY <1>1
      <4> QED
        BY <1>3, <1>5, <4>1
    <3> QED
      BY <1>2, <3>1 DEF TypeOK
  <2> QED
    BY <1>2, <1>4, <2>1, <2>2, <2>3, <2>4 DEF TypeOK
<1>7. \A a \in Address :
         /\ Escrow(a) \in Int
         /\ Escrow(a)' = Escrow(a) + (IF a = b THEN 0 - pr ELSE 0)
  <2>1. \A a \in Address :
           /\ Escrow(a) \in Int
           /\ Escrow(a)' = Escrow(a)
                 + (IF a = b THEN NoPosition.principal - positions[nft][b].principal ELSE 0)
    BY <1>1, <1>2, <1>6, NoPositionType, PositionStep
  <2> QED
    BY <2>1 DEF NoPosition, pr
<1>8. ASSUME NEW a \in Address PROVE Stake(a)' = Stake(a)
  <2>1. /\ Worth(funds, a) \in Nat /\ earned[a] \in Int
        /\ earned'[a] = earned[a] + NetOfSale(a, s, b, pr)
    BY <1>1, <1>2, WorthType DEF TypeOK
  <2> QED
    BY <1>1, <1>3, <1>4, <1>5, <1>7, <2>1 DEF Stake
<1> QED
  BY <1>6, <1>8

\* The three refunds: the whole principal leaves the escrow for the bidder's
\* wallet, or for the bidder's credit when the push is refused.
LEMMA RefundStep ==
    ASSUME TypeOK, NEW b \in Users, NEW nft \in Nft, NEW ok, Refund(nft, b, ok)
    PROVE  TypeOK' /\ \A a \in Address : Stake(a)' = Stake(a)
<1> DEFINE pr == positions[nft][b].principal
<1>1. /\ pr \in Nat /\ b \in Address /\ funds \in Funds
      /\ positions' = [positions EXCEPT ![nft][b] = NoPosition]
      /\ funds' = Pay(funds, b, pr, ok)
      /\ UNCHANGED <<keeper, now, eligible, sold, earned, tokenVars>>
  BY DEF TypeOK, Position, Refund, Delete
<1>2. funds' \in Funds
  BY <1>1, PayType
<1>3. \A a \in Address :
         Worth(funds', a) = Worth(funds, a) + (IF a = b THEN pr ELSE 0)
  BY <1>1, PayWorth
<1>4. TypeOK'
  <2>1. positions' \in [Nft -> [Address -> Position]]
    BY <1>1, NoPositionType DEF TypeOK
  <2> QED
    BY <1>1, <1>2, <2>1 DEF TypeOK, tokenVars
<1>5. \A a \in Address :
         /\ Escrow(a) \in Int
         /\ Escrow(a)' = Escrow(a) + (IF a = b THEN NoPosition.principal - pr ELSE 0)
  BY <1>1, <1>4, NoPositionType, PositionStep
<1>6. ASSUME NEW a \in Address PROVE Stake(a)' = Stake(a)
  <2>1. /\ Worth(funds, a) \in Nat /\ earned[a] \in Int
        /\ NoPosition.principal = 0
    BY <1>1, WorthType DEF TypeOK, NoPosition
  <2> HIDE DEF pr
  <2> QED
    BY <1>1, <1>3, <1>5, <2>1 DEF Stake
<1> QED
  BY <1>4, <1>6

\* Withdrawals, keeper rotation, time, token transfers and approvals touch no
\* position and no account's stake.
LEMMA EnvironmentStep ==
    ASSUME TypeOK, Environment
    PROVE  /\ TypeOK'
           /\ \A a \in Address : Stake(a)' = Stake(a)
           /\ UNCHANGED <<positions, sold>>
<1>1. ASSUME NEW u \in Address, WithdrawRefund(u), UNCHANGED <<bookVars, tokenVars>>
      PROVE  /\ TypeOK'
             /\ UNCHANGED <<positions, earned, sold>>
             /\ \A a \in Address : Worth(funds', a) = Worth(funds, a)
  <2>1. /\ funds' \in Funds
        /\ \A a \in Address : Worth(funds', a) = Worth(funds, a)
    BY <1>1, WithdrawRefundWorth DEF TypeOK
  <2> QED
    BY <1>1, <2>1 DEF TypeOK, WithdrawRefund, bookVars, tokenVars
<1>2. ASSUME NEW k \in Keepers, SetKeeper(k), UNCHANGED <<bookVars, tokenVars>>
      PROVE  TypeOK' /\ UNCHANGED <<funds, positions, earned, sold>>
  BY <1>2 DEF TypeOK, SetKeeper, bookVars, tokenVars
<1>3. ASSUME Tick, UNCHANGED <<bookVars, tokenVars>>
      PROVE  TypeOK' /\ UNCHANGED <<funds, positions, earned, sold>>
  BY <1>3 DEF TypeOK, Tick, bookVars, tokenVars
<1>4. ASSUME NEW nft \in Nft, NEW u \in Users, NEW v \in Users, TokenMove(nft, u, v)
      PROVE  TypeOK' /\ UNCHANGED <<funds, positions, earned, sold>>
  <2>1. Moved(balance[nft], u, v, 1) \in [Address -> Nat]
    <3>1. balance[nft] \in [Address -> Nat] /\ 1 <= balance[nft][u]
      BY <1>4 DEF TypeOK, TokenMove
    <3> QED
      BY <3>1, MovedType
  <2>2. balance' \in [Nft -> [Address -> Nat]]
    BY <1>4, <2>1 DEF TypeOK, TokenMove
  <2> QED
    BY <1>4, <2>2 DEF TypeOK, TokenMove, coreVars, bookVars
<1>5. ASSUME NEW nft \in Nft, NEW u \in Users, Approve(nft, u)
      PROVE  TypeOK' /\ UNCHANGED <<funds, positions, earned, sold>>
  BY <1>5 DEF TypeOK, Approve, coreVars, bookVars
<1>6. /\ TypeOK'
      /\ UNCHANGED <<positions, earned, sold>>
      /\ \A a \in Address : Worth(funds', a) = Worth(funds, a)
  BY <1>1, <1>2, <1>3, <1>4, <1>5 DEF Environment
<1>7. \A a \in Address : Escrow(a)' = Escrow(a)
  BY <1>6 DEF Escrow
<1> QED
  BY <1>6, <1>7 DEF Stake

\* setOfferEligible, and a step that changes nothing.
LEMMA EligibleStep ==
    ASSUME TypeOK,
           \/ \E u \in Users, c \in Collections, flag \in BOOLEAN :
                 SetOfferEligible(u, c, flag)
           \/ UNCHANGED vars
    PROVE  /\ TypeOK'
           /\ \A a \in Address : Stake(a)' = Stake(a)
           /\ UNCHANGED <<positions, sold>>
<1>1. TypeOK' /\ UNCHANGED <<funds, positions, earned, sold>>
  <2>1. ASSUME NEW u \in Users, NEW c \in Collections, NEW flag \in BOOLEAN,
               SetOfferEligible(u, c, flag)
        PROVE  TypeOK' /\ UNCHANGED <<funds, positions, earned, sold>>
    BY <2>1 DEF TypeOK, SetOfferEligible, coreVars, tokenVars
  <2>2. CASE UNCHANGED vars
    BY <2>2 DEF TypeOK, vars, coreVars, bookVars, tokenVars
  <2> QED
    BY <2>1, <2>2
<1>2. \A a \in Address : Escrow(a)' = Escrow(a)
  BY <1>1 DEF Escrow
<1> QED
  BY <1>1, <1>2 DEF Stake

----------------------------------------------------------------------------
(* The two invariants                                                      *)

\* A new book is well typed, holds no escrow and owes nothing.
LEMMA InitIInv == Init => TypeOK /\ EveryWeiAccounted
<1> SUFFICES ASSUME Init PROVE TypeOK /\ EveryWeiAccounted
  OBVIOUS
<1>1. TypeOK
  BY NoPositionType DEF Init, TypeOK, Funds, Nft
<1>2. ASSUME NEW a \in Address PROVE Escrow(a) = 0
  <2> DEFINE g == [nft \in Nft |-> positions[nft][a].principal]
  <2>1. g \in [Nft -> Int] /\ \A nft \in Nft : g[nft] = 0
    BY DEF Init, NoPosition
  <2>2. Escrow(a) = SumFunctionOnSet(g, Nft)
    BY DEF Escrow
  <2> HIDE DEF g
  <2> QED
    BY <2>1, <2>2, NftFinite, SumZero
<1>3. EveryWeiAccounted
  <2>1. ASSUME NEW a \in Address
        PROVE  funds.wallet[a] + funds.pendingReturns[a] + Escrow(a)
                  = InitialWallet[a] + earned[a]
    <3>1. /\ funds.wallet[a] = InitialWallet[a]
          /\ funds.pendingReturns[a] = 0
          /\ earned[a] = 0
          /\ InitialWallet[a] \in Nat
      BY DEF Init
    <3>2. Escrow(a) = 0
      BY <1>2
    <3> QED
      BY <3>1, <3>2
  <2> QED
    BY <2>1 DEF EveryWeiAccounted
<1> QED
  BY <1>1, <1>3

\* No transaction changes what an account holds, is owed and has on offer, but
\* for what its sales gained.
LEMMA NextStake ==
    ASSUME TypeOK, [Next]_vars
    PROVE  TypeOK' /\ \A a \in Address : Stake(a)' = Stake(a)
<1>1. CASE MakeSomeOffer
  BY <1>1, MakeOfferStep DEF MakeSomeOffer
<1>2. ASSUME NEW u \in Users, NEW b \in Users, NEW nft \in Nft, NEW e \in Principals,
             AcceptFor(u, nft, b, e)
      PROVE  TypeOK' /\ \A a \in Address : Stake(a)' = Stake(a)
  BY <1>2, AcceptOfferStep DEF AcceptFor
<1>3. CASE RefundSome
  BY <1>3, RefundStep DEF RefundSome, RefundExpiredOffer, CancelOffer, RejectOffer
<1> QED
  BY <1>1, <1>2, <1>3, EnvironmentStep, EligibleStep DEF Next

\* The two invariants are inductive together.
LEMMA NextIInv ==
    TypeOK /\ EveryWeiAccounted /\ [Next]_vars => TypeOK' /\ EveryWeiAccounted'
<1> SUFFICES ASSUME TypeOK, EveryWeiAccounted, [Next]_vars
             PROVE  TypeOK' /\ EveryWeiAccounted'
  OBVIOUS
<1>1. TypeOK' /\ \A a \in Address : Stake(a)' = Stake(a)
  BY NextStake
<1>2. ASSUME NEW a \in Address
      PROVE  funds'.wallet[a] + funds'.pendingReturns[a] + Escrow(a)'
                = InitialWallet[a] + earned'[a]
  <2> DEFINE w == Worth(funds, a)
             v == Worth(funds', a)
             e == Escrow(a)
             f == Escrow(a)'
             i == InitialWallet[a]
             g == earned[a]
             h == earned'[a]
  <2>1. e \in Int
    BY EscrowType
  <2>2. f \in Int
    <3>1. [nft \in Nft |-> positions'[nft][a].principal] \in [Nft -> Int]
      BY <1>1 DEF TypeOK, Position
    <3> QED
      BY <3>1, NftFinite, SumType DEF Escrow
  <2>3. w \in Int /\ v \in Int /\ g \in Int /\ h \in Int /\ i \in Int
    BY <1>1, WorthType DEF TypeOK
  <2>4. w + e = i + g
    BY DEF EveryWeiAccounted, Worth
  <2>5. v + f - h = w + e - g
    BY <1>1 DEF Stake
  <2> HIDE DEF w, v, e, f, i, g, h
  <2>6. v + f = i + h
    BY <2>1, <2>2, <2>3, <2>4, <2>5
  <2> QED
    BY <2>6 DEF v, f, i, h, Worth
<1> QED
  BY <1>1, <1>2 DEF EveryWeiAccounted

\* Every reachable state is well typed: no position, balance or credit ever
\* goes below zero and no slot records sales beyond the bound.
THEOREM TypeCorrect == Spec => []TypeOK
  BY InitIInv, NextIInv, PTL DEF Spec

\* Every wei of every account is accounted for, on offer, owed or held, for
\* any number of positions, edits, refused pushes, refunds and sales (_makeOffer,
\* acceptOffer, refundExpiredOffer, cancelOffer, rejectOffer, _pay).
THEOREM BooksBalance == Spec => []EveryWeiAccounted
  BY InitIInv, NextIInv, PTL DEF Spec

----------------------------------------------------------------------------
(* Each position implements EscrowSlot                                     *)

SlotStep(nft, b) == Slot(nft, b)!Next \/ UNCHANGED Slot(nft, b)!vars

\* A position no call touched has stuttered.
LEMMA SlotStutter ==
    ASSUME NEW nft \in Nft, NEW b \in Address,
           positions'[nft][b] = positions[nft][b], sold'[nft][b] = sold[nft][b]
    PROVE  SlotStep(nft, b)
  BY DEF SlotStep, Slot!vars

\* makeOffer and makeOffer1155 open a slot, or reprice it under its deadline.
LEMMA MakeOfferIsOfferOrReprice ==
    ASSUME TypeOK, NEW b \in Users, NEW nft \in Nft, NEW std \in Standard,
           NEW pr \in Principals, NEW n \in UnitCounts, NEW d \in Durations,
           NEW ok, MakeOffer(b, nft, std, pr, n, d, ok),
           NEW m \in Nft, NEW a \in Address
    PROVE  SlotStep(m, a)
<1> DEFINE old == positions[nft][b]
           new == [principal |-> pr, units |-> n, standard |-> std,
                   expiresAt |-> ExpiryOfOffer(old, d)]
<1>1. /\ positions' = [positions EXCEPT ![nft][b] = new]
      /\ sold' = sold
      /\ pr >= MinPrice
      /\ now < ExpiryOfOffer(old, d)
      /\ positions \in [Nft -> [Address -> Position]]
  BY DEF MakeOffer, TypeOK
<1>2. CASE m = nft /\ a = b
  <2>1. positions'[m][a] = new /\ sold'[m][a] = sold[m][a]
    BY <1>1, <1>2
  <2>2. /\ positions'[m][a].principal = pr
        /\ positions'[m][a].expiresAt = ExpiryOfOffer(old, d)
    BY <2>1
  <2>3. old.principal \in Nat /\ old.expiresAt \in Nat /\ pr \in Nat /\ now \in Nat
    BY <1>2 DEF TypeOK, Position
  <2>4. CASE old.principal > 0
    <3>1. ExpiryOfOffer(old, d) = old.expiresAt
      BY <2>4 DEF ExpiryOfOffer
    <3>2. Slot(m, a)!Reprice
      BY <1>1, <1>2, <2>1, <2>2, <2>4, <3>1 DEF Slot!Reprice
    <3> QED
      BY <3>2 DEF SlotStep, Slot!Next
  <2>5. CASE old.principal = 0
    <3>1. Slot(m, a)!Offer
      <4>1. ExpiryOfOffer(old, d) > now
        BY <1>1, <2>3 DEF ExpiryOfOffer, ExpiryFor
      <4> QED
        BY <1>1, <1>2, <2>1, <2>2, <2>5, <4>1 DEF Slot!Offer
    <3> QED
      BY <3>1 DEF SlotStep, Slot!Next
  <2> QED
    BY <2>3, <2>4, <2>5
<1>3. CASE m # nft \/ a # b
  <2>1. positions'[m][a] = positions[m][a]
    BY <1>1, <1>3
  <2> QED
    BY <1>1, <2>1, SlotStutter
<1> QED
  BY <1>2, <1>3

\* acceptOffer trades one slot, before its deadline and for its principal.
LEMMA AcceptOfferIsTrade ==
    ASSUME TypeOK, NEW s \in Users, NEW b \in Users, NEW nft \in Nft,
           NEW e \in Principals, NEW okP, NEW okK, NEW okS,
           AcceptOffer(s, nft, b, e, okP, okK, okS),
           NEW m \in Nft, NEW a \in Address
    PROVE  SlotStep(m, a)
<1> DEFINE p == positions[nft][b]
<1>1. /\ positions' = [positions EXCEPT ![nft][b] = NoPosition]
      /\ sold' = [sold EXCEPT ![nft][b] = sold[nft][b] + p.principal]
      /\ p.principal > 0
      /\ now < p.expiresAt
      /\ positions \in [Nft -> [Address -> Position]]
      /\ sold \in [Nft -> [Address -> 0 .. MaxSold]]
  BY DEF AcceptOffer, Delete, TermsStand, TypeOK
<1>2. CASE m = nft /\ a = b
  <2>1. /\ positions'[m][a] = NoPosition
        /\ sold'[m][a] = sold[m][a] + p.principal
    BY <1>1, <1>2
  <2>2. positions'[m][a].principal = 0
    BY <2>1 DEF NoPosition
  <2>3. Slot(m, a)!Trade
    BY <1>1, <1>2, <2>1, <2>2 DEF Slot!Trade
  <2> QED
    BY <2>3 DEF SlotStep, Slot!Next
<1>3. CASE m # nft \/ a # b
  <2>1. positions'[m][a] = positions[m][a] /\ sold'[m][a] = sold[m][a]
    BY <1>1, <1>3
  <2> QED
    BY <2>1, SlotStutter
<1> QED
  BY <1>2, <1>3

\* Each of the three refunds gives one slot back.
LEMMA RefundIsGiveBack ==
    ASSUME TypeOK, NEW b \in Users, NEW nft \in Nft, NEW ok, Refund(nft, b, ok),
           NEW m \in Nft, NEW a \in Address
    PROVE  SlotStep(m, a)
<1>1. /\ positions' = [positions EXCEPT ![nft][b] = NoPosition]
      /\ sold' = sold
      /\ positions[nft][b].principal > 0
      /\ positions \in [Nft -> [Address -> Position]]
  BY DEF Refund, Delete, TypeOK
<1>2. CASE m = nft /\ a = b
  <2>1. positions'[m][a] = NoPosition
    BY <1>1, <1>2
  <2>2. positions'[m][a].principal = 0
    BY <2>1 DEF NoPosition
  <2>3. Slot(m, a)!GiveBack
    BY <1>1, <1>2, <2>2 DEF Slot!GiveBack
  <2> QED
    BY <2>3 DEF SlotStep, Slot!Next
<1>3. CASE m # nft \/ a # b
  <2>1. positions'[m][a] = positions[m][a]
    BY <1>1, <1>3
  <2> QED
    BY <1>1, <2>1, SlotStutter
<1> QED
  BY <1>2, <1>3

\* Every transaction is a step of every slot, or no step of it.
LEMMA NextIsSlotStep ==
    ASSUME TypeOK, [Next]_vars
    PROVE  \A nft \in Nft, b \in Address : SlotStep(nft, b)
<1> SUFFICES ASSUME NEW m \in Nft, NEW a \in Address PROVE SlotStep(m, a)
  OBVIOUS
<1>1. CASE MakeSomeOffer
  BY <1>1, MakeOfferIsOfferOrReprice DEF MakeSomeOffer
<1>2. ASSUME NEW u \in Users, NEW b \in Users, NEW nft \in Nft, NEW e \in Principals,
             AcceptFor(u, nft, b, e)
      PROVE  SlotStep(m, a)
  BY <1>2, AcceptOfferIsTrade DEF AcceptFor
<1>3. CASE RefundSome
  BY <1>3, RefundIsGiveBack DEF RefundSome, RefundExpiredOffer, CancelOffer, RejectOffer
<1>4. CASE UNCHANGED <<positions, sold>>
  BY <1>4, SlotStutter
<1> QED
  BY <1>1, <1>2, <1>3, <1>4, EnvironmentStep, EligibleStep DEF Next

\* The book refines one EscrowSlot per token and bidder: one deadline from the
\* offer to the trade, the whole principal traded or given back, and never one
\* position disturbed by a call about another (_makeOffer, acceptOffer,
\* refundExpiredOffer, cancelOffer, rejectOffer).
THEOREM PositionsAreSlots == Spec => EveryPositionIsASlot
<1>1. Init => \A nft \in Nft, b \in Address : Slot(nft, b)!Init
  BY DEF Init, Slot!Init, NoPosition
<1>2. TypeOK /\ [Next]_vars
         => [\A nft \in Nft, b \in Address :
                Slot(nft, b)!Next \/ UNCHANGED Slot(nft, b)!vars]_vars
  BY NextIsSlotStep DEF SlotStep
<1> QED
  BY <1>1, <1>2, TypeCorrect, PTL DEF Spec, EveryPositionIsASlot
=============================================================================

------------------------ MODULE MarketplaceCoreProofs ------------------------
(***************************************************************************)
(* What the proofs about the three cores share: sums over a finite set, by *)
(* which escrow is counted, the arithmetic of the fee, and what a deposit  *)
(* and a payment do to what an account holds and is owed.                  *)
(***************************************************************************)
EXTENDS MarketplaceCore, FiniteSetsExt, FiniteSetTheorems,
        WellFoundedInduction, TLAPS

----------------------------------------------------------------------------
(* Sums over a finite set                                                  *)

\* The element the folds take out of a set first.
Pick(s) == CHOOSE x \in s : TRUE

\* A set of naturals that holds zero and every successor is Nat: induction with
\* a set in the place of a predicate, from the well-foundedness of <.
LEMMA NatInductionSet ==
    ASSUME NEW P \in SUBSET Nat, 0 \in P, \A n \in P : n + 1 \in P
    PROVE  P = Nat
<1>1. SUFFICES ASSUME Nat \ P # {} PROVE FALSE
  OBVIOUS
<1>2. \A m, n \in Nat : m < n => <<m, n>> \in OpToRel(<, Nat)
  BY Zenon DEF OpToRel
<1>3. \E n \in Nat \ P : \A m \in Nat \ P : ~ (m < n)
  <2>1. Nat \ P \subseteq Nat
    OBVIOUS
  <2>2. \E n \in Nat \ P : \A m \in Nat \ P : ~ (<<m, n>> \in OpToRel(<, Nat))
    BY <1>1, <2>1, NatLessThanWellFounded, WFMin, Zenon
  <2> QED
    BY <1>2, <2>2, Zenon
<1>4. PICK n \in Nat \ P : \A m \in Nat \ P : ~ (m < n)
  BY <1>3
<1>5. n # 0 /\ n - 1 \in Nat
  BY <1>4
<1> QED
  BY <1>4, <1>5

\* Taking the picked element away makes a finite set smaller by one.
LEMMA SubsetCardinality ==
    ASSUME NEW S, IsFiniteSet(S), NEW s \in SUBSET S
    PROVE  /\ Cardinality(s) \in Nat
           /\ s # {} => /\ Pick(s) \in s
                        /\ Cardinality(s) # 0
                        /\ Cardinality(s \ {Pick(s)}) = Cardinality(s) - 1
<1>1. IsFiniteSet(s) /\ Cardinality(s) \in Nat
  BY FS_Subset, FS_CardinalityType
<1>2. s # {} => Pick(s) \in s
  BY DEF Pick
<1> QED
  BY <1>1, <1>2, FS_EmptySet, FS_RemoveElement

\* A family of subsets that holds the empty set, and every set whose rest it
\* holds, is all of them: the order in which the library's folds take a set
\* apart.
LEMMA SubsetInduction ==
    ASSUME NEW S, IsFiniteSet(S), NEW Q \in SUBSET SUBSET S, {} \in Q,
           \A s \in SUBSET S : s # {} /\ s \ {Pick(s)} \in Q => s \in Q
    PROVE  Q = SUBSET S
<1> DEFINE P == {n \in Nat : \A s \in SUBSET S : Cardinality(s) <= n => s \in Q}
<1>0. \A s \in SUBSET S : /\ Cardinality(s) \in Nat
                          /\ s # {} => Cardinality(s) # 0
                          /\ s # {} => Cardinality(s \ {Pick(s)}) = Cardinality(s) - 1
  BY SubsetCardinality
<1>1. 0 \in P
  <2>1. ASSUME NEW s \in SUBSET S, Cardinality(s) <= 0
        PROVE  s \in Q
    <3>1. Cardinality(s) \in Nat /\ (s # {} => Cardinality(s) # 0)
      BY <1>0
    <3>2. s = {}
      BY <2>1, <3>1
    <3> QED
      BY <3>2
  <2> QED
    BY <2>1
<1>2. ASSUME NEW n \in P PROVE n + 1 \in P
  <2>1. n \in Nat /\ \A s \in SUBSET S : Cardinality(s) <= n => s \in Q
    BY DEF P
  <2>2. ASSUME NEW s \in SUBSET S, Cardinality(s) <= n + 1
        PROVE  s \in Q
    <3>1. CASE s = {}
      BY <3>1
    <3>2. CASE s # {}
      <4>1. s \ {Pick(s)} \in SUBSET S /\ Cardinality(s \ {Pick(s)}) <= n
        BY <1>0, <2>1, <2>2, <3>2
      <4> QED
        BY <2>1, <3>2, <4>1
    <3> QED
      BY <3>1, <3>2
  <2> QED
    BY <2>1, <2>2
<1>3. P = Nat
  <2> HIDE DEF P
  <2>1. P \in SUBSET Nat
    BY DEF P
  <2> QED
    BY <2>1, <1>1, <1>2, NatInductionSet
<1>4. ASSUME NEW s \in SUBSET S PROVE s \in Q
  <2>1. Cardinality(s) \in P
    BY <1>0, <1>3
  <2> QED
    BY <2>1, <1>0
<1> QED
  BY <1>4

\* The recursive function behind the library's sum exists, and computes it by
\* the recursion that defines it.
LEMMA SumUnfold ==
    ASSUME NEW S, IsFiniteSet(S), NEW f \in [S -> Int]
    PROVE  \E it \in [SUBSET S -> Int] :
              /\ it[{}] = 0
              /\ \A s \in SUBSET S :
                    s # {} => it[s] = f[Pick(s)] + it[s \ {Pick(s)}]
              /\ SumFunctionOnSet(f, S) = it[S]
<1> DEFINE Rest(s) == s \ {Pick(s)}
           Value(h, s) == IF s = {} THEN 0 ELSE f[Pick(s)] + h[Rest(s)]
           D(n) == {s \in SUBSET S : Cardinality(s) <= n}
           Total(h, d) == h = [s \in d |-> Value(h, s)]
           it == CHOOSE h : Total(h, SUBSET S)
<1>1. SumFunctionOnSet(f, S) = it[S]
  BY Zenon DEF SumFunctionOnSet, FoldFunctionOnSet, MapThenFoldSet, Pick
<1>2. \A s \in SUBSET S :
         /\ Cardinality(s) \in Nat
         /\ s # {} => /\ Pick(s) \in S
                      /\ Rest(s) \in SUBSET S
                      /\ Cardinality(Rest(s)) = Cardinality(s) - 1
  BY SubsetCardinality
<1>3. \E h : Total(h, SUBSET S)
  <2> DEFINE P == {n \in Nat : \E h : Total(h, D(n))}
  <2>1. 0 \in P
    <3> DEFINE h == [s \in D(0) |-> 0]
    <3>1. ASSUME NEW s \in D(0) PROVE s = {}
      <4>1. s \in SUBSET S /\ Cardinality(s) <= 0
        OBVIOUS
      <4>2. Cardinality(s) \in Nat
        BY <4>1, SubsetCardinality
      <4>3. Cardinality(s) = 0
        BY <4>1, <4>2
      <4> QED
        BY <4>1, <4>3, SubsetCardinality
    <3>2. Total(h, D(0))
      BY <3>1
    <3> QED
      BY <3>2
  <2>2. ASSUME NEW n \in P PROVE n + 1 \in P
    <3>0. n \in Nat
      OBVIOUS
    <3>1. PICK h : Total(h, D(n))
      OBVIOUS
    <3> DEFINE k == [s \in D(n + 1) |-> Value(h, s)]
    <3>2. ASSUME NEW s \in D(n), s # {} PROVE Rest(s) \in D(n)
      BY <1>2, <3>2
    <3>3. ASSUME NEW s \in D(n) PROVE s \in D(n + 1) /\ k[s] = h[s]
      <4>0. s \in SUBSET S /\ Cardinality(s) <= n /\ Cardinality(s) \in Nat
        BY <1>2
      <4>1. s \in D(n + 1)
        BY <3>0, <4>0
      <4>2. k[s] = Value(h, s)
        BY <4>1
      <4>3. h[s] = Value(h, s)
        BY <3>1
      <4> QED
        BY <4>1, <4>2, <4>3
    <3>4. ASSUME NEW s \in D(n + 1), s # {} PROVE Rest(s) \in D(n)
      BY <1>2, <3>4
    <3>5. \A s \in D(n + 1) : Value(h, s) = Value(k, s)
      BY <3>3, <3>4
    <3>6. Total(k, D(n + 1))
      BY <3>5
    <3>7. n + 1 \in Nat
      BY <3>0
    <3> QED
      BY <3>6, <3>7, Zenon
  <2>3. P = Nat
    <3> HIDE DEF P
    <3>1. P \in SUBSET Nat
      BY DEF P
    <3> QED
      BY <3>1, <2>1, <2>2, NatInductionSet
  <2>4. D(Cardinality(S)) = SUBSET S
    BY FS_Subset
  <2>5. Cardinality(S) \in P
    BY <1>2, <2>3
  <2> QED
    BY <2>4, <2>5, Zenon
<1>4. Total(it, SUBSET S)
  BY <1>3, Zenon
<1> HIDE DEF it
<1>5. it[{}] = 0
  BY <1>4
<1>6. \A s \in SUBSET S : s # {} => it[s] = f[Pick(s)] + it[Rest(s)]
  BY <1>4
<1>7. it \in [SUBSET S -> Int]
  <2> DEFINE Q == {s \in SUBSET S : it[s] \in Int}
  <2>1. {} \in Q
    BY <1>5
  <2>2. ASSUME NEW s \in SUBSET S, s # {}, Rest(s) \in Q PROVE s \in Q
    <3>1. Pick(s) \in S
      BY <1>2, <2>2
    <3>2. it[Rest(s)] \in Int
      BY <2>2
    <3>3. it[s] = f[Pick(s)] + it[Rest(s)]
      BY <1>6, <2>2
    <3> QED
      BY <3>1, <3>2, <3>3
  <2>3. Q = SUBSET S
    <3> HIDE DEF Q
    <3>1. Q \in SUBSET SUBSET S
      BY DEF Q
    <3> QED
      BY <3>1, <2>1, <2>2, SubsetInduction
  <2> QED
    BY <2>3, <1>4
<1> QED
  BY <1>1, <1>5, <1>6, <1>7

\* A sum of integers is an integer.
LEMMA SumType ==
    ASSUME NEW S, IsFiniteSet(S), NEW f \in [S -> Int]
    PROVE  SumFunctionOnSet(f, S) \in Int
<1>1. PICK it \in [SUBSET S -> Int] : SumFunctionOnSet(f, S) = it[S]
  BY SumUnfold
<1> QED
  BY <1>1

\* A sum of zeros is zero: a new core holds no escrow.
LEMMA SumZero ==
    ASSUME NEW S, IsFiniteSet(S), NEW f \in [S -> Int], \A x \in S : f[x] = 0
    PROVE  SumFunctionOnSet(f, S) = 0
<1>1. PICK it \in [SUBSET S -> Int] :
         /\ it[{}] = 0
         /\ \A s \in SUBSET S :
               s # {} => it[s] = f[Pick(s)] + it[s \ {Pick(s)}]
         /\ SumFunctionOnSet(f, S) = it[S]
  BY SumUnfold
<1> DEFINE Q == {s \in SUBSET S : it[s] = 0}
<1>2. {} \in Q
  BY <1>1
<1>3. ASSUME NEW s \in SUBSET S, s # {}, s \ {Pick(s)} \in Q PROVE s \in Q
  <2>1. Pick(s) \in S
    BY <1>3, SubsetCardinality
  <2>2. it[s \ {Pick(s)}] = 0 /\ f[Pick(s)] = 0
    BY <1>3, <2>1
  <2> QED
    BY <1>1, <1>3, <2>2
<1>4. Q = SUBSET S
  <2> HIDE DEF Q
  <2>1. Q \in SUBSET SUBSET S
    BY DEF Q
  <2> QED
    BY <2>1, <1>2, <1>3, SubsetInduction
<1> QED
  BY <1>1, <1>4

\* Changing one summand changes the sum by the difference: what a call that
\* touches one position, or one auction, does to the total in escrow.
LEMMA SumUpdate ==
    ASSUME NEW S, IsFiniteSet(S), NEW f \in [S -> Int], NEW g \in [S -> Int],
           NEW y \in S, \A x \in S \ {y} : g[x] = f[x]
    PROVE  SumFunctionOnSet(g, S) = SumFunctionOnSet(f, S) + g[y] - f[y]
<1>1. PICK it \in [SUBSET S -> Int] :
         /\ it[{}] = 0
         /\ \A s \in SUBSET S :
               s # {} => it[s] = f[Pick(s)] + it[s \ {Pick(s)}]
         /\ SumFunctionOnSet(f, S) = it[S]
  BY SumUnfold
<1>2. PICK jt \in [SUBSET S -> Int] :
         /\ jt[{}] = 0
         /\ \A s \in SUBSET S :
               s # {} => jt[s] = g[Pick(s)] + jt[s \ {Pick(s)}]
         /\ SumFunctionOnSet(g, S) = jt[S]
  BY SumUnfold
<1> DEFINE Gap(s) == IF y \in s THEN g[y] - f[y] ELSE 0
           Q == {s \in SUBSET S : jt[s] = it[s] + Gap(s)}
<1>3. {} \in Q
  BY <1>1, <1>2
<1>4. ASSUME NEW s \in SUBSET S, s # {}, s \ {Pick(s)} \in Q PROVE s \in Q
  <2> DEFINE p == Pick(s)
             r == s \ {p}
  <2>1. p \in s
    BY <1>4, SubsetCardinality
  <2>2. /\ it[s] = f[p] + it[r] /\ it[s] \in Int /\ it[r] \in Int
        /\ jt[s] = g[p] + jt[r] /\ jt[s] \in Int /\ jt[r] \in Int
        /\ f[p] \in Int /\ g[p] \in Int /\ f[y] \in Int /\ g[y] \in Int
    BY <1>1, <1>2, <1>4, <2>1
  <2>3. jt[r] = it[r] + Gap(r)
    BY <1>4
  <2> HIDE DEF p
  <2>4. CASE p = y
    <3>1. Gap(r) = 0 /\ Gap(s) = g[y] - f[y]
      BY <2>1, <2>4
    <3> QED
      BY <2>2, <2>3, <2>4, <3>1
  <2>5. CASE p # y
    <3>1. Gap(r) = Gap(s) /\ Gap(s) \in Int /\ g[p] = f[p]
      BY <2>1, <2>2, <2>5
    <3> HIDE DEF Gap, r
    <3>2. jt[s] = it[s] + Gap(s)
      BY <2>2, <2>3, <3>1
    <3> QED
      BY <3>2
  <2> QED
    BY <2>4, <2>5
<1>5. Q = SUBSET S
  <2> HIDE DEF Q
  <2>1. Q \in SUBSET SUBSET S
    BY DEF Q
  <2> QED
    BY <2>1, <1>3, <1>4, SubsetInduction
<1>6. jt[S] = it[S] + g[y] - f[y]
  BY <1>1, <1>2, <1>5
<1> QED
  BY <1>1, <1>2, <1>6

----------------------------------------------------------------------------
(* Fees and payments                                                       *)

\* The 2% fee never exceeds the sale, and a non-zero sale leaves the seller
\* something: the unchecked subtraction of settle() cannot wrap.
LEMMA FeeBounds ==
    ASSUME NEW c \in Nat
    PROVE  /\ FeeOf(c) \in Nat
           /\ FeeOf(c) <= c
           /\ c > 0 => FeeOf(c) < c
  BY DEF FeeOf, PLATFORM_FEE_BPS

\* The two shares of a fee are natural numbers that add up to it.
LEMMA CutBounds ==
    ASSUME NEW fee \in Nat
    PROVE  /\ KeeperCut(fee) \in Nat
           /\ PlatformCut(fee) \in Nat
           /\ KeeperCut(fee) + PlatformCut(fee) = fee
  BY DEF KeeperCut, PlatformCut, KEEPER_SHARE_BPS, PLATFORM_FEE_BPS

\* A payment, refused or not, keeps every balance and credit a natural number.
LEMMA PayType ==
    ASSUME NEW f \in Funds, NEW to \in Address, NEW amount \in Nat, NEW ok
    PROVE  Pay(f, to, amount, ok) \in Funds
  BY DEF Pay, Funds

\* So does a deposit the account can afford.
LEMMA DepositType ==
    ASSUME NEW f \in Funds, NEW from \in Address, NEW amount \in Nat,
           amount <= f.wallet[from]
    PROVE  Deposit(f, from, amount) \in Funds
<1>1. f.wallet[from] - amount \in Nat
  BY DEF Funds
<1>2. QED
  BY <1>1 DEF Deposit, Funds

\* The same for the two payments of a fee.
LEMMA PayFeeType ==
    ASSUME NEW f \in Funds, NEW fee \in Nat, NEW ok1, NEW ok2,
           keeper \in Address
    PROVE  PayFee(f, fee, ok1, ok2) \in Funds
<1>1. FeeRecipient \in Address
  BY CoreAssumption
<1>2. Pay(f, FeeRecipient, PlatformCut(fee), ok1) \in Funds
  BY <1>1, CutBounds, PayType
<1>3. QED
  BY <1>2, CutBounds, PayType DEF PayFee

----------------------------------------------------------------------------
(* What an account holds and is owed                                       *)

\* The wallet and the pull credit of an account, the two places a payment can
\* end in.
Worth(f, a) == f.wallet[a] + f.pendingReturns[a]

\* A payment is worth its amount to the payee, pushed or refused, and nothing
\* to anyone else (_pay).
LEMMA PayWorth ==
    ASSUME NEW f \in Funds, NEW to \in Address, NEW amount \in Nat, NEW ok,
           NEW a \in Address
    PROVE  Worth(Pay(f, to, amount, ok), a)
              = Worth(f, a) + (IF a = to THEN amount ELSE 0)
  BY DEF Worth, Pay, Funds

\* A deposit costs the sender its amount and nobody else anything.
LEMMA DepositWorth ==
    ASSUME NEW f \in Funds, NEW from \in Address, NEW amount \in Nat,
           NEW a \in Address
    PROVE  Worth(Deposit(f, from, amount), a)
              = Worth(f, a) - (IF a = from THEN amount ELSE 0)
  BY DEF Worth, Deposit, Funds

\* A fee is worth its two cuts to the platform and the keeper, also when they
\* are one account (_payFee).
LEMMA PayFeeWorth ==
    ASSUME NEW f \in Funds, NEW fee \in Nat, NEW ok1, NEW ok2,
           keeper \in Address, NEW a \in Address
    PROVE  Worth(PayFee(f, fee, ok1, ok2), a)
              = Worth(f, a) + (IF a = FeeRecipient THEN PlatformCut(fee) ELSE 0)
                            + (IF a = keeper THEN KeeperCut(fee) ELSE 0)
<1> DEFINE g == Pay(f, FeeRecipient, PlatformCut(fee), ok1)
<1>1. /\ FeeRecipient \in Address
      /\ KeeperCut(fee) \in Nat
      /\ PlatformCut(fee) \in Nat
      /\ Worth(f, a) \in Int
  BY CoreAssumption, CutBounds DEF Worth, Funds
<1>2. /\ g \in Funds
      /\ Worth(g, a) = Worth(f, a) + (IF a = FeeRecipient THEN PlatformCut(fee) ELSE 0)
  BY <1>1, PayType, PayWorth
<1>3. PayFee(f, fee, ok1, ok2) = Pay(g, keeper, KeeperCut(fee), ok2)
  BY DEF PayFee
<1> HIDE DEF g
<1>4. Worth(Pay(g, keeper, KeeperCut(fee), ok2), a)
         = Worth(g, a) + (IF a = keeper THEN KeeperCut(fee) ELSE 0)
  BY <1>1, <1>2, PayWorth
<1> QED
  BY <1>2, <1>3, <1>4

\* What an account holds and is owed is a natural number.
LEMMA WorthType ==
    ASSUME NEW f \in Funds, NEW a \in Address
    PROVE  Worth(f, a) \in Nat
  BY DEF Worth, Funds

\* withdrawRefund moves a credit to the wallet: no account is worth more or
\* less than before.
LEMMA WithdrawRefundWorth ==
    ASSUME funds \in Funds, NEW u \in Address, WithdrawRefund(u)
    PROVE  /\ funds' \in Funds
           /\ \A a \in Address : Worth(funds', a) = Worth(funds, a)
<1> DEFINE f == [funds EXCEPT !.pendingReturns[u] = 0]
           credit == funds.pendingReturns[u]
<1>1. f \in Funds /\ credit \in Nat
  BY DEF Funds
<1>2. \A a \in Address : Worth(f, a) = Worth(funds, a) - (IF a = u THEN credit ELSE 0)
  BY DEF Funds, Worth
<1>3. funds' = Pay(f, u, credit, TRUE)
  BY DEF WithdrawRefund
<1>4. \A a \in Address : Worth(f, a) \in Nat /\ Worth(funds, a) \in Nat
  BY <1>1, WorthType
<1> HIDE DEF f, credit
<1>5. ASSUME NEW a \in Address
      PROVE  Worth(funds', a) = Worth(f, a) + (IF a = u THEN credit ELSE 0)
  <2>1. Worth(Pay(f, u, credit, TRUE), a)
           = Worth(f, a) + (IF a = u THEN credit ELSE 0)
    BY <1>1 DEF Pay, Worth, Funds
  <2> QED
    BY <1>3, <2>1
<1>6. \A a \in Address : Worth(funds', a) = Worth(funds, a)
  BY <1>1, <1>2, <1>4, <1>5
<1>7. funds' \in Funds
  BY <1>1, <1>3, PayType
<1> QED
  BY <1>6, <1>7

\* The parts a price is divided into are natural numbers.
LEMMA FeeCutTypes ==
    ASSUME NEW price \in Nat
    PROVE  /\ FeeOf(price) \in Nat /\ price - FeeOf(price) \in Nat
           /\ KeeperCut(FeeOf(price)) \in Nat /\ PlatformCut(FeeOf(price)) \in Nat
<1>1. FeeOf(price) \in Nat /\ FeeOf(price) <= price
  BY FeeBounds
<1>2. price - FeeOf(price) \in Nat
  BY <1>1
<1> QED
  BY <1>1, <1>2, CutBounds

\* What a sale of escrowed or deposited money pays out: the fee's two cuts and
\* the rest, price in all, to whoever plays the three roles, pushed or refused
\* (buy, acceptOffer, settle).
LEMMA ProceedsWorth ==
    ASSUME NEW f \in Funds, NEW s \in Address, NEW price \in Nat,
           NEW okP, NEW okK, NEW okS, keeper \in Address
    PROVE  /\ Pay(PayFee(f, FeeOf(price), okP, okK), s, price - FeeOf(price), okS) \in Funds
           /\ \A a \in Address :
                 Worth(Pay(PayFee(f, FeeOf(price), okP, okK), s, price - FeeOf(price), okS), a)
                    = Worth(f, a)
                      + (IF a = s THEN price - FeeOf(price) ELSE 0)
                      + (IF a = FeeRecipient THEN PlatformCut(FeeOf(price)) ELSE 0)
                      + (IF a = keeper THEN KeeperCut(FeeOf(price)) ELSE 0)
<1> DEFINE fee == FeeOf(price)
           split == PayFee(f, fee, okP, okK)
           after == Pay(split, s, price - fee, okS)
<1>1. fee \in Nat /\ price - fee \in Nat
  BY FeeCutTypes
<1>2. KeeperCut(fee) \in Nat /\ PlatformCut(fee) \in Nat
  BY FeeCutTypes
<1> HIDE DEF fee
<1>3. split \in Funds
  BY <1>1, PayFeeType
<1>4. \A a \in Address :
         Worth(split, a) = Worth(f, a)
                         + (IF a = FeeRecipient THEN PlatformCut(fee) ELSE 0)
                         + (IF a = keeper THEN KeeperCut(fee) ELSE 0)
  BY <1>1, PayFeeWorth
<1> HIDE DEF split
<1>5. after \in Funds
  BY <1>1, <1>3, PayType
<1>6. \A a \in Address :
         Worth(after, a) = Worth(split, a) + (IF a = s THEN price - fee ELSE 0)
  BY <1>1, <1>3, PayWorth
<1> HIDE DEF after
<1>7. ASSUME NEW a \in Address
      PROVE  Worth(after, a)
                = Worth(f, a)
                  + (IF a = s THEN price - fee ELSE 0)
                  + (IF a = FeeRecipient THEN PlatformCut(fee) ELSE 0)
                  + (IF a = keeper THEN KeeperCut(fee) ELSE 0)
  <2>1. Worth(f, a) \in Nat
    BY WorthType
  <2> QED
    BY <1>1, <1>2, <1>4, <1>6, <2>1
<1> QED
  BY <1>5, <1>7 DEF after, split, fee

----------------------------------------------------------------------------
(* Tokens                                                                  *)

\* Nobody ends up with a negative number of units when the sender has them.
LEMMA MovedType ==
    ASSUME NEW held \in [Address -> Nat], NEW from \in Address,
           NEW to \in Address, NEW n \in Nat, n <= held[from]
    PROVE  Moved(held, from, to, n) \in [Address -> Nat]
<1> DEFINE left == [held EXCEPT ![from] = @ - n]
<1>1. held[from] - n \in Nat
  OBVIOUS
<1>2. left \in [Address -> Nat]
  BY <1>1
<1> HIDE DEF left
<1>3. [left EXCEPT ![to] = @ + n] \in [Address -> Nat]
  BY <1>2
<1> QED
  BY <1>3 DEF Moved, left
=============================================================================

-------------------------- MODULE MarketplaceCore --------------------------
(***************************************************************************)
(* The base contract every core (Marketplace, AuctionHouse, OfferBook)     *)
(* inherits: the fee arithmetic, the push payment with its pull fallback,  *)
(* and withdrawRefund().                                                   *)
(*                                                                         *)
(* A transaction is one atomic step: a revert undoes every write, so a     *)
(* call that reverts is no step at all, and the transient reentrancy guard *)
(* keeps a payee from calling back into the same core while it runs.       *)
(*                                                                         *)
(* Amounts are integers in a unit the configuration chooses.  The core's   *)
(* own balance is not a variable: the EVM neither mints nor burns, so it   *)
(* is whatever the accounts outside the core no longer hold.               *)
(***************************************************************************)
EXTENDS Integers

CONSTANTS
    Address,        \* accounts, externally owned or contracts
    NoAddr,         \* address(0)
    FeeRecipient,   \* immutable feeRecipient
    Rejecting,      \* contracts whose receive() may refuse a 50k-gas push
    MinPrice,       \* MIN_PRICE
    Durations,      \* the shared durations _expiryFor accepts
    MaxTime         \* bound: the clock stops here, after every expiry

ASSUME CoreAssumption ==
    /\ NoAddr \notin Address
    /\ FeeRecipient \in Address
    /\ Rejecting \subseteq Address
    /\ MinPrice \in Nat \ {0}
    /\ Durations \subseteq Nat \ {0}
    /\ MaxTime \in Nat

VARIABLES
    funds,    \* what each account holds outside the core, and its pull credit
    keeper,   \* manager.keeper(), consulted on every fee payment
    now       \* block.timestamp

coreVars == <<funds, keeper, now>>

Funds == [wallet : [Address -> Nat], pendingReturns : [Address -> Nat]]

----------------------------------------------------------------------------
(* Fee arithmetic: 2% of the sale, split 1.5% / 0.5%, all truncated.       *)

PLATFORM_FEE_BPS == 200
KEEPER_SHARE_BPS == 50

FeeOf(commitment) == (commitment * PLATFORM_FEE_BPS) \div 10000

\* Mutation: the share's ratio upside down.
KeeperCutInverted(fee) == (fee * PLATFORM_FEE_BPS) \div KEEPER_SHARE_BPS

KeeperCut(fee) == (fee * KEEPER_SHARE_BPS) \div PLATFORM_FEE_BPS

PlatformCut(fee) == fee - KeeperCut(fee)

----------------------------------------------------------------------------
(* Payments.  Each operator maps the funds before to the funds after, so   *)
(* that one transaction can make several payments, to one payee or more.   *)

\* The outcomes of call{gas: 50_000}: only a contract can refuse.
PushOutcomes(to) == IF to \in Rejecting THEN BOOLEAN ELSE {TRUE}

\* msg.value arrives with the call.
Deposit(f, from, amount) == [f EXCEPT !.wallet[from] = @ - amount]

Pay(f, to, amount, ok) ==
    IF ok THEN [f EXCEPT !.wallet[to] = @ + amount]
          ELSE [f EXCEPT !.pendingReturns[to] = @ + amount]

\* Mutation: the platform is pushed the whole fee, the keeper its share too.
PayFeeUnsplit(f, fee, okPlatform, okKeeper) ==
    Pay(Pay(f, FeeRecipient, fee, okPlatform), keeper, KeeperCut(fee), okKeeper)

PayFee(f, fee, okPlatform, okKeeper) ==
    Pay(Pay(f, FeeRecipient, PlatformCut(fee), okPlatform),
        keeper, KeeperCut(fee), okKeeper)

----------------------------------------------------------------------------
(* withdrawRefund(): the credit is zeroed before the uncapped call, and a  *)
(* refusal reverts the whole transaction, so only success is a step.       *)

WithdrawRefund(u) ==
    /\ funds.pendingReturns[u] > 0
    /\ funds' = Pay([funds EXCEPT !.pendingReturns[u] = 0],
                    u, funds.pendingReturns[u], TRUE)
    /\ UNCHANGED <<keeper, now>>

\* MarketplaceManager.setKeeper as a core sees it: any moment, never zero.
SetKeeper(k) ==
    /\ keeper' = k
    /\ UNCHANGED <<funds, now>>

\* A later block.  Any number of transactions share one timestamp.
Tick ==
    /\ now < MaxTime
    /\ now' = now + 1
    /\ UNCHANGED <<funds, keeper>>

ExpiryFor(duration) == now + duration

\* safeTransferFrom: the units each account holds of a token, after n moved.
Moved(held, from, to, n) ==
    LET left == [held EXCEPT ![from] = @ - n]
    IN  [left EXCEPT ![to] = @ + n]
=============================================================================

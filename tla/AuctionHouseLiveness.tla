------------------------ MODULE AuctionHouseLiveness ------------------------
(***************************************************************************)
(* "An auction can NEVER be stuck for its parties": one account that keeps *)
(* sending transactions recovers, or spends on the token, all it put in,   *)
(* even if the keeper, the seller and every other bidder never act again.  *)
(***************************************************************************)
EXTENDS AuctionHouse

CONSTANT Survivor  \* the one account that still sends transactions

ASSUME LivenessAssumption == Survivor \in Users

\* What the survivor can do about its escrow in an auction.
Recover(id) ==
    \/ Settle(Survivor, id)
    \/ \E ok \in PushOutcomes(Survivor) : WithdrawLoserFunds(Survivor, id, ok)
    \/ \E refused \in SUBSET ({Survivor} \cap Rejecting) :
          RefundLosers(id, {Survivor}, refused) /\ cumulative[id][Survivor] > 0

\* Blocks keep coming, and a transaction of the survivor that stays valid is
\* included.  Nobody else is fair.
SurvivorFairness ==
    /\ WF_vars(Tick /\ UNCHANGED <<houseVars, deliverable>>)
    /\ \A id \in AuctionId : WF_vars(Recover(id))
    /\ WF_vars(WithdrawRefund(Survivor) /\ UNCHANGED <<houseVars, deliverable>>)

FairSpec == Spec /\ SurvivorFairness

----------------------------------------------------------------------------
\* Escrow never stays in the house, and neither does a credit for a push the
\* survivor's contract once refused (settle, withdrawLoserFunds, refundLosers,
\* withdrawRefund).
SurvivorNeverStuck ==
    /\ \A id \in AuctionId :
          cumulative[id][Survivor] > 0 ~> cumulative[id][Survivor] = 0
    /\ funds.pendingReturns[Survivor] > 0 ~> funds.pendingReturns[Survivor] = 0
=============================================================================

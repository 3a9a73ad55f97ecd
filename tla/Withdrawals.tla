----------------------------- MODULE Withdrawals -----------------------------
(***************************************************************************)
(* "Withdraw required": the contract's pendingReturns, the table of the    *)
(* addresses that may have to withdraw, seeded by the indexer's handlers,  *)
(* and the sweeper of every instance that asks the contract about them,    *)
(* oldest first, a batch at a time.                                        *)
(***************************************************************************)
EXTENDS Integers, SequencesExt

CONSTANTS
    Address,
    Instances,    \* each runs a sweeper
    Batch,        \* 200
    MaxCredits,   \* bound: payments that end up in pendingReturns or not
    MaxFaults     \* bound: eth_calls and writes that fail, stops of an instance

VARIABLES
    owed,         \* pendingReturns
    events,       \* LoserRefunded events the indexer has not handled
    order,        \* pending_withdrawals by updated_at
    row,          \* address -> its row
    sweep,        \* instance -> its sweeper
    credits, faults

vars == <<owed, events, order, row, sweep, credits, faults>>

Candidate == [verified |-> FALSE, amount |-> 0]
Resting == [pc |-> "idle", left |-> <<>>, owed |-> 0]

Init ==
    /\ owed = [a \in Address |-> 0]
    /\ events = <<>>
    /\ order = <<>>
    /\ row = [a \in Address |-> Candidate]
    /\ sweep = [i \in Instances |-> Resting]
    /\ credits = 0 /\ faults = 0

Listed == Range(order)
Fault == faults < MaxFaults /\ faults' = faults + 1

----------------------------------------------------------------------------
(* The contract.                                                           *)

\* refundLosers and withdrawLoserFunds: the event says nothing of the push.
RefundLoser(a) ==
    /\ credits < MaxCredits
    /\ credits' = credits + 1
    /\ \E failed \in {0, 1} : owed' = [owed EXCEPT ![a] = @ + failed]
    /\ events' = Append(events, a)
    /\ UNCHANGED <<order, row, sweep, faults>>

\* settle pays the seller, or the winner back; a failed push emits only PushFailed.
SettlePushFails(a) ==
    /\ credits < MaxCredits
    /\ credits' = credits + 1
    /\ owed' = [owed EXCEPT ![a] = @ + 1]
    /\ UNCHANGED <<events, order, row, sweep, faults>>

WithdrawRefund(a) ==
    /\ owed[a] > 0
    /\ owed' = [owed EXCEPT ![a] = 0]
    /\ UNCHANGED <<events, order, row, sweep, credits, faults>>

----------------------------------------------------------------------------
(* The indexer.                                                            *)

\* updated_at = now()
Touched(a) == Append(RemoveFirst(order, a), a)

\* onLoserRefunded. A seed that fails is logged and forgotten.
SeedPendingWithdrawal ==
    /\ events # <<>>
    /\ events' = Tail(events)
    /\ \/ order' = Touched(Head(events)) /\ UNCHANGED faults
       \/ Fault /\ UNCHANGED order
    /\ UNCHANGED <<owed, row, sweep, credits>>

----------------------------------------------------------------------------
(* The sweeper.                                                            *)

Set(i, s) == sweep' = [sweep EXCEPT ![i] = s]

List(i) ==
    /\ sweep[i].pc = "idle" /\ order # <<>>
    /\ Set(i, [pc |-> "call", owed |-> 0,
               left |-> SubSeq(order, 1, IF Len(order) < Batch THEN Len(order) ELSE Batch)])
    /\ UNCHANGED <<owed, events, order, row, credits, faults>>

Skipped(s) == IF Len(s.left) > 1 THEN [pc |-> "call", left |-> Tail(s.left), owed |-> 0] ELSE Resting

CallPendingReturns(i) ==
    /\ sweep[i].pc = "call"
    /\ \/ /\ Set(i, [sweep[i] EXCEPT !.pc = "write", !.owed = owed[Head(sweep[i].left)]])
          /\ UNCHANGED faults
       \/ Fault /\ Set(i, Skipped(sweep[i]))
    /\ UNCHANGED <<owed, events, order, row, credits>>

\* Mutation: the row keeps its place.
Unmoved(a) == order

\* MarkPendingWithdrawalVerified touches the row it finds.
Moved(a) == IF a \in Listed THEN Touched(a) ELSE order

DeletePendingWithdrawal(a) ==
    /\ order' = RemoveFirst(order, a)
    /\ row' = [row EXCEPT ![a] = Candidate]

MarkPendingWithdrawalVerified(a, amount) ==
    /\ order' = Moved(a)
    /\ row' = IF a \in Listed THEN [row EXCEPT ![a] = [verified |-> TRUE, amount |-> amount]] ELSE row

Write(i) ==
    /\ sweep[i].pc = "write"
    /\ LET a == Head(sweep[i].left)
           amount == sweep[i].owed
       IN  \/ amount = 0 /\ DeletePendingWithdrawal(a) /\ UNCHANGED faults
           \/ amount > 0 /\ MarkPendingWithdrawalVerified(a, amount) /\ UNCHANGED faults
           \/ Fault /\ UNCHANGED <<order, row>>
    /\ Set(i, Skipped(sweep[i]))
    /\ UNCHANGED <<owed, events, credits>>

Stop(i) ==
    /\ sweep[i].pc # "idle"
    /\ Fault
    /\ Set(i, Resting)
    /\ UNCHANGED <<owed, events, order, row, credits>>

Sweeper(i) == List(i) \/ CallPendingReturns(i) \/ Write(i)

Next ==
    \/ \E a \in Address : RefundLoser(a) \/ SettlePushFails(a) \/ WithdrawRefund(a)
    \/ SeedPendingWithdrawal
    \/ \E i \in Instances : Sweeper(i) \/ Stop(i)

Spec == Init /\ [][Next]_vars

Fairness == WF_vars(SeedPendingWithdrawal) /\ \A i \in Instances : WF_vars(Sweeper(i))
FairSpec == Spec /\ Fairness

----------------------------------------------------------------------------
TypeOK ==
    /\ owed \in [Address -> 0 .. MaxCredits]
    /\ Listed \subseteq Address /\ IsInjective(order)
    /\ \A i \in Instances : Range(sweep[i].left) \subseteq Address
    /\ \A a \in Address \ Listed : row[a] = Candidate

\* What the profile page shows comes right: once the chain is quiet, every row names
\* an address that must withdraw and the amount it is owed, however many rows stay
\* verified for ever ahead of it in the bounded batch, and whatever two sweepers read
\* before the other wrote.
RowsSettle == <>[](\A a \in Listed : row[a].verified /\ row[a].amount = owed[a] /\ owed[a] > 0)

\* "RefundPushed: emitted when settle returns a winner's escrow", "the only honest
\* source of you must click withdraw": who is owed something is told to withdraw.
DebtsShown == \A a \in Address : [](owed[a] > 0 => <>(a \in Listed \/ owed[a] = 0))
==============================================================================

--------------------------- MODULE EnglishAuction ---------------------------
(***************************************************************************)
(* What one auction promises its bidders, whatever the contract that runs  *)
(* it looks like: while it is open the best bid only grows, a new leader   *)
(* beats the reserve or the old leader by the increment and can still be   *)
(* answered for a while, the end never moves past a fixed limit, and it    *)
(* closes once, either sold to the leader at the best bid after the end or *)
(* with no sale.  A seller may walk away early only while nobody leads.    *)
(***************************************************************************)
EXTENDS Integers

CONSTANTS
    Bidder, Nobody, Increment, Floor,
    Window,      \* how long a new leader can be answered for
    MaxOvertime  \* how far past its first end an auction may run

VARIABLES
    phase,     \* "none", "open", "sold" or "unsold"
    leader,
    best,      \* the leader's bid while open, the price once sold, else 0
    reserve,
    firstEnd,  \* the end announced at creation
    end,       \* the current end
    now

vars == <<phase, leader, best, reserve, firstEnd, end>>

Init ==
    /\ phase = "none"
    /\ leader = Nobody
    /\ best = 0

Start ==
    /\ phase = "none"
    /\ phase' = "open"
    /\ reserve' >= Floor
    /\ end' > now
    /\ firstEnd' = end'
    /\ UNCHANGED <<leader, best>>

\* The leader adds to the winning bid.
TopUp ==
    /\ phase = "open"
    /\ now < end
    /\ leader # Nobody
    /\ best' > best
    /\ UNCHANGED <<phase, leader, reserve, firstEnd, end>>

\* A new leader: everyone else keeps the window, or the time up to the limit.
Overtake ==
    /\ phase = "open"
    /\ now < end
    /\ leader' \in Bidder \ {leader}
    /\ best' >= IF leader = Nobody THEN reserve ELSE best + Increment
    /\ end' >= end
    /\ end' <= firstEnd + MaxOvertime
    /\ end' >= now + Window \/ end' = firstEnd + MaxOvertime
    /\ UNCHANGED <<phase, reserve, firstEnd>>

Sell ==
    /\ phase = "open"
    /\ now >= end
    /\ leader # Nobody
    /\ phase' = "sold"
    /\ UNCHANGED <<leader, best, reserve, firstEnd, end>>

\* No sale: nobody leads, or the time is up and delivery or everyone failed.
Abandon ==
    /\ phase = "open"
    /\ leader = Nobody \/ now >= end
    /\ phase' = "unsold"
    /\ best' = 0
    /\ UNCHANGED <<leader, reserve, firstEnd, end>>

Next == Start \/ TopUp \/ Overtake \/ Sell \/ Abandon

Spec == Init /\ [][Next]_vars
=============================================================================

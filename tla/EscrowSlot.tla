----------------------------- MODULE EscrowSlot -----------------------------
(***************************************************************************)
(* What one offer promises: a principal in escrow under one deadline.  It  *)
(* may be repriced but never prolonged, is traded whole and only before    *)
(* the deadline, and can be given back at any time.                        *)
(***************************************************************************)
EXTENDS Integers

CONSTANT Floor

VARIABLES
    principal,  \* in escrow, zero when there is no offer
    deadline,
    traded,     \* the principals traded through this slot so far
    now

vars == <<principal, deadline, traded>>

Init == principal = 0 /\ traded = 0

Offer ==
    /\ principal = 0
    /\ principal' >= Floor
    /\ deadline' > now
    /\ UNCHANGED traded

Reprice ==
    /\ principal > 0
    /\ now < deadline
    /\ principal' >= Floor
    /\ UNCHANGED <<deadline, traded>>

Trade ==
    /\ principal > 0
    /\ now < deadline
    /\ principal' = 0
    /\ traded' = traded + principal

GiveBack ==
    /\ principal > 0
    /\ principal' = 0
    /\ UNCHANGED traded

Next == Offer \/ Reprice \/ Trade \/ GiveBack

Spec == Init /\ [][Next]_vars
=============================================================================

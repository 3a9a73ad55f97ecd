----------------------------- MODULE WsAdmission -----------------------------
(***************************************************************************)
(* How a WebSocket is let in: the count per IP, the check of the global    *)
(* cap, the upgrade, whose callback fasthttp runs after the handler has    *)
(* returned, and the connection's end.                                     *)
(***************************************************************************)
EXTENDS Integers, FiniteSets

CONSTANTS
    Clients,
    IP,             \* client -> its address
    PerIPLimit,     \* wsPerIPLimit
    GlobalLimit     \* wsGlobalLimit

VARIABLES
    pc,          \* client -> how far its connection is
    ipCounters,  \* address -> connections counted
    conns        \* h.conns

vars == <<pc, ipCounters, conns>>

Init ==
    /\ pc = [c \in Clients |-> "out"]
    /\ ipCounters = [a \in {IP[c] : c \in Clients} |-> 0]
    /\ conns = {}

Go(c, from, to) == pc[c] = from /\ pc' = [pc EXCEPT ![c] = to]
Counted(c, n) == [ipCounters EXCEPT ![IP[c]] = @ + n]

Acquire(c) ==
    /\ ipCounters[IP[c]] < PerIPLimit
    /\ Go(c, "out", "counted")
    /\ ipCounters' = Counted(c, 1)
    /\ UNCHANGED conns

\* Mutation: the rejection of the global cap keeps the address's place.
KeptCount(c) == ipCounters

ReleasedCount(c) == Counted(c, -1)

\* The global cap is read, the lock released.
CheckGlobal(c) ==
    /\ IF Cardinality(conns) < GlobalLimit
       THEN Go(c, "counted", "upgrading") /\ UNCHANGED ipCounters
       ELSE Go(c, "counted", "out") /\ ipCounters' = ReleasedCount(c)
    /\ UNCHANGED conns

\* Wrong origin or no handshake: Upgrade has written its answer.
UpgradeFails(c) ==
    /\ Go(c, "upgrading", "out")
    /\ ipCounters' = Counted(c, -1)
    /\ UNCHANGED conns

Register(c) ==
    /\ Go(c, "upgrading", "open")
    /\ conns' = conns \cup {c}
    /\ UNCHANGED ipCounters

\* writePump returned: the client, the read pump or a shutdown closed it.
Unregister(c) ==
    /\ Go(c, "open", "closing")
    /\ conns' = conns \ {c}
    /\ UNCHANGED ipCounters

Release(c) ==
    /\ Go(c, "closing", "out")
    /\ ipCounters' = Counted(c, -1)
    /\ UNCHANGED conns

Next == \E c \in Clients :
    Acquire(c) \/ CheckGlobal(c) \/ UpgradeFails(c) \/ Register(c) \/ Unregister(c) \/ Release(c)

Spec == Init /\ [][Next]_vars

----------------------------------------------------------------------------
TypeOK ==
    /\ pc \in [Clients -> {"out", "counted", "upgrading", "open", "closing"}]
    /\ conns = {c \in Clients : pc[c] = "open"}

\* An address is charged for exactly the connections it has on their way or open,
\* so that none is locked out once they are gone and none gets past its limit.
IPCountExact == \A a \in DOMAIN ipCounters :
    /\ ipCounters[a] = Cardinality({c \in Clients : IP[c] = a /\ pc[c] # "out"})
    /\ ipCounters[a] <= PerIPLimit

\* wsGlobalLimit: "too many subscribers".
GlobalCapHolds == Cardinality(conns) <= GlobalLimit
==============================================================================

----------------------------- MODULE UpgradeGate -----------------------------
(***************************************************************************)
(* Who may change the contracts: MarketplaceManager's admin and keeper,    *)
(* the two-step transfer of the admin role, its renunciation, and the      *)
(* queue every core's upgrade passes through.  The cores ask the manager   *)
(* who the admin is at each call; the manager upgrades itself at once.     *)
(* Init is the state after the proxies' constructors ran initialize().     *)
(***************************************************************************)
EXTENDS Integers

CONSTANTS
    Account,            \* whoever may call
    Core,               \* the core proxies
    Impl,               \* addresses an upgrade may name
    Deployed,           \* those that hold code
    MaxUpgradeWindow,   \* MAX_UPGRADE_WINDOW
    MaxTime             \* bound: the clock stops here

NoAddr == "address(0)"
First == "the implementation deployed first"
Manager == "manager"
Proxy == Core \cup {Manager}

ASSUME GateAssumption ==
    /\ NoAddr \notin Account \cup Deployed
    /\ Manager \notin Core
    /\ MaxUpgradeWindow \in Nat /\ MaxTime \in Nat

VARIABLES
    keeper, admin, pendingAdmin,  \* of the manager
    code,                         \* proxy -> its implementation
    queue,                        \* core -> pendingImplementation, upgradeEta
    now,
    approvals                     \* history: core -> queued and never withdrawn, installed

managerVars == <<keeper, admin, pendingAdmin>>
vars == <<managerVars, code, queue, now, approvals>>

UpgradeDelay == 0
Empty == [impl |-> NoAddr, eta |-> 0]

Init ==
    /\ admin \in Account /\ keeper \in Account /\ pendingAdmin = NoAddr
    /\ code = [p \in Proxy |-> First]
    /\ queue = [c \in Core |-> Empty]
    /\ now = 0
    /\ approvals = [c \in Core |-> 0]

\* hasRole(DEFAULT_ADMIN_ROLE, caller), and onlyAdmin: address(0) is nobody's.
IsAdmin(caller) == caller # NoAddr /\ caller = admin

HasCode(impl) == impl \in Deployed

----------------------------------------------------------------------------
(* MarketplaceManager.                                                     *)

SetKeeper(caller, k) ==
    /\ IsAdmin(caller)
    /\ keeper' = k
    /\ UNCHANGED <<admin, pendingAdmin, code, queue, now, approvals>>

TransferAdmin(caller, newAdmin) ==
    /\ IsAdmin(caller) /\ newAdmin # admin
    /\ pendingAdmin' = newAdmin
    /\ UNCHANGED <<keeper, admin, code, queue, now, approvals>>

CancelAdminTransfer(caller) ==
    /\ IsAdmin(caller)
    /\ pendingAdmin' = NoAddr
    /\ UNCHANGED <<keeper, admin, code, queue, now, approvals>>

AcceptAdmin(caller) ==
    /\ pendingAdmin # NoAddr /\ caller = pendingAdmin
    /\ admin' = caller /\ pendingAdmin' = NoAddr
    /\ UNCHANGED <<keeper, code, queue, now, approvals>>

\* Mutation: an offer in flight survives the renunciation.
RenounceKeepingOffer(caller) ==
    /\ IsAdmin(caller)
    /\ admin' = NoAddr
    /\ UNCHANGED <<keeper, pendingAdmin, code, queue, now, approvals>>

RenounceAdmin(caller) ==
    /\ IsAdmin(caller)
    /\ admin' = NoAddr /\ pendingAdmin' = NoAddr
    /\ UNCHANGED <<keeper, code, queue, now, approvals>>

UpgradeManager(caller, impl) ==
    /\ IsAdmin(caller) /\ HasCode(impl)
    /\ code' = [code EXCEPT ![Manager] = impl]
    /\ UNCHANGED <<managerVars, queue, now, approvals>>

----------------------------------------------------------------------------
(* MarketplaceCore, of each core.                                          *)

\* Queuing again replaces the entry and starts its window anew.
QueueUpgrade(caller, c, impl) ==
    /\ IsAdmin(caller) /\ HasCode(impl)
    /\ queue' = [queue EXCEPT ![c] = [impl |-> impl, eta |-> now + UpgradeDelay]]
    /\ approvals' = [approvals EXCEPT ![c] = 1]
    /\ UNCHANGED <<managerVars, code, now>>

CancelUpgrade(caller, c) ==
    /\ IsAdmin(caller)
    /\ queue' = [queue EXCEPT ![c] = Empty]
    /\ approvals' = [approvals EXCEPT ![c] = 0]
    /\ UNCHANGED <<managerVars, code, now>>

\* Mutation: the entry stays after the installation.
ClearedNever(c) == queue

Cleared(c) == [queue EXCEPT ![c] = Empty]

\* upgradeToAndCall, which asks the implementation itself, and _authorizeUpgrade.
InstallUpgrade(caller, c, impl) ==
    /\ IsAdmin(caller) /\ impl \in Deployed
    /\ impl = queue[c].impl
    /\ queue[c].eta <= now /\ now <= queue[c].eta + MaxUpgradeWindow
    /\ code' = [code EXCEPT ![c] = impl]
    /\ queue' = Cleared(c)
    /\ approvals' = [approvals EXCEPT ![c] = @ - 1]
    /\ UNCHANGED <<managerVars, now>>

Tick ==
    /\ now < MaxTime
    /\ now' = now + 1
    /\ UNCHANGED <<managerVars, code, queue, approvals>>

ManagerCall(a) ==
    \/ \E b \in Account : SetKeeper(a, b) \/ TransferAdmin(a, b)
    \/ CancelAdminTransfer(a) \/ AcceptAdmin(a) \/ RenounceAdmin(a)
    \/ \E i \in Impl : UpgradeManager(a, i)

CoreCall(a, c) ==
    \/ \E i \in Impl : QueueUpgrade(a, c, i) \/ InstallUpgrade(a, c, i)
    \/ CancelUpgrade(a, c)

Next == \/ \E a \in Account : ManagerCall(a) \/ \E c \in Core : CoreCall(a, c)
        \/ Tick

Spec == Init /\ [][Next]_vars

----------------------------------------------------------------------------
\* A proxy always has code, and nothing without code is ever queued.
TypeOK ==
    /\ admin \in Account \cup {NoAddr}
    /\ pendingAdmin \in Account \cup {NoAddr} /\ keeper \in Account
    /\ code \in [Proxy -> Deployed \cup {First}]
    /\ queue \in [Core -> [impl : Deployed \cup {NoAddr}, eta : Nat]]
    /\ now \in Nat
    /\ approvals \in [Core -> Int]

\* renounceAdmin seals the four contracts for good: nobody becomes admin again, the
\* keeper stays, no implementation changes, whatever was queued or offered before.
Sealed ==
    [][admin = NoAddr => UNCHANGED <<managerVars, code, queue>>]_vars

\* An approval is used once: no core is upgraded more often than an admin queued an
\* upgrade, and never after it was withdrawn.
OneInstallPerApproval == \A c \in Core : approvals[c] \in {0, 1}
==============================================================================

---------------------------- MODULE ServicesProofs ----------------------------
(***************************************************************************)
(* Proofs about the components beside the trading core, for every value of *)
(* their constants: upgrade queue and admin role, sign-in, RPC pool,       *)
(* webhooks, the admission of WebSockets, the withdrawal sweepers and the  *)
(* metadata workers.  Each has an invariant that its own steps keep; the   *)
(* steps of the others leave it alone.                                     *)
(***************************************************************************)
EXTENDS Services, FiniteSetTheorems, SequenceTheorems, WellFoundedInduction, TLAPS

----------------------------------------------------------------------------
(* The upgrade gate                                                        *)

\* No admin means no offer in flight, and what is queued was approved and not used.
GateInv ==
    /\ TypeOK
    /\ admin = NoAddr => pendingAdmin = NoAddr
    /\ \A c \in Core : approvals[c] = IF queue[c].impl = NoAddr THEN 0 ELSE 1

LEMMA GateInit == Init => GateInv
BY GateAssumption DEF Init, GateInv, TypeOK, Empty, Proxy

\* The manager's calls leave the cores' queues alone.
LEMMA ManagerKeeps ==
    ASSUME GateInv, NEW a \in Account, ManagerCall(a)
    PROVE  GateInv'
<1> USE GateAssumption DEF GateInv, TypeOK, IsAdmin, HasCode, Proxy, managerVars
<1>1. ASSUME NEW b \in Account, SetKeeper(a, b) PROVE GateInv'
  BY <1>1 DEF SetKeeper
<1>2. ASSUME NEW b \in Account, TransferAdmin(a, b) PROVE GateInv'
  BY <1>2 DEF TransferAdmin
<1>3. CASE CancelAdminTransfer(a)
  BY <1>3 DEF CancelAdminTransfer
<1>4. CASE AcceptAdmin(a)
  BY <1>4 DEF AcceptAdmin
<1>5. CASE RenounceAdmin(a)
  BY <1>5 DEF RenounceAdmin
<1>6. ASSUME NEW i \in Impl, UpgradeManager(a, i) PROVE GateInv'
  BY <1>6 DEF UpgradeManager
<1>7. QED
  BY <1>1, <1>2, <1>3, <1>4, <1>5, <1>6 DEF ManagerCall

\* A core's calls leave the manager alone.
LEMMA CoreKeeps ==
    ASSUME GateInv, NEW a \in Account, NEW c \in Core, CoreCall(a, c)
    PROVE  GateInv'
<1> USE GateAssumption DEF GateInv, TypeOK, IsAdmin, HasCode, Proxy, managerVars
<1>1. ASSUME NEW i \in Impl, QueueUpgrade(a, c, i) PROVE GateInv'
  BY <1>1 DEF QueueUpgrade, UpgradeDelay
<1>2. ASSUME NEW i \in Impl, InstallUpgrade(a, c, i) PROVE GateInv'
  BY <1>2 DEF InstallUpgrade, Cleared, Empty
<1>3. CASE CancelUpgrade(a, c)
  BY <1>3 DEF CancelUpgrade, Empty
<1>4. QED
  BY <1>1, <1>2, <1>3 DEF CoreCall

LEMMA GateStep == GateInv /\ [Next]_vars => GateInv'
<1> SUFFICES ASSUME GateInv, [Next]_vars PROVE GateInv'
  OBVIOUS
<1>1. ASSUME NEW a \in Account, ManagerCall(a) PROVE GateInv'
  BY <1>1, ManagerKeeps
<1>2. ASSUME NEW a \in Account, NEW c \in Core, CoreCall(a, c) PROVE GateInv'
  BY <1>2, CoreKeeps
<1>3. CASE Tick
  BY <1>3 DEF Tick, GateInv, TypeOK, managerVars
<1>4. CASE UNCHANGED vars
  BY <1>4 DEF vars, managerVars, GateInv, TypeOK
<1>5. QED
  BY <1>1, <1>2, <1>3, <1>4 DEF Next

THEOREM GateInductive == Spec => []GateInv
<1>1. Init => GateInv
  BY GateInit
<1>2. GateInv /\ [Next]_vars => GateInv'
  BY GateStep
<1>3. QED
  BY <1>1, <1>2, PTL DEF Spec

\* Proxies always have code, and nothing without code is ever queued
\* (queueUpgrade's length check, _authorizeUpgrade).
THEOREM GateTypeCorrect == Spec => []TypeOK
<1>1. GateInv => TypeOK
  BY DEF GateInv
<1>2. QED
  BY GateInductive, <1>1, PTL

\* Each approval of the admin installs one implementation on one core, once
\* (the reset in _authorizeUpgrade and cancelUpgrade).
THEOREM ApprovedOnce == Spec => []OneInstallPerApproval
<1>1. GateInv => OneInstallPerApproval
  BY DEF GateInv, OneInstallPerApproval
<1>2. QED
  BY GateInductive, <1>1, PTL

\* Without an admin nobody is one, so only the clock can step.
LEMMA SealedStep ==
    ASSUME GateInv, Next, admin = NoAddr
    PROVE  UNCHANGED <<managerVars, code, queue>>
<1> USE GateAssumption DEF GateInv, IsAdmin
<1>1. ASSUME NEW a \in Account PROVE ~ManagerCall(a)
  BY DEF ManagerCall, SetKeeper, TransferAdmin, CancelAdminTransfer, AcceptAdmin,
         RenounceAdmin, UpgradeManager
<1>2. ASSUME NEW a \in Account, NEW c \in Core PROVE ~CoreCall(a, c)
  BY DEF CoreCall, QueueUpgrade, InstallUpgrade, CancelUpgrade
<1>3. QED
  BY <1>1, <1>2 DEF Next, Tick

\* renounceAdmin is for good, on the manager and on every core.
THEOREM SealIsForGood == Spec => Sealed
<1>1. GateInv /\ [Next]_vars => [admin = NoAddr => UNCHANGED <<managerVars, code, queue>>]_vars
  BY SealedStep
<1>2. QED
  BY GateInductive, <1>1, PTL DEF Spec, Sealed

----------------------------------------------------------------------------
(* Sign-in                                                                 *)

USE SignInAssumption

Call == [pc : {"idle", "auth", "send", "answered", "refused", "failed"},
         again : BOOLEAN, token : Nat]

WalletTyped ==
    /\ clock \in Nat /\ issued \in 0 .. MaxNonces
    /\ slot \in [nonce : 0 .. issued, expires : Nat]
    /\ tab \in [Tabs -> [pc : {"idle", "begin", "replace", "claim", "sign", "verify"},
                         nonce : 0 .. MaxNonces]]
    /\ session \in [Tabs -> [token : Nat, until : Nat]]
    /\ cookie \in Nat
    /\ call \in [Tabs -> [Calls -> Call]]
    /\ families \in [1 .. MaxNonces -> {0, 1}]

Active(t) == tab[t].pc \in {"replace", "claim", "sign", "verify"}

\* What is in the store, and what a tab may still put there, has opened nothing, and
\* no two tabs work with one nonce.
NoncesFresh ==
    /\ slot.nonce # 0 => families[slot.nonce] = 0
    /\ \A n \in 1 .. MaxNonces : families[n] > 0 => n <= issued
    /\ \A t \in Tabs : Active(t) => tab[t].nonce \in 1 .. issued
    /\ \A t, u \in Tabs : Active(t) /\ Active(u) /\ t # u => tab[t].nonce # tab[u].nonce
    /\ \A t \in Tabs : tab[t].pc \in {"replace", "claim"} => families[tab[t].nonce] = 0

\* A call that is sent a second time carries a token of this very moment.
CallsCarryTokens == \A t \in Tabs, c \in Calls :
    /\ call[t][c].pc = "send" /\ call[t][c].again => clock < call[t][c].token
    /\ call[t][c].pc # "refused"

WalletInv == WalletTyped /\ NoncesFresh /\ CallsCarryTokens

LEMMA WalletInit ==
    ASSUME Wallet!Init
    PROVE  WalletInv
<1> USE DEF Wallet!Init
<1>1. WalletTyped
  BY DEF WalletTyped, Wallet!Empty, Wallet!NoSession, Wallet!NoCall, Wallet!Resting, Call
<1>2. NoncesFresh
  BY DEF NoncesFresh, Active, Wallet!Empty, Wallet!Resting
<1>3. CallsCarryTokens
  BY DEF CallsCarryTokens, Wallet!NoCall
<1> QED
  BY <1>1, <1>2, <1>3 DEF WalletInv

\* The store after a statement: the nonce it was given, what it held, or nothing.
LEMMA StoreType ==
    ASSUME WalletTyped
    PROVE  /\ Wallet!GetDel(slot) \in {slot, Wallet!Empty}
           /\ \A n \in Nat : /\ ~Wallet!Live(slot) => Wallet!SetIfFree(n).nonce = n
                             /\ Wallet!SetIfFree(n) \in {slot, [nonce |-> n, expires |-> clock + NonceTTL]}
  BY DEF WalletTyped, Wallet!GetDel, Wallet!SetIfFree, Wallet!Live

\* A sign-in that ends tells every call that waits for it, and no other.
LEMMA ResumeShape ==
    ASSUME WalletTyped, NEW t \in Tabs, NEW token \in Nat, NEW to \in {"send", "failed"},
           Wallet!Resume(t, to, token)
    PROVE  /\ call' \in [Tabs -> [Calls -> Call]]
           /\ \A u \in Tabs, c \in Calls :
                 call'[u][c] = IF u = t /\ call[u][c].pc = "auth"
                               THEN [call[u][c] EXCEPT !.pc = to, !.token = token]
                               ELSE call[u][c]
<1>1. call' = [call EXCEPT ![t] = [c \in Calls |->
                 IF call[t][c].pc = "auth" THEN [call[t][c] EXCEPT !.pc = to, !.token = token]
                 ELSE call[t][c]]]
  BY DEF Wallet!Resume, Wallet!Waiting, WalletTyped
<1>2. \A u \in Tabs, c \in Calls :
         call'[u][c] = IF u = t /\ call[u][c].pc = "auth"
                       THEN [call[u][c] EXCEPT !.pc = to, !.token = token] ELSE call[u][c]
  BY <1>1 DEF WalletTyped
<1>3. [c \in Calls |-> IF call[t][c].pc = "auth"
                       THEN [call[t][c] EXCEPT !.pc = to, !.token = token] ELSE call[t][c]]
        \in [Calls -> Call]
  <2> SUFFICES ASSUME NEW c \in Calls
               PROVE  /\ call[t][c] \in Call
                      /\ [call[t][c] EXCEPT !.pc = to, !.token = token] \in Call
    OBVIOUS
  <2>1. call[t][c] \in Call
    BY DEF WalletTyped
  <2> QED
    BY <2>1 DEF Call
<1> QED
  BY <1>1, <1>2, <1>3 DEF WalletTyped

\* What is left as it was keeps the calls' part of the invariant.
LEMMA CallsStay ==
    ASSUME WalletInv, UNCHANGED <<clock, call>>
    PROVE  CallsCarryTokens'
  BY DEF WalletInv, CallsCarryTokens

LEMMA FailsKeeps ==
    ASSUME WalletInv, NEW t \in Tabs, Wallet!Fails(t), UNCHANGED clock
    PROVE  CallsCarryTokens'
<1>1. WalletTyped /\ CallsCarryTokens
  BY DEF WalletInv
<1>2. Wallet!Resume(t, "failed", 0)
  BY DEF Wallet!Fails
<1>3. \A u \in Tabs, c \in Calls :
         call'[u][c] = IF u = t /\ call[u][c].pc = "auth"
                       THEN [call[u][c] EXCEPT !.pc = "failed", !.token = 0] ELSE call[u][c]
  BY <1>1, <1>2, ResumeShape, 0 \in Nat
<1> SUFFICES ASSUME NEW u \in Tabs, NEW c \in Calls
             PROVE  /\ call'[u][c].pc = "send" /\ call'[u][c].again => clock < call'[u][c].token
                    /\ call'[u][c].pc # "refused"
  BY DEF CallsCarryTokens
<1>4. call[u][c] \in Call
  BY <1>1 DEF WalletTyped
<1>5. CASE u = t /\ call[u][c].pc = "auth"
  BY <1>3, <1>4, <1>5 DEF Call
<1>6. CASE ~(u = t /\ call[u][c].pc = "auth")
  BY <1>1, <1>3, <1>6 DEF CallsCarryTokens
<1> QED
  BY <1>5, <1>6

LEMMA WalletClean ==
    ASSUME WalletInv, Wallet!Cleanup
    PROVE  WalletInv'
<1> USE DEF WalletInv, Wallet!Cleanup, Wallet!clientVars
<1>1. WalletTyped'
  BY DEF WalletTyped, Wallet!Empty
<1>2. NoncesFresh'
  BY DEF NoncesFresh, Active, Wallet!Empty
<1>3. CallsCarryTokens'
  BY CallsStay
<1> QED
  BY <1>1, <1>2, <1>3

\* nonceHandler draws a nonce nobody has seen.
LEMMA WalletAsk ==
    ASSUME WalletInv, NEW t \in Tabs, Wallet!AskNonce(t)
    PROVE  WalletInv'
<1> USE DEF WalletInv
<1>1. /\ tab[t].pc = "begin" /\ issued < MaxNonces /\ issued' = issued + 1
      /\ slot' \in {slot, [nonce |-> issued + 1, expires |-> clock + NonceTTL]}
      /\ UNCHANGED <<clock, session, cookie, call, families, repeats>>
  <2>1. /\ tab[t].pc = "begin" /\ issued < MaxNonces /\ issued' = issued + 1
        /\ slot' = Wallet!SetIfFree(issued + 1)
        /\ UNCHANGED <<clock, session, cookie, call, families, repeats>>
    BY DEF Wallet!AskNonce, Wallet!clientVars
  <2>2. issued + 1 \in Nat /\ WalletTyped
    BY DEF WalletTyped
  <2> QED
    BY <2>1, <2>2, StoreType
<1>2. PICK to \in {"replace", "sign"} :
          tab' = [tab EXCEPT ![t] = [pc |-> to, nonce |-> issued + 1]]
  BY DEF Wallet!AskNonce
<1>4. issued \in Nat /\ issued + 1 \in 1 .. MaxNonces /\ families[issued + 1] = 0
  <2>1. issued \in Nat /\ issued + 1 \in 1 .. MaxNonces
    BY <1>1 DEF WalletTyped
  <2>2. families[issued + 1] \in {0, 1}
    BY <2>1 DEF WalletTyped
  <2>3. ~(families[issued + 1] > 0)
    BY <2>1 DEF NoncesFresh
  <2> QED
    BY <2>1, <2>2, <2>3
<1>3. WalletTyped'
  <2>1. slot' \in [nonce : 0 .. issued', expires : Nat]
    BY <1>1, <1>4 DEF WalletTyped
  <2>2. tab' \in [Tabs -> [pc : {"idle", "begin", "replace", "claim", "sign", "verify"},
                           nonce : 0 .. MaxNonces]]
    BY <1>2, <1>4 DEF WalletTyped
  <2> QED
    BY <1>1, <1>4, <2>1, <2>2 DEF WalletTyped
<1>5. /\ tab'[t].nonce = issued + 1
      /\ \A u \in Tabs \ {t} : tab'[u] = tab[u]
  BY <1>2 DEF WalletTyped
<1>6. slot'.nonce # 0 => families'[slot'.nonce] = 0
  BY <1>1, <1>4 DEF NoncesFresh
<1>7. \A n \in 1 .. MaxNonces : families'[n] > 0 => n <= issued'
  BY <1>1, <1>4 DEF NoncesFresh
<1>8. \A u \in Tabs : Active(u)' => tab'[u].nonce \in 1 .. issued'
  BY <1>1, <1>4, <1>5 DEF NoncesFresh, Active
<1>9. \A u \in Tabs \ {t} : Active(u)' => tab'[u].nonce <= issued
  BY <1>4, <1>5 DEF NoncesFresh, Active
<1>10. \A u, v \in Tabs : Active(u)' /\ Active(v)' /\ u # v => tab'[u].nonce # tab'[v].nonce
  <2> SUFFICES ASSUME NEW u \in Tabs, NEW v \in Tabs, Active(u)', Active(v)', u # v
               PROVE  tab'[u].nonce # tab'[v].nonce
    OBVIOUS
  <2>1. CASE u = t
    BY <1>4, <1>5, <1>8, <1>9, <2>1
  <2>2. CASE v = t
    BY <1>4, <1>5, <1>8, <1>9, <2>2
  <2>3. CASE u # t /\ v # t
    BY <1>5, <2>3 DEF NoncesFresh, Active
  <2> QED
    BY <2>1, <2>2, <2>3
<1>11. \A u \in Tabs : tab'[u].pc \in {"replace", "claim"} => families'[tab'[u].nonce] = 0
  BY <1>1, <1>4, <1>5 DEF NoncesFresh
<1> QED
  BY <1>1, <1>3, <1>6, <1>7, <1>8, <1>10, <1>11, CallsStay DEF NoncesFresh

\* A tab that goes on with the nonce it has, or gives up, leaves the nonces fresh as
\* long as the store only loses its nonce or takes one that a claiming tab held.
LEMMA FreshGoesOn ==
    ASSUME WalletTyped, NoncesFresh, NEW t \in Tabs, Active(t),
           NEW r \in [pc : {"idle", "claim", "sign", "verify"}, nonce : {0, tab[t].nonce}],
           r.pc # "idle" => r.nonce = tab[t].nonce,
           r.pc = "claim" => tab[t].pc = "replace",
           tab' = [tab EXCEPT ![t] = r], UNCHANGED <<issued, families>>,
           \/ slot'.nonce \in {0, slot.nonce}
           \/ slot'.nonce = tab[t].nonce /\ tab[t].pc = "claim"
    PROVE  NoncesFresh'
<1>1. tab'[t] = r /\ \A u \in Tabs \ {t} : tab'[u] = tab[u]
  BY DEF WalletTyped
<1>2. \A u \in Tabs : Active(u)' => Active(u) /\ tab'[u].nonce = tab[u].nonce
  BY <1>1 DEF Active
<1>3. slot'.nonce # 0 => families'[slot'.nonce] = 0
  BY DEF NoncesFresh
<1>4. \A u \in Tabs : Active(u)' => tab'[u].nonce \in 1 .. issued'
  BY <1>2 DEF NoncesFresh
<1>5. \A u, v \in Tabs : Active(u)' /\ Active(v)' /\ u # v => tab'[u].nonce # tab'[v].nonce
  BY <1>2 DEF NoncesFresh
<1>6. ASSUME NEW u \in Tabs, tab'[u].pc \in {"replace", "claim"}
      PROVE  families'[tab'[u].nonce] = 0
  BY <1>1, <1>6 DEF NoncesFresh
<1> QED
  BY <1>3, <1>4, <1>5, <1>6 DEF NoncesFresh

TabRecords == [pc : {"idle", "begin", "replace", "claim", "sign", "verify"}, nonce : 0 .. MaxNonces]

\* What a statement of an active tab may leave in the store.
StoreMayHold(t) ==
    /\ slot' \in [nonce : 0 .. issued, expires : Nat]
    /\ \/ slot'.nonce \in {0, slot.nonce}
       \/ slot'.nonce = tab[t].nonce /\ tab[t].pc = "claim"

\* A tab goes on with its nonce.
LEMMA TabMoves ==
    ASSUME WalletInv, NEW t \in Tabs, Active(t), StoreMayHold(t),
           NEW to \in {"claim", "sign", "verify"}, to = "claim" => tab[t].pc = "replace",
           tab' = [tab EXCEPT ![t].pc = to],
           UNCHANGED <<clock, issued, session, cookie, call, families>>
    PROVE  WalletInv'
<1>1. WalletTyped /\ NoncesFresh
  BY DEF WalletInv
<1>2. tab \in [Tabs -> TabRecords] /\ tab[t].nonce \in 0 .. MaxNonces
  BY <1>1 DEF WalletTyped, TabRecords
<1>3. PICK r : r = [pc |-> to, nonce |-> tab[t].nonce]
  OBVIOUS
<1>4. tab' = [tab EXCEPT ![t] = r]
  <2>1. tab[t] \in TabRecords
    BY <1>2
  <2>2. [tab[t] EXCEPT !.pc = to] = r
    BY <1>3, <2>1 DEF TabRecords
  <2> QED
    BY <2>2
<1>5. tab' \in [Tabs -> TabRecords]
  BY <1>2, <1>3, <1>4 DEF TabRecords
<1>6. WalletTyped'
  BY <1>1, <1>5 DEF WalletTyped, TabRecords, StoreMayHold
<1>7. /\ r \in [pc : {"idle", "claim", "sign", "verify"}, nonce : {0, tab[t].nonce}]
      /\ r.pc # "idle" => r.nonce = tab[t].nonce
      /\ r.pc = "claim" => tab[t].pc = "replace"
  BY <1>3
<1>8. NoncesFresh'
  BY <1>1, <1>4, <1>7, FreshGoesOn DEF StoreMayHold
<1> QED
  BY <1>6, <1>8, CallsStay DEF WalletInv

\* A tab gives up, and tells the calls that wait for it.
LEMMA TabFails ==
    ASSUME WalletInv, NEW t \in Tabs, Active(t), StoreMayHold(t), Wallet!Fails(t),
           UNCHANGED <<clock, issued, session, cookie, families>>
    PROVE  WalletInv'
<1>1. WalletTyped /\ NoncesFresh
  BY DEF WalletInv
<1>2. tab \in [Tabs -> TabRecords]
  BY <1>1 DEF WalletTyped, TabRecords
<1>3. PICK r : r = [pc |-> "idle", nonce |-> 0]
  OBVIOUS
<1>4. tab' = [tab EXCEPT ![t] = r] /\ Wallet!Resume(t, "failed", 0)
  BY <1>3 DEF Wallet!Fails, Wallet!Resting
<1>5. tab' \in [Tabs -> TabRecords]
  BY <1>2, <1>3, <1>4 DEF TabRecords
<1>6. call' \in [Tabs -> [Calls -> Call]]
  BY <1>1, <1>4, ResumeShape, 0 \in Nat
<1>7. WalletTyped'
  BY <1>1, <1>5, <1>6 DEF WalletTyped, TabRecords, StoreMayHold
<1>8. /\ r \in [pc : {"idle", "claim", "sign", "verify"}, nonce : {0, tab[t].nonce}]
      /\ r.pc # "idle" => r.nonce = tab[t].nonce
      /\ r.pc = "claim" => tab[t].pc = "replace"
  BY <1>3
<1>9. NoncesFresh'
  BY <1>1, <1>4, <1>8, FreshGoesOn DEF StoreMayHold
<1> QED
  BY <1>7, <1>9, FailsKeeps DEF WalletInv

\* nonceHandler's second and third statement, and the wallet's signature.
LEMMA WalletTabStep ==
    ASSUME WalletInv, NEW t \in Tabs,
           Wallet!Replace(t) \/ Wallet!Claim(t) \/ Wallet!Sign(t)
    PROVE  WalletInv'
<1>0. /\ WalletTyped /\ NoncesFresh /\ Active(t)
      /\ tab[t].nonce \in 1 .. issued /\ issued \in Nat /\ slot \in [nonce : 0 .. issued, expires : Nat]
  BY DEF WalletInv, WalletTyped, NoncesFresh, Active,
         Wallet!Replace, Wallet!Claim, Wallet!Sign
<1>1. CASE Wallet!Replace(t)
  <2>1. slot' \in {slot, [nonce |-> 0, expires |-> 0]}
    BY <1>0, <1>1, StoreType DEF Wallet!Empty, Wallet!Replace
  <2>2. StoreMayHold(t)
    BY <1>0, <2>1 DEF StoreMayHold
  <2> QED
    BY <1>0, <1>1, <2>2, TabMoves DEF Wallet!Replace, Wallet!clientVars
<1>2. CASE Wallet!Claim(t)
  <2>1. tab[t].nonce \in Nat /\ tab[t].pc = "claim" /\ slot' = Wallet!SetIfFree(tab[t].nonce)
    BY <1>0, <1>2 DEF Wallet!Claim
  <2>2. slot' \in {slot, [nonce |-> tab[t].nonce, expires |-> clock + NonceTTL]}
    BY <1>0, <2>1, StoreType
  <2>3. clock + NonceTTL \in Nat
    BY <1>0 DEF WalletTyped
  <2>4. StoreMayHold(t)
    BY <1>0, <2>1, <2>2, <2>3 DEF StoreMayHold
  <2>5. CASE Wallet!Live(slot)
    BY <1>0, <1>2, <2>4, <2>5, TabFails DEF Wallet!Claim
  <2>6. CASE ~Wallet!Live(slot)
    BY <1>0, <1>2, <2>4, <2>6, TabMoves DEF Wallet!Claim
  <2> QED
    BY <2>5, <2>6
<1>3. CASE Wallet!Sign(t)
  <2>1. StoreMayHold(t)
    BY <1>0, <1>3 DEF Wallet!Sign, StoreMayHold
  <2>2. CASE Wallet!Fails(t)
    BY <1>0, <1>3, <2>1, <2>2, TabFails DEF Wallet!Sign
  <2>3. CASE tab' = [tab EXCEPT ![t].pc = "verify"] /\ UNCHANGED call
    BY <1>0, <1>3, <2>1, <2>3, TabMoves DEF Wallet!Sign
  <2> QED
    BY <1>3, <2>2, <2>3 DEF Wallet!Sign
<1> QED
  BY <1>1, <1>2, <1>3

\* verifyHandler: the nonce opens its session and is gone.  Every call that waited is
\* sent with a token of this moment.
LEMMA WalletVerify ==
    ASSUME WalletInv, NEW t \in Tabs, Wallet!Verify(t)
    PROVE  WalletInv'
<1>0. /\ WalletTyped /\ NoncesFresh /\ CallsCarryTokens /\ Active(t)
      /\ tab[t].nonce \in 1 .. issued /\ issued \in 0 .. MaxNonces
      /\ slot \in [nonce : 0 .. issued, expires : Nat] /\ clock \in Nat
  BY DEF WalletInv, WalletTyped, NoncesFresh, Active, Wallet!Verify
<1>1. slot' \in {slot, [nonce |-> 0, expires |-> 0]}
  BY <1>0, StoreType DEF Wallet!Verify, Wallet!Empty
<1>2. StoreMayHold(t)
  BY <1>0, <1>1 DEF StoreMayHold
<1>3. CASE ~Wallet!Opens(tab[t].nonce)
  BY <1>0, <1>2, <1>3, TabFails DEF Wallet!Verify
<1>4. CASE Wallet!Opens(tab[t].nonce)
  <2> DEFINE n == tab[t].nonce
             token == clock + TokenTTL
  <2>1. /\ slot' = [nonce |-> 0, expires |-> 0] /\ slot.nonce = n
        /\ families' = [families EXCEPT ![n] = @ + 1]
        /\ cookie' = token
        /\ session' = [session EXCEPT ![t] = [token |-> token, until |-> clock + BelievedTTL]]
        /\ tab' = [tab EXCEPT ![t] = [pc |-> "idle", nonce |-> 0]]
        /\ Wallet!Resume(t, "send", token)
        /\ UNCHANGED <<clock, issued>>
    BY <1>4 DEF Wallet!Verify, Wallet!Opens, Wallet!GetDel, Wallet!Empty, Wallet!Resting
  <2>2. token \in Nat /\ clock + BelievedTTL \in Nat /\ clock < token
    BY <1>0
  <2>3. families[n] = 0 /\ n \in 1 .. MaxNonces
    BY <1>0, <2>1 DEF NoncesFresh
  <2>4. families' \in [1 .. MaxNonces -> {0, 1}]
        /\ \A m \in 1 .. MaxNonces : m # n => families'[m] = families[m]
    BY <1>0, <2>1, <2>3 DEF WalletTyped
  <2> HIDE DEF token
  <2>5. /\ call' \in [Tabs -> [Calls -> Call]]
        /\ \A u \in Tabs, c \in Calls :
              call'[u][c] = IF u = t /\ call[u][c].pc = "auth"
                            THEN [call[u][c] EXCEPT !.pc = "send", !.token = token]
                            ELSE call[u][c]
    BY <1>0, <2>1, <2>2, ResumeShape
  <2>6. WalletTyped'
    <3>1. tab' \in [Tabs -> TabRecords]
      BY <1>0, <2>1 DEF WalletTyped, TabRecords
    <3>2. session' \in [Tabs -> [token : Nat, until : Nat]]
      BY <1>0, <2>1, <2>2 DEF WalletTyped
    <3>3. slot' \in [nonce : 0 .. issued', expires : Nat]
      BY <1>0, <2>1
    <3> QED
      BY <1>0, <2>1, <2>2, <2>4, <2>5, <3>1, <3>2, <3>3 DEF WalletTyped, TabRecords
  <2>7. NoncesFresh'
    <3>1. tab'[t].pc = "idle" /\ \A u \in Tabs \ {t} : tab'[u] = tab[u]
      BY <1>0, <2>1 DEF WalletTyped
    <3>2. \A u \in Tabs : Active(u)' => Active(u) /\ tab'[u].nonce = tab[u].nonce /\ u # t
      BY <3>1 DEF Active
    <3>3. slot'.nonce = 0
      BY <2>1
    <3>4. \A m \in 1 .. MaxNonces : families'[m] > 0 => m <= issued'
      BY <1>0, <2>1, <2>4 DEF NoncesFresh
    <3>5. \A u \in Tabs : Active(u)' => tab'[u].nonce \in 1 .. issued'
      BY <2>1, <3>2, <1>0 DEF NoncesFresh
    <3>6. \A u, v \in Tabs : Active(u)' /\ Active(v)' /\ u # v => tab'[u].nonce # tab'[v].nonce
      BY <1>0, <3>2 DEF NoncesFresh
    <3>7. ASSUME NEW u \in Tabs, tab'[u].pc \in {"replace", "claim"}
          PROVE  families'[tab'[u].nonce] = 0
      <4>1. Active(u)' /\ u # t /\ tab'[u] = tab[u]
        BY <3>1, <3>7 DEF Active
      <4>2. tab[u].nonce # n /\ tab[u].nonce \in 1 .. MaxNonces /\ families[tab[u].nonce] = 0
        BY <1>0, <3>2, <3>7, <4>1 DEF NoncesFresh
      <4> QED
        BY <2>4, <4>1, <4>2
    <3> QED
      BY <3>3, <3>4, <3>5, <3>6, <3>7 DEF NoncesFresh
  <2>8. CallsCarryTokens'
    <3> SUFFICES ASSUME NEW u \in Tabs, NEW c \in Calls
                 PROVE  /\ call'[u][c].pc = "send" /\ call'[u][c].again => clock' < call'[u][c].token
                        /\ call'[u][c].pc # "refused"
      BY DEF CallsCarryTokens
    <3>1. call[u][c] \in Call
      BY <1>0 DEF WalletTyped
    <3>2. CASE u = t /\ call[u][c].pc = "auth"
      BY <2>1, <2>2, <2>5, <3>1, <3>2 DEF Call
    <3>3. CASE ~(u = t /\ call[u][c].pc = "auth")
      BY <1>0, <2>1, <2>5, <3>3 DEF CallsCarryTokens
    <3> QED
      BY <3>2, <3>3
  <2> QED
    BY <2>6, <2>7, <2>8 DEF WalletInv
<1> QED
  BY <1>3, <1>4

\* A message that opened its session never opens another.
LEMMA WalletVerifyAgain ==
    ASSUME WalletInv, NEW n \in 1 .. MaxNonces, Wallet!VerifyAgain(n)
    PROVE  WalletInv'
<1>0. WalletTyped /\ NoncesFresh
  BY DEF WalletInv
<1>1. ~Wallet!Opens(n)
  BY <1>0 DEF Wallet!VerifyAgain, Wallet!Opens, NoncesFresh
<1>2. /\ slot' \in {slot, [nonce |-> 0, expires |-> 0]}
      /\ UNCHANGED <<clock, issued, tab, session, cookie, call, families>>
  BY <1>0, <1>1, StoreType DEF Wallet!VerifyAgain, Wallet!Empty, Wallet!clientVars
<1>3. slot' \in [nonce : 0 .. issued', expires : Nat]
  BY <1>0, <1>2 DEF WalletTyped
<1>4. WalletTyped'
  BY <1>0, <1>2, <1>3 DEF WalletTyped
<1>5. NoncesFresh'
  BY <1>0, <1>2 DEF NoncesFresh, Active
<1> QED
  BY <1>2, <1>4, <1>5, CallsStay DEF WalletInv

SessionRecords == [token : Nat, until : Nat]

\* A call gets a new state, and nothing else of the calls changes.
LEMMA OneCall ==
    ASSUME WalletTyped, CallsCarryTokens, NEW t \in Tabs, NEW c \in Calls, NEW r \in Call,
           call' = [call EXCEPT ![t][c] = r], UNCHANGED clock,
           r.pc = "send" /\ r.again => clock < r.token, r.pc # "refused"
    PROVE  call' \in [Tabs -> [Calls -> Call]] /\ CallsCarryTokens'
<1>1. call' \in [Tabs -> [Calls -> Call]]
  BY DEF WalletTyped
<1>2. \A u \in Tabs, d \in Calls : call'[u][d] = IF u = t /\ d = c THEN r ELSE call[u][d]
  BY DEF WalletTyped
<1>3. CallsCarryTokens'
  BY <1>2 DEF CallsCarryTokens
<1> QED
  BY <1>1, <1>3

\* getSession, else a sign-in: a call that tries again has no session to reuse.
LEMMA AuthenticateKeeps ==
    ASSUME WalletInv, NEW t \in Tabs, NEW c \in Calls, NEW again \in BOOLEAN,
           NEW s \in [Tabs -> SessionRecords], again => s[t].until = 0,
           Wallet!Authenticate(t, c, s, again),
           UNCHANGED <<slot, clock, issued, cookie, families>>
    PROVE  WalletInv'
<1>0. WalletTyped /\ NoncesFresh /\ CallsCarryTokens /\ tab \in [Tabs -> TabRecords]
  BY DEF WalletInv, WalletTyped, TabRecords
<1>1. PICK r : r = [pc |-> IF clock < s[t].until THEN "send" ELSE "auth", again |-> again,
                    token |-> IF clock < s[t].until THEN s[t].token ELSE 0]
  OBVIOUS
<1>2. session' = s /\ call' = [call EXCEPT ![t][c] = r]
  BY <1>1 DEF Wallet!Authenticate
<1>3. r \in Call
  BY <1>1 DEF Call, SessionRecords
<1>4. r.pc # "refused" /\ (r.pc = "send" => ~again) /\ r.again = again
  BY <1>0, <1>1 DEF WalletTyped
<1>5. call' \in [Tabs -> [Calls -> Call]] /\ CallsCarryTokens'
  BY <1>0, <1>2, <1>3, <1>4, OneCall
<1>6. \/ tab' = tab
      \/ tab[t].pc = "idle" /\ tab' = [tab EXCEPT ![t].pc = "begin"]
  BY DEF Wallet!Authenticate
<1>7. tab' \in [Tabs -> TabRecords]
  BY <1>0, <1>6 DEF TabRecords
<1>8. \A u \in Tabs : Active(u)' => Active(u) /\ tab'[u] = tab[u]
  BY <1>0, <1>6 DEF Active, TabRecords
<1>9. WalletTyped'
  BY <1>0, <1>2, <1>5, <1>7 DEF WalletTyped, TabRecords, SessionRecords
<1>10. NoncesFresh'
  <2>1. \A u \in Tabs : tab'[u].pc \in {"replace", "claim"} => Active(u)' /\ tab'[u] = tab[u]
    BY <1>8 DEF Active
  <2> QED
    BY <1>0, <1>8, <2>1 DEF NoncesFresh
<1> QED
  BY <1>5, <1>9, <1>10 DEF WalletInv

LEMMA ClearedType ==
    ASSUME WalletTyped, NEW t \in Tabs
    PROVE  /\ session \in [Tabs -> SessionRecords]
           /\ Wallet!ClearedSession(t) \in [Tabs -> SessionRecords]
           /\ Wallet!ClearedSession(t)[t].until = 0
  BY DEF WalletTyped, SessionRecords, Wallet!ClearedSession, Wallet!NoSession

\* authFetch(): the first try, the answer, the second try.
LEMMA WalletCall ==
    ASSUME WalletInv, NEW t \in Tabs, NEW c \in Calls,
           Wallet!Fetch(t, c) \/ Wallet!Send(t, c) \/ Wallet!Return(t, c)
    PROVE  WalletInv'
<1>0. WalletTyped /\ NoncesFresh /\ CallsCarryTokens /\ call[t][c] \in Call
  BY DEF WalletInv, WalletTyped
<1>1. CASE Wallet!Fetch(t, c)
  BY <1>0, <1>1, ClearedType, AuthenticateKeeps DEF Wallet!Fetch
<1>2. ASSUME NEW r \in Call, r.pc \notin {"send", "refused"}, call' = [call EXCEPT ![t][c] = r],
             UNCHANGED <<slot, clock, issued, tab, session, cookie, families>>
      PROVE  WalletInv'
  <2>1. call' \in [Tabs -> [Calls -> Call]] /\ CallsCarryTokens'
    BY <1>0, <1>2, OneCall
  <2>2. WalletTyped'
    BY <1>0, <1>2, <2>1 DEF WalletTyped
  <2>3. NoncesFresh'
    BY <1>0, <1>2 DEF NoncesFresh, Active
  <2> QED
    BY <2>1, <2>2, <2>3 DEF WalletInv
<1>3. CASE Wallet!Send(t, c)
  <2>1. call[t][c].pc = "send" /\ UNCHANGED <<slot, clock, issued, cookie, families>>
    BY <1>3 DEF Wallet!Send
  <2>2. CASE Wallet!Authorized(t, c)
    <3>1. PICK r : r = [call[t][c] EXCEPT !.pc = "answered"]
      OBVIOUS
    <3>2. r \in Call /\ r.pc = "answered"
      BY <1>0, <3>1 DEF Call
    <3>3. call' = [call EXCEPT ![t][c] = r] /\ UNCHANGED <<session, tab>>
      <4>1. call' = [call EXCEPT ![t][c].pc = "answered"] /\ UNCHANGED <<session, tab>>
        BY <1>3, <2>2 DEF Wallet!Send
      <4> QED
        BY <3>1, <4>1
    <3> QED
      BY <1>2, <2>1, <3>2, <3>3
  <2>3. CASE ~Wallet!Authorized(t, c)
    <3>1. ~call[t][c].again
      BY <1>0, <2>1, <2>3 DEF CallsCarryTokens, Wallet!Authorized
    <3>2. Wallet!Authenticate(t, c, Wallet!ClearedSession(t), TRUE)
      BY <1>3, <2>3, <3>1 DEF Wallet!Send
    <3> QED
      BY <1>0, <2>1, <3>2, ClearedType, AuthenticateKeeps
  <2> QED
    BY <2>2, <2>3
<1>4. CASE Wallet!Return(t, c)
  <2>1. PICK r : r = Wallet!NoCall
    OBVIOUS
  <2>2. r \in Call /\ r.pc = "idle"
    BY <2>1 DEF Call, Wallet!NoCall
  <2> QED
    BY <1>2, <1>4, <2>1, <2>2 DEF Wallet!Return
<1> QED
  BY <1>1, <1>3, <1>4

\* The clock stands still while a request is on its way.
LEMMA WalletRest ==
    ASSUME WalletInv, Wallet!Tick \/ (\E t \in Tabs : Wallet!Logout(t)) \/ UNCHANGED signIn
    PROVE  WalletInv'
<1>0. WalletTyped /\ NoncesFresh /\ CallsCarryTokens
  BY DEF WalletInv
<1>1. CASE Wallet!Tick
  <2>1. /\ clock' = clock + 1 /\ \A t \in Tabs, c \in Calls : call[t][c].pc # "send"
        /\ UNCHANGED <<slot, issued, tab, session, cookie, call, families>>
    BY <1>1 DEF Wallet!Tick, Wallet!clientVars
  <2>2. WalletTyped'
    BY <1>0, <2>1 DEF WalletTyped
  <2>3. NoncesFresh'
    BY <1>0, <2>1 DEF NoncesFresh, Active
  <2>4. CallsCarryTokens'
    BY <1>0, <2>1 DEF CallsCarryTokens
  <2> QED
    BY <2>2, <2>3, <2>4 DEF WalletInv
<1>2. ASSUME NEW t \in Tabs, Wallet!Logout(t)
      PROVE  WalletInv'
  <2>1. /\ session' = Wallet!ClearedSession(t) /\ cookie' = 0
        /\ UNCHANGED <<slot, clock, issued, tab, call, families>>
    BY <1>2 DEF Wallet!Logout
  <2>2. session' \in [Tabs -> [token : Nat, until : Nat]]
    BY <1>0, <2>1, ClearedType DEF SessionRecords
  <2>3. WalletTyped'
    BY <1>0, <2>1, <2>2 DEF WalletTyped
  <2>4. NoncesFresh'
    BY <1>0, <2>1 DEF NoncesFresh, Active
  <2> QED
    BY <2>1, <2>3, <2>4, CallsStay DEF WalletInv
<1>3. CASE UNCHANGED signIn
  <2>1. WalletTyped'
    BY <1>0, <1>3 DEF WalletTyped, signIn
  <2>2. NoncesFresh'
    BY <1>0, <1>3 DEF NoncesFresh, Active, signIn
  <2> QED
    BY <1>3, <2>1, <2>2, CallsStay DEF WalletInv, signIn
<1> QED
  BY <1>1, <1>2, <1>3

LEMMA WalletStep ==
    ASSUME WalletInv, Wallet!Next \/ UNCHANGED signIn
    PROVE  WalletInv'
<1>1. ASSUME NEW t \in Tabs, Wallet!AskNonce(t) PROVE WalletInv'
  BY <1>1, WalletAsk
<1>2. ASSUME NEW t \in Tabs, Wallet!Replace(t) \/ Wallet!Claim(t) \/ Wallet!Sign(t) PROVE WalletInv'
  BY <1>2, WalletTabStep
<1>3. ASSUME NEW t \in Tabs, Wallet!Verify(t) PROVE WalletInv'
  BY <1>3, WalletVerify
<1>4. ASSUME NEW t \in Tabs, NEW c \in Calls,
             Wallet!Fetch(t, c) \/ Wallet!Send(t, c) \/ Wallet!Return(t, c)
      PROVE  WalletInv'
  BY <1>4, WalletCall
<1>5. ASSUME NEW n \in 1 .. MaxNonces, Wallet!VerifyAgain(n) PROVE WalletInv'
  BY <1>5, WalletVerifyAgain
<1>6. CASE Wallet!Cleanup
  BY <1>6, WalletClean
<1>7. CASE Wallet!Tick \/ (\E t \in Tabs : Wallet!Logout(t)) \/ UNCHANGED signIn
  BY <1>7, WalletRest
<1> QED
  BY <1>1, <1>2, <1>3, <1>4, <1>5, <1>6, <1>7 DEF Wallet!Next

\* One signed message, one session, whichever tabs draw nonces, replace each other's
\* and deliver late or twice; and no call of authFetch that signed in again is refused,
\* whenever the token dies, whatever the tab believes and whoever logs out meanwhile.
THEOREM SignInsHold == ServicesSpec => []SessionsHold
<1>1. ServicesInit => WalletInv
  BY WalletInit DEF ServicesInit
<1>2. WalletInv /\ [ServicesNext]_services => WalletInv'
  <2>1. [ServicesNext]_services => Wallet!Next \/ UNCHANGED signIn
    BY DEF ServicesNext, services
  <2> QED
    BY <2>1, WalletStep
<1>3. WalletInv => SessionsHold
  <2>1. WalletInv => Wallet!NeverRefused
    BY DEF WalletInv, CallsCarryTokens, Wallet!NeverRefused
  <2>2. ASSUME WalletInv, NEW n \in 1 .. MaxNonces PROVE families[n] <= 1
    <3>1. families[n] \in {0, 1}
      BY <2>2 DEF WalletInv, WalletTyped
    <3> QED
      BY <3>1
  <2> QED
    BY <2>1, <2>2 DEF SessionsHold, Wallet!SessionPerNonce
<1> QED
  BY <1>1, <1>2, <1>3, PTL DEF ServicesSpec

----------------------------------------------------------------------------
(* The shapes of the sign-in's state                                       *)

\* The clock stops, so does what expires; a tab knows nonces that were drawn, and never
\* believes in a token for less time than it lives.
StoreShaped == slot.expires <= MaxClock + NonceTTL
TabsShaped == \A t \in Tabs : tab[t].nonce <= issued
SessionsShaped == \A t \in Tabs : session[t].token <= session[t].until

WalletShapes ==
    /\ clock <= MaxClock /\ repeats \in 0 .. MaxRepeats
    /\ StoreShaped /\ TabsShaped /\ SessionsShaped

LEMMA WalletShapesInit == Wallet!Init => WalletShapes
BY DEF Wallet!Init, Wallet!Empty, Wallet!Resting, Wallet!NoSession, WalletShapes, StoreShaped,
       TabsShaped, SessionsShaped

\* What each statement leaves in the store.
LEMMA StoreStep ==
    ASSUME WalletTyped, clock <= MaxClock, StoreShaped, Wallet!Next \/ UNCHANGED signIn
    PROVE  StoreShaped'
<1>0. clock \in Nat /\ issued \in Nat /\ Wallet!Empty.expires = 0
  BY DEF WalletTyped, Wallet!Empty
<1>1. CASE UNCHANGED slot
  BY <1>1 DEF StoreShaped
<1>2. CASE slot' = Wallet!GetDel(slot)
  BY <1>0, <1>2 DEF Wallet!GetDel, StoreShaped
<1>3. ASSUME NEW n, slot' = Wallet!SetIfFree(n) PROVE StoreShaped'
  BY <1>0, <1>3 DEF Wallet!SetIfFree, StoreShaped
<1>4. ASSUME NEW t \in Tabs, Wallet!AskNonce(t) PROVE StoreShaped'
  BY <1>3, <1>4 DEF Wallet!AskNonce
<1>5. ASSUME NEW t \in Tabs, Wallet!Claim(t) PROVE StoreShaped'
  BY <1>3, <1>5 DEF Wallet!Claim
<1>6. ASSUME NEW t \in Tabs, Wallet!Replace(t) \/ Wallet!Verify(t) PROVE StoreShaped'
  BY <1>2, <1>6 DEF Wallet!Replace, Wallet!Verify
<1>7. ASSUME NEW n, Wallet!VerifyAgain(n) PROVE StoreShaped'
  BY <1>2, <1>7 DEF Wallet!VerifyAgain
<1>8. CASE Wallet!Cleanup
  BY <1>0, <1>8 DEF Wallet!Cleanup, StoreShaped
<1>9. ASSUME NEW t \in Tabs, Wallet!Sign(t) \/ Wallet!Logout(t) PROVE StoreShaped'
  BY <1>1, <1>9 DEF Wallet!Sign, Wallet!Logout
<1>10. ASSUME NEW t \in Tabs, NEW c \in Calls, Wallet!Fetch(t, c) \/ Wallet!Send(t, c) \/ Wallet!Return(t, c)
       PROVE  StoreShaped'
  BY <1>1, <1>10 DEF Wallet!Fetch, Wallet!Send, Wallet!Return
<1>11. CASE Wallet!Tick \/ UNCHANGED signIn
  BY <1>1, <1>11 DEF Wallet!Tick, signIn
<1> QED
  BY <1>4, <1>5, <1>6, <1>7, <1>8, <1>9, <1>10, <1>11 DEF Wallet!Next

\* A tab's nonce is the one it has, none, or the one just drawn.
LEMMA TabsStep ==
    ASSUME WalletTyped, TabsShaped, Wallet!Next \/ UNCHANGED signIn
    PROVE  TabsShaped'
<1>0. /\ tab \in [Tabs -> TabRecords] /\ issued \in Nat
      /\ \A t \in Tabs : tab[t] \in TabRecords /\ tab[t].nonce <= issued /\ tab[t].nonce \in Nat
  BY DEF WalletTyped, TabsShaped, TabRecords
<1>1. CASE UNCHANGED <<tab, issued>>
  BY <1>1 DEF TabsShaped
<1>2. ASSUME NEW t \in Tabs, NEW r, tab' = [tab EXCEPT ![t] = r], r.nonce <= issued', issued' >= issued,
             issued' \in Nat
      PROVE  TabsShaped'
  <2>1. \A u \in Tabs : tab'[u] = IF u = t THEN r ELSE tab[u]
    BY <1>0, <1>2
  <2> QED
    BY <1>0, <1>2, <2>1 DEF TabsShaped
<1>3. ASSUME NEW t \in Tabs, NEW p, tab' = [tab EXCEPT ![t].pc = p], UNCHANGED issued PROVE TabsShaped'
  <2>1. PICK r : r = [tab[t] EXCEPT !.pc = p]
    OBVIOUS
  <2>2. tab' = [tab EXCEPT ![t] = r] /\ r.nonce = tab[t].nonce
    BY <1>0, <1>3, <2>1 DEF TabRecords
  <2>3. r.nonce <= issued' /\ issued' >= issued /\ issued' \in Nat
    BY <1>0, <1>3, <2>2
  <2> QED
    BY <1>2, <2>2, <2>3
<1>4. ASSUME NEW t \in Tabs, tab' = [tab EXCEPT ![t] = Wallet!Resting], UNCHANGED issued PROVE TabsShaped'
  <2>1. Wallet!Resting.nonce = 0
    BY DEF Wallet!Resting
  <2>2. Wallet!Resting.nonce <= issued' /\ issued' >= issued /\ issued' \in Nat
    BY <1>0, <1>4, <2>1
  <2> QED
    BY <1>2, <1>4, <2>2
<1>5. ASSUME NEW t \in Tabs, Wallet!AskNonce(t) PROVE TabsShaped'
  <2>1. PICK p, r : /\ r = [pc |-> p, nonce |-> issued + 1]
                    /\ tab' = [tab EXCEPT ![t] = r] /\ issued' = issued + 1
    BY <1>5 DEF Wallet!AskNonce
  <2>2. r.nonce <= issued' /\ issued' >= issued /\ issued' \in Nat
    BY <1>0, <2>1
  <2> QED
    BY <1>2, <2>1, <2>2
<1>6. ASSUME NEW t \in Tabs, Wallet!Replace(t) \/ Wallet!Claim(t) \/ Wallet!Sign(t) \/ Wallet!Verify(t)
      PROVE  TabsShaped'
  <2>1. UNCHANGED issued
    BY <1>6 DEF Wallet!Replace, Wallet!Claim, Wallet!Sign, Wallet!Verify
  <2>2. tab' = [tab EXCEPT ![t] = Wallet!Resting] \/ \E p : tab' = [tab EXCEPT ![t].pc = p]
    BY <1>6 DEF Wallet!Replace, Wallet!Claim, Wallet!Sign, Wallet!Verify, Wallet!Fails
  <2> QED
    BY <1>3, <1>4, <2>1, <2>2
<1>7. ASSUME NEW t \in Tabs, NEW c \in Calls, Wallet!Fetch(t, c) \/ Wallet!Send(t, c) PROVE TabsShaped'
  <2>1. UNCHANGED issued
    BY <1>7 DEF Wallet!Fetch, Wallet!Send
  <2>2. UNCHANGED tab \/ tab' = [tab EXCEPT ![t].pc = "begin"]
    BY <1>7 DEF Wallet!Fetch, Wallet!Send, Wallet!Authenticate
  <2> QED
    BY <1>1, <1>3, <2>1, <2>2
<1>8. ASSUME NEW t \in Tabs, NEW c \in Calls, Wallet!Return(t, c) PROVE TabsShaped'
  BY <1>1, <1>8 DEF Wallet!Return
<1>9. ASSUME NEW t \in Tabs, Wallet!Logout(t) PROVE TabsShaped'
  BY <1>1, <1>9 DEF Wallet!Logout
<1>10. ASSUME NEW n, Wallet!VerifyAgain(n) PROVE TabsShaped'
  BY <1>1, <1>10 DEF Wallet!VerifyAgain
<1>11. CASE Wallet!Cleanup \/ Wallet!Tick \/ UNCHANGED signIn
  BY <1>1, <1>11 DEF Wallet!Cleanup, Wallet!Tick, signIn
<1> QED
  BY <1>5, <1>6, <1>7, <1>8, <1>9, <1>10, <1>11 DEF Wallet!Next

\* A session is cleared, or opened with what the tab takes the token for.
LEMMA SessionsStep ==
    ASSUME WalletTyped, SessionsShaped, Wallet!Next \/ UNCHANGED signIn
    PROVE  SessionsShaped'
<1>0. session \in [Tabs -> SessionRecords] /\ clock \in Nat
  BY DEF WalletTyped, SessionRecords
<1>1. CASE UNCHANGED session
  BY <1>1 DEF SessionsShaped
<1>2. ASSUME NEW t \in Tabs, NEW r, session' = [session EXCEPT ![t] = r], r.token <= r.until
      PROVE  SessionsShaped'
  <2>1. \A u \in Tabs : session'[u] = IF u = t THEN r ELSE session[u]
    BY <1>0, <1>2
  <2> QED
    BY <1>2, <2>1 DEF SessionsShaped
<1>3. ASSUME NEW t \in Tabs, session' = Wallet!ClearedSession(t) PROVE SessionsShaped'
  <2>1. Wallet!NoSession.token <= Wallet!NoSession.until
    BY DEF Wallet!NoSession
  <2> QED
    BY <1>2, <1>3, <2>1 DEF Wallet!ClearedSession
<1>4. ASSUME NEW t \in Tabs, Wallet!Verify(t) PROVE SessionsShaped'
  <2>1. CASE session' = [session EXCEPT ![t] = [token |-> clock + TokenTTL, until |-> clock + BelievedTTL]]
    <3>1. PICK r : r = [token |-> clock + TokenTTL, until |-> clock + BelievedTTL]
      OBVIOUS
    <3>2. r.token <= r.until
      BY <1>0, <3>1
    <3> QED
      BY <1>2, <2>1, <3>1, <3>2
  <2> QED
    BY <1>1, <1>4, <2>1 DEF Wallet!Verify
<1>5. ASSUME NEW t \in Tabs, NEW c \in Calls, Wallet!Fetch(t, c) \/ Wallet!Send(t, c) PROVE SessionsShaped'
  BY <1>1, <1>3, <1>5 DEF Wallet!Fetch, Wallet!Send, Wallet!Authenticate
<1>6. ASSUME NEW t \in Tabs, Wallet!Logout(t) PROVE SessionsShaped'
  BY <1>3, <1>6 DEF Wallet!Logout
<1>7. ASSUME NEW t \in Tabs, Wallet!AskNonce(t) \/ Wallet!Replace(t) \/ Wallet!Claim(t) \/ Wallet!Sign(t)
      PROVE  SessionsShaped'
  BY <1>1, <1>7 DEF Wallet!AskNonce, Wallet!Replace, Wallet!Claim, Wallet!Sign, Wallet!clientVars
<1>8. ASSUME NEW t \in Tabs, NEW c \in Calls, Wallet!Return(t, c) PROVE SessionsShaped'
  BY <1>1, <1>8 DEF Wallet!Return
<1>9. ASSUME NEW n, Wallet!VerifyAgain(n) PROVE SessionsShaped'
  BY <1>1, <1>9 DEF Wallet!VerifyAgain, Wallet!clientVars
<1>10. CASE Wallet!Cleanup \/ Wallet!Tick \/ UNCHANGED signIn
  BY <1>1, <1>10 DEF Wallet!Cleanup, Wallet!Tick, Wallet!clientVars, signIn
<1> QED
  BY <1>4, <1>5, <1>6, <1>7, <1>8, <1>9, <1>10 DEF Wallet!Next

LEMMA WalletShapesStep ==
    ASSUME WalletInv, WalletShapes, Wallet!Next \/ UNCHANGED signIn
    PROVE  WalletShapes'
<1>0. WalletTyped /\ clock \in Nat /\ clock <= MaxClock /\ repeats \in 0 .. MaxRepeats
  BY DEF WalletInv, WalletTyped, WalletShapes
<1>1. StoreShaped' /\ TabsShaped' /\ SessionsShaped'
  BY <1>0, StoreStep, TabsStep, SessionsStep DEF WalletShapes
<1>2. \/ UNCHANGED <<clock, repeats>>
      \/ UNCHANGED repeats /\ clock < MaxClock /\ clock' = clock + 1
      \/ UNCHANGED clock /\ repeats < MaxRepeats /\ repeats' = repeats + 1
  BY DEF Wallet!Next, Wallet!AskNonce, Wallet!Replace, Wallet!Claim, Wallet!Sign, Wallet!Verify,
         Wallet!Logout, Wallet!Fetch, Wallet!Send, Wallet!Return, Wallet!VerifyAgain,
         Wallet!Cleanup, Wallet!Tick, signIn
<1> QED
  BY <1>0, <1>1, <1>2 DEF WalletShapes

LEMMA WalletShape == WalletInv /\ WalletShapes => Wallet!TypeOK
BY DEF WalletInv, WalletTyped, WalletShapes, StoreShaped, TabsShaped, SessionsShaped, Wallet!TypeOK

HIDE SignInAssumption

----------------------------------------------------------------------------
(* The pool of RPC endpoints                                               *)

LogValues == {<<>>, Pool!AllLogs, Pool!Front(Pool!AllLogs)}

CallerRecords == [pc : {"idle", "load", "scan", "fan", "ask", "done"}, op : Ops \cup {"none"},
                  start : Nat, i : Nat, logs : LogValues, asked : SUBSET Pool!Endpoint,
                  tried : BOOLEAN, result : {"none", "ok", "failed", "agreed"}]

LEMMA LogFacts ==
    <<>> \in LogValues /\ Pool!AllLogs \in LogValues /\ Pool!Front(Pool!AllLogs) \in LogValues
BY DEF LogValues

PoolTyped ==
    /\ poolState \in [Pool!Endpoint -> {"ok", "down", "throttled"}]
    /\ cur \in Pool!Endpoint
    /\ caller \in [Callers -> CallerRecords]

\* The logs a fan-out holds are complete, or one of the endpoints it asked lags.
FanHolds(r) == r.pc = "fan" =>
    /\ r.op = "logs" /\ r.result = "none"
    /\ r.logs \in {<<>>, Pool!AllLogs} \/ r.asked \cap Lagging # {}

PoolInv ==
    /\ PoolTyped
    /\ \A c \in Callers : FanHolds(caller[c])
    /\ Pool!SentIsHeld
    /\ Pool!AgreedIsComplete

LEMMA EndpointsExist ==
    /\ 0 \in Pool!Endpoint
    /\ \A a \in Nat : a % PoolSize \in Pool!Endpoint
BY PoolAssumption DEF Pool!Endpoint

LEMMA PoolInit == Pool!Init => PoolInv
<1> SUFFICES ASSUME Pool!Init PROVE PoolInv
  OBVIOUS
<1>1. PICK r : r = Pool!Idle
  OBVIOUS
<1>2. r \in CallerRecords /\ r.pc = "idle" /\ r.result = "none"
  BY <1>1, LogFacts DEF Pool!Idle, CallerRecords
<1>3. caller = [c \in Callers |-> r]
  BY <1>1 DEF Pool!Init
<1> QED
  BY <1>2, <1>3, EndpointsExist
     DEF Pool!Init, PoolInv, PoolTyped, FanHolds, Pool!SentIsHeld, Pool!AgreedIsComplete

\* The first endpoint that answered its probe is an endpoint.
LEMMA PromotedType ==
    ASSUME cur \in Pool!Endpoint
    PROVE  Pool!Promoted \in Pool!Endpoint
<1> DEFINE healthy == {e \in Pool!Endpoint : probe[e + 1]}
<1>1. healthy \subseteq Nat /\ healthy \subseteq Pool!Endpoint
  BY PoolAssumption DEF Pool!Endpoint
<1>2. CASE healthy = {}
  BY <1>2 DEF Pool!Promoted
<1>3. CASE healthy # {}
  <2> HIDE DEF healthy
  <2>1. PICK e \in healthy : \A f \in healthy : ~(<<f, e>> \in OpToRel(<, Nat))
    BY <1>1, <1>3, NatLessThanWellFounded, WFMin
  <2>2. OpToRel(<, Nat) = {pair \in Nat \X Nat : pair[1] < pair[2]}
    BY Zenon DEF OpToRel
  <2>3. \A f \in healthy : e <= f
    <3> SUFFICES ASSUME NEW f \in healthy, f < e
                 PROVE  FALSE
      BY <1>1
    <3>1. <<f, e>> \in Nat \X Nat /\ <<f, e>>[1] < <<f, e>>[2]
      BY <1>1
    <3> QED
      BY <2>1, <2>2, <3>1
  <2>4. (CHOOSE x \in healthy : \A f \in healthy : x <= f) \in healthy
    BY <2>3
  <2> QED
    BY <1>1, <1>3, <2>4 DEF Pool!Promoted, healthy
<1> QED
  BY <1>2, <1>3

\* What an endpoint's answer is worth: a success of a send means that an endpoint holds
\* the transaction already or takes it now; logs are complete unless the endpoint lags.
LEMMA AnswerShape ==
    ASSUME PoolTyped, NEW c \in Callers, NEW e \in Pool!Endpoint,
           NEW answer \in Pool!Answers(c, e)
    PROVE  /\ answer \in [ok : BOOLEAN, limit : BOOLEAN, logs : LogValues]
           /\ answer.ok /\ caller[c].op = "send" => c \in held \/ Pool!Takes(c, e)
           /\ answer.ok /\ caller[c].op = "logs" => answer.logs = Pool!AllLogs \/ e \in Lagging
<1>1. poolState[e] \in {"ok", "down", "throttled"}
  BY DEF PoolTyped
<1>3. CASE poolState[e] = "down"
  <2>1. answer = [ok |-> FALSE, limit |-> FALSE, logs |-> <<>>]
    BY <1>3 DEF Pool!Answers, Pool!Error
  <2> QED
    BY <2>1, LogFacts
<1>7. CASE poolState[e] = "throttled"
  <2>1. answer = [ok |-> FALSE, limit |-> TRUE, logs |-> <<>>]
    BY <1>7 DEF Pool!Answers, Pool!Error
  <2> QED
    BY <2>1, LogFacts
<1>4. CASE poolState[e] = "ok" /\ caller[c].op = "logs"
  <2>1. PICK l \in Pool!LogsOf(e) : answer = [ok |-> TRUE, limit |-> FALSE, logs |-> l]
    BY <1>4 DEF Pool!Answers
  <2> QED
    BY LogFacts, <1>4, <2>1 DEF Pool!LogsOf
<1>5. CASE poolState[e] = "ok" /\ caller[c].op = "send"
  <2>1. PICK a \in Pool!SendAnswers(c) : answer = [Pool!Error EXCEPT !.ok = Pool!Accepted(a)]
    BY <1>5 DEF Pool!Answers
  <2>2. answer = [ok |-> Pool!Accepted(a), limit |-> FALSE, logs |-> <<>>]
    BY <2>1 DEF Pool!Error
  <2>3. Pool!Accepted(a) \in BOOLEAN
    BY DEF Pool!Accepted
  <2>4. Pool!Accepted(a) => c \in held \/ Pool!Takes(c, e)
    BY <1>5 DEF Pool!SendAnswers, Pool!Accepted, Pool!Takes
  <2> QED
    BY <1>5, <2>2, <2>3, <2>4, LogFacts
<1>6. CASE poolState[e] = "ok" /\ caller[c].op \notin {"logs", "send"}
  BY <1>6, LogFacts DEF Pool!Answers, Pool!Error
<1> QED
  BY <1>1, <1>3, <1>4, <1>5, <1>6, <1>7

\* One call gets a new record that is as good as the old one; no other changes.
LEMMA OneCaller ==
    ASSUME PoolInv, NEW c \in Callers, NEW r \in CallerRecords, caller' = [caller EXCEPT ![c] = r],
           poolState' = poolState, cur' \in Pool!Endpoint, FanHolds(r),
           \A d \in Callers : d \in held /\ d # c => d \in held',
           r.op = "send" /\ r.result = "ok" => c \in held',
           r.result = "agreed" /\ Pool!Cardinality(Lagging) < 2 => r.logs = Pool!AllLogs
    PROVE  PoolInv'
<1>1. caller' \in [Callers -> CallerRecords]
      /\ \A d \in Callers : caller'[d] = IF d = c THEN r ELSE caller[d]
  BY DEF PoolInv, PoolTyped
<1>2. PoolTyped'
  BY <1>1 DEF PoolInv, PoolTyped
<1>3. \A d \in Callers : FanHolds(caller[d])'
  BY <1>1 DEF PoolInv, FanHolds
<1>4. Pool!SentIsHeld'
  BY <1>1 DEF PoolInv, Pool!SentIsHeld
<1>5. Pool!AgreedIsComplete'
  BY <1>1 DEF PoolInv, Pool!AgreedIsComplete
<1> QED
  BY <1>2, <1>3, <1>4, <1>5 DEF PoolInv

\* A call that begins forgets what an earlier one learned.
LEMMA PoolBegin ==
    ASSUME PoolInv, NEW c \in Callers, NEW op \in Ops, Pool!Begin(c, op)
    PROVE  PoolInv'
<1>1. PICK r : r = [Pool!Idle EXCEPT !.pc = IF op = "logs" /\ PoolSize >= 2 THEN "fan" ELSE "load",
                                    !.op = op]
  OBVIOUS
<1>2. r \in CallerRecords /\ r.result = "none" /\ FanHolds(r)
  BY <1>1, LogFacts DEF Pool!Idle, CallerRecords, FanHolds
<1>3. caller' = [caller EXCEPT ![c] = r] /\ held' = held \ {c} /\ UNCHANGED <<poolState, cur>>
  BY <1>1 DEF Pool!Begin, Pool!Set
<1> QED
  BY <1>2, <1>3, OneCaller DEF PoolInv, PoolTyped

\* Steps of call() that ask nobody keep the call's operation and what it learned.
LEMMA PoolLocal ==
    ASSUME PoolInv, NEW c \in Callers,
           \/ Pool!LoadCursor(c) \/ Pool!Scan(c) \/ Pool!GiveUp(c) \/ Pool!Return(c)
           \/ Pool!FanTimeout(c)
    PROVE  PoolInv'
<1>0. /\ caller[c] \in CallerRecords /\ cur \in Pool!Endpoint /\ cur \in Nat
      /\ FanHolds(caller[c])
  BY PoolAssumption DEF PoolInv, PoolTyped, Pool!Endpoint
<1>1. ASSUME NEW r \in CallerRecords, r.pc # "fan",
             \/ r.op = caller[c].op /\ r.result = caller[c].result /\ r.logs = caller[c].logs
             \/ r.result \in {"none", "failed"},
             caller' = [caller EXCEPT ![c] = r], UNCHANGED <<poolState, cur, held>>
      PROVE  PoolInv'
  <2>1. r.op = "send" /\ r.result = "ok" => c \in held'
    BY <1>1 DEF PoolInv, Pool!SentIsHeld
  <2>2. r.result = "agreed" /\ Pool!Cardinality(Lagging) < 2 => r.logs = Pool!AllLogs
    BY <1>1 DEF PoolInv, Pool!AgreedIsComplete
  <2> QED
    BY <1>0, <1>1, <2>1, <2>2, OneCaller DEF FanHolds
<1>2. CASE Pool!LoadCursor(c)
  <2>1. PICK r : r = [caller[c] EXCEPT !.pc = "scan", !.start = cur]
    OBVIOUS
  <2>2. /\ r \in CallerRecords /\ r.pc = "scan" /\ r.op = caller[c].op
        /\ r.result = caller[c].result /\ r.logs = caller[c].logs
    BY <1>0, <2>1 DEF CallerRecords
  <2> QED
    BY <1>1, <1>2, <2>1, <2>2 DEF Pool!LoadCursor, Pool!Set
<1>3. CASE Pool!Scan(c)
  <2>1. PICK r : r = CASE caller[c].i = PoolSize -> Pool!Finish(c, "failed")
                       [] caller[c].i < PoolSize /\ limited[Pool!Turn(c)] > 0 ->
                            [caller[c] EXCEPT !.i = @ + 1]
                       [] OTHER -> [caller[c] EXCEPT !.pc = "ask"]
    OBVIOUS
  <2>2. \/ r = Pool!Finish(c, "failed")
        \/ r = [caller[c] EXCEPT !.i = @ + 1]
        \/ r = [caller[c] EXCEPT !.pc = "ask"]
    BY <1>0, <2>1, PoolAssumption DEF CallerRecords
  <2>3. caller[c].pc = "scan"
    BY <1>3 DEF Pool!Scan, Pool!At
  <2> DEFINE Harmless(x) ==
          /\ x \in CallerRecords /\ x.pc # "fan"
          /\ \/ x.op = caller[c].op /\ x.result = caller[c].result /\ x.logs = caller[c].logs
             \/ x.result \in {"none", "failed"}
  <2>4. r = Pool!Finish(c, "failed") => Harmless(r)
    BY <1>0 DEF CallerRecords, Pool!Finish
  <2>5. r = [caller[c] EXCEPT !.i = @ + 1] => Harmless(r)
    BY <1>0, <2>3 DEF CallerRecords
  <2>6. r = [caller[c] EXCEPT !.pc = "ask"] => Harmless(r)
    BY <1>0 DEF CallerRecords
  <2>7. Harmless(r)
    BY <2>2, <2>4, <2>5, <2>6
  <2> QED
    BY <1>1, <1>3, <2>1, <2>7 DEF Pool!Scan, Pool!Set
<1>4. CASE Pool!GiveUp(c)
  <2>1. PICK r : r = Pool!Finish(c, "failed")
    OBVIOUS
  <2>2. r \in CallerRecords /\ r.pc = "done" /\ r.result = "failed"
    BY <1>0, <2>1 DEF CallerRecords, Pool!Finish
  <2> QED
    BY <1>1, <1>4, <2>1, <2>2 DEF Pool!GiveUp, Pool!Set
<1>5. CASE Pool!Return(c)
  <2>1. PICK r : r = Pool!Idle
    OBVIOUS
  <2>2. r \in CallerRecords /\ r.pc = "idle" /\ r.result = "none"
    BY <2>1, LogFacts DEF CallerRecords, Pool!Idle
  <2> QED
    BY <1>1, <1>5, <2>1, <2>2 DEF Pool!Return, Pool!Set
<1>6. CASE Pool!FanTimeout(c)
  <2>1. PICK r : r = [caller[c] EXCEPT !.pc = "load", !.asked = {}, !.logs = <<>>]
    OBVIOUS
  <2>2. caller[c].pc = "fan" /\ caller[c].result = "none"
    BY <1>0, <1>6 DEF Pool!FanTimeout, Pool!At, FanHolds
  <2>3. r \in CallerRecords /\ r.pc = "load" /\ r.result = "none"
    BY <1>0, <2>1, <2>2, LogFacts DEF CallerRecords
  <2> QED
    BY <1>1, <1>6, <2>1, <2>3 DEF Pool!FanTimeout, Pool!Set
<1> QED
  BY <1>2, <1>3, <1>4, <1>5, <1>6

\* Two endpoints that lag are more than the comparison can bear.
LEMMA OneLags ==
    ASSUME NEW d \in Lagging, NEW e \in Lagging, d # e
    PROVE  ~(Pool!Cardinality(Lagging) < 2)
<1>1. Pool!Cardinality(Lagging) = Cardinality(Lagging)
  BY Zenon DEF Pool!Cardinality, Cardinality
<1>2. IsFiniteSet(Lagging)
  <2>1. IsFiniteSet(0 .. PoolSize - 1)
    BY PoolAssumption, FS_Interval
  <2> QED
    BY <2>1, PoolAssumption, FS_Subset
<1>3. Cardinality(Lagging) = Cardinality(Lagging \ {d}) + 1 /\ IsFiniteSet(Lagging \ {d})
  <2>1. IsFiniteSet(Lagging \ {d}) /\ Cardinality(Lagging \ {d}) = Cardinality(Lagging) - 1
    BY <1>2, FS_RemoveElement
  <2>2. Cardinality(Lagging) \in Nat
    BY <1>2, FS_CardinalityType
  <2> QED
    BY <2>1, <2>2
<1>4. Cardinality(Lagging \ {d}) \in Nat /\ Cardinality(Lagging \ {d}) # 0
  BY <1>3, FS_CardinalityType, FS_EmptySet
<1> QED
  BY <1>1, <1>3, <1>4

\* An answer to call() ends it or moves it on; a success of a send is held.
LEMMA PoolLearns ==
    ASSUME PoolInv, NEW c \in Callers, Pool!Answer(c)
    PROVE  PoolInv'
<1> DEFINE e == Pool!Turn(c)
<1>0. /\ PoolTyped /\ caller[c] \in CallerRecords /\ cur \in Pool!Endpoint
      /\ caller[c].start \in Nat /\ caller[c].i \in Nat /\ FanHolds(caller[c])
  BY DEF PoolInv, PoolTyped, CallerRecords
<1>1. e \in Pool!Endpoint
  <2>1. caller[c].start + caller[c].i \in Nat
    BY <1>0
  <2> QED
    BY <2>1, EndpointsExist DEF Pool!Turn
<1> HIDE DEF e
<1>2. PICK answer \in [ok : BOOLEAN, limit : BOOLEAN, logs : LogValues] :
         /\ Pool!Learns(c, answer)
         /\ answer.ok /\ caller[c].op = "send" => c \in held \/ Pool!Takes(c, e)
  <2>1. CASE \E a \in Pool!Answers(c, e) : Pool!Learns(c, a)
    BY <1>0, <1>1, <2>1, AnswerShape
  <2>2. CASE Pool!Learns(c, Pool!Error)
    <3>1. Pool!Error \in [ok : BOOLEAN, limit : BOOLEAN, logs : LogValues] /\ ~Pool!Error.ok
      BY LogFacts DEF Pool!Error
    <3> QED
      BY <2>2, <3>1
  <2> QED
    BY <2>1, <2>2 DEF Pool!Answer, e
<1>3. PICK r : r = IF answer.ok THEN [Pool!Finish(c, "ok") EXCEPT !.logs = answer.logs, !.tried = TRUE]
                   ELSE [caller[c] EXCEPT !.pc = "scan", !.i = @ + 1, !.tried = TRUE]
  OBVIOUS
<1>4. caller' = [caller EXCEPT ![c] = r] /\ cur' \in {cur, e}
  BY <1>2, <1>3 DEF Pool!Learns, Pool!Set, e
<1>5. /\ r \in CallerRecords /\ r.pc # "fan" /\ r.op = caller[c].op
      /\ answer.ok => r.result = "ok"
      /\ ~answer.ok => r.result = caller[c].result /\ r.logs = caller[c].logs
  <2>1. CASE answer.ok
    BY <1>0, <1>2, <1>3, <2>1 DEF CallerRecords, Pool!Finish
  <2>2. CASE ~answer.ok
    <3>0. PICK k \in Nat : k = caller[c].i + 1
      BY <1>0
    <3>1. r = [caller[c] EXCEPT !.pc = "scan", !.i = k, !.tried = TRUE]
      BY <1>3, <2>2, <3>0
    <3>2. /\ r \in CallerRecords /\ r.pc = "scan" /\ r.op = caller[c].op
          /\ r.result = caller[c].result /\ r.logs = caller[c].logs
      BY <1>0, <3>1 DEF CallerRecords
    <3> QED
      BY <2>2, <3>2
  <2> QED
    BY <2>1, <2>2
<1>6. poolState' = poolState /\ held' = IF Pool!Takes(c, e) THEN held \cup {c} ELSE held
  BY DEF Pool!Answer, e
<1>7. r.op = "send" /\ r.result = "ok" => c \in held'
  BY <1>2, <1>5, <1>6 DEF PoolInv, Pool!SentIsHeld
<1>8. r.result = "agreed" /\ Pool!Cardinality(Lagging) < 2 => r.logs = Pool!AllLogs
  BY <1>5 DEF PoolInv, Pool!AgreedIsComplete
<1>9. FanHolds(r)
  BY <1>5 DEF FanHolds
<1>10. cur' \in Pool!Endpoint /\ \A d \in Callers : d \in held /\ d # c => d \in held'
  BY <1>0, <1>1, <1>4, <1>6
<1> QED
  BY <1>4, <1>5, <1>6, <1>7, <1>8, <1>9, <1>10, OneCaller

\* Of two answers that agree one comes from an endpoint that does not lag.
LEMMA PoolFan ==
    ASSUME PoolInv, NEW c \in Callers, NEW e \in Pool!Endpoint, Pool!FanAnswer(c, e)
    PROVE  PoolInv'
<1> DEFINE first == caller[c].logs
           asked == caller[c].asked \cup {e}
           one == [caller[c] EXCEPT !.pc = "load", !.asked = {}, !.logs = <<>>]
<1>0. /\ PoolTyped /\ caller[c] \in CallerRecords /\ FanHolds(caller[c])
      /\ caller[c].pc = "fan" /\ e \notin caller[c].asked
      /\ UNCHANGED <<poolState, cur, held>> /\ cur \in Pool!Endpoint
  BY DEF PoolInv, PoolTyped, Pool!FanAnswer, Pool!At
<1>1. PICK o \in Pool!Answers(c, e) :
         Pool!Set(c, CASE o.ok /\ first # <<>> /\ Pool!Agree(first, o.logs) ->
                            [Pool!Finish(c, "agreed") EXCEPT !.asked = {}]
                       [] o.ok /\ first # <<>> /\ ~Pool!Agree(first, o.logs) -> one
                       [] ~(o.ok /\ first # <<>>) /\ asked = Pool!Endpoint -> one
                       [] OTHER -> [caller[c] EXCEPT !.asked = asked,
                                       !.logs = IF o.ok THEN o.logs ELSE @])
  BY DEF Pool!FanAnswer
<1>2. /\ caller[c].op = "logs" /\ caller[c].result = "none"
      /\ first \in {<<>>, Pool!AllLogs} \/ \E d \in caller[c].asked : d \in Lagging
  BY <1>0 DEF FanHolds
<1>3. /\ o \in [ok : BOOLEAN, limit : BOOLEAN, logs : LogValues]
      /\ o.ok => o.logs = Pool!AllLogs \/ e \in Lagging
  BY <1>0, <1>2, AnswerShape
<1>4. ASSUME NEW r \in CallerRecords, Pool!Set(c, r), FanHolds(r), r.op = "logs",
             r.result = "agreed" /\ Pool!Cardinality(Lagging) < 2 => r.logs = Pool!AllLogs
      PROVE  PoolInv'
  BY <1>0, <1>4, OneCaller DEF Pool!Set
<1>5. CASE o.ok /\ first # <<>> /\ Pool!Agree(first, o.logs)
  <2>1. PICK r : r = [Pool!Finish(c, "agreed") EXCEPT !.asked = {}]
    OBVIOUS
  <2>2. Pool!Set(c, r)
    BY <1>1, <1>5, <2>1
  <2>3. r \in CallerRecords /\ r.pc = "done" /\ r.op = "logs" /\ r.logs = first
    BY <1>0, <1>2, <2>1 DEF CallerRecords, Pool!Finish
  <2>4. first = o.logs
    BY <1>5 DEF Pool!Agree
  <2>5. first = Pool!AllLogs \/ ~(Pool!Cardinality(Lagging) < 2)
    <3>1. CASE o.logs = Pool!AllLogs
      BY <2>4, <3>1
    <3>2. CASE o.logs # Pool!AllLogs
      <4>1. e \in Lagging /\ \E d \in caller[c].asked : d \in Lagging
        BY <1>2, <1>3, <1>5, <2>4, <3>2
      <4> QED
        BY <1>0, <4>1, OneLags
    <3> QED
      BY <3>1, <3>2
  <2> QED
    BY <1>4, <2>2, <2>3, <2>5 DEF FanHolds
<1>6. CASE /\ ~(o.ok /\ first # <<>> /\ Pool!Agree(first, o.logs))
           /\ \/ o.ok /\ first # <<>>
              \/ asked = Pool!Endpoint
  <2>1. PICK r : r = one
    OBVIOUS
  <2>2. Pool!Set(c, r)
    BY <1>1, <1>6, <2>1
  <2>3. r \in CallerRecords /\ r.pc = "load" /\ r.op = "logs" /\ r.result = "none"
    BY <1>0, <1>2, <2>1, LogFacts DEF CallerRecords
  <2> QED
    BY <1>4, <2>2, <2>3 DEF FanHolds
<1>7. CASE ~(o.ok /\ first # <<>>) /\ asked # Pool!Endpoint
  <2>1. PICK r : r = [caller[c] EXCEPT !.asked = asked, !.logs = IF o.ok THEN o.logs ELSE @]
    OBVIOUS
  <2>2. Pool!Set(c, r)
    BY <1>1, <1>7, <2>1
  <2>3. asked \subseteq Pool!Endpoint /\ caller[c].logs \in LogValues
    BY <1>0 DEF CallerRecords
  <2>4. /\ r \in CallerRecords /\ r.op = "logs" /\ r.result = "none" /\ r.asked = asked
        /\ r.logs = IF o.ok THEN o.logs ELSE first
    <3> HIDE DEF asked
    <3>1. CASE o.ok
      BY <1>0, <1>2, <1>3, <2>1, <2>3, <3>1 DEF CallerRecords
    <3>2. CASE ~o.ok
      BY <1>0, <1>2, <1>3, <2>1, <2>3, <3>2 DEF CallerRecords
    <3> QED
      BY <3>1, <3>2
  <2>5. r.logs \in {<<>>, Pool!AllLogs} \/ r.asked \cap Lagging # {}
    BY <1>2, <1>3, <2>4
  <2> QED
    BY <1>4, <2>2, <2>4, <2>5 DEF FanHolds
<1> QED
  BY <1>5, <1>6, <1>7

\* The endpoints, the clock, the health loop: no call and no transaction is touched.
LEMMA PoolRest ==
    ASSUME PoolInv,
           \/ \E e \in Pool!Endpoint : Pool!Change(e)
           \/ Pool!NonceTaken \/ Pool!Tick \/ Pool!HealthLoop \/ UNCHANGED pool
    PROVE  PoolInv'
<1>0. poolState \in [Pool!Endpoint -> {"ok", "down", "throttled"}] /\ cur \in Pool!Endpoint
  BY DEF PoolInv, PoolTyped
<1>1. UNCHANGED <<caller, held>>
  BY DEF Pool!Change, Pool!NonceTaken, Pool!Tick, Pool!HealthLoop, Pool!Probe, Pool!Promote, pool
<1>2. poolState' \in [Pool!Endpoint -> {"ok", "down", "throttled"}]
  BY <1>0 DEF Pool!Change, Pool!NonceTaken, Pool!Tick, Pool!HealthLoop, Pool!Probe, Pool!Promote, pool
<1>3. cur' \in Pool!Endpoint
  BY <1>0, PromotedType
     DEF Pool!Change, Pool!NonceTaken, Pool!Tick, Pool!HealthLoop, Pool!Probe, Pool!Promote, pool
<1> QED
  BY <1>1, <1>2, <1>3
     DEF PoolInv, PoolTyped, FanHolds, Pool!SentIsHeld, Pool!AgreedIsComplete

LEMMA PoolStep ==
    ASSUME PoolInv, Pool!Next \/ UNCHANGED pool
    PROVE  PoolInv'
<1>1. ASSUME NEW c \in Callers, Pool!Call(c) PROVE PoolInv'
  BY <1>1, PoolBegin, PoolLocal, PoolLearns, PoolFan DEF Pool!Call
<1> QED
  BY <1>1, PoolRest DEF Pool!Next

\* A transaction the pool reports as sent is held by an endpoint, whichever endpoints
\* fail, throttle or lose their answer and whoever else uses the nonce; logs that two
\* endpoints agree on are complete while at most one endpoint lags.
THEOREM PoolAnswers == ServicesSpec => []PoolAnswersHold
<1>1. ServicesInit => PoolInv
  BY PoolInit DEF ServicesInit
<1>2. PoolInv /\ [ServicesNext]_services => PoolInv'
  <2>1. [ServicesNext]_services => Pool!Next \/ UNCHANGED pool
    BY DEF ServicesNext, services
  <2> QED
    BY <2>1, PoolStep
<1>3. PoolInv => PoolAnswersHold
  BY DEF PoolInv, PoolAnswersHold
<1> QED
  BY <1>1, <1>2, <1>3, PTL DEF ServicesSpec

----------------------------------------------------------------------------
(* The shapes of the pool's state                                          *)

USE PoolAssumption

\* A call that asks has an endpoint left to ask.
CallShape(r) ==
    /\ r.i \in 0 .. PoolSize /\ r.start \in Pool!Endpoint
    /\ r.pc = "ask" => r.i < PoolSize

LimitsTyped == limited \in [Pool!Endpoint -> 0 .. PoolBackoff]

PoolShapes ==
    /\ LimitsTyped
    /\ \A c \in Callers : CallShape(caller[c])
    /\ probe \in Seq(BOOLEAN) /\ Len(probe) <= PoolSize
    /\ held \subseteq Callers

LEMMA PoolShapesInit == Pool!Init => PoolShapes
<1> SUFFICES ASSUME Pool!Init PROVE PoolShapes
  OBVIOUS
<1>1. PICK r : r = Pool!Idle /\ caller = [c \in Callers |-> r]
  BY DEF Pool!Init
<1>2. CallShape(r)
  BY <1>1, EndpointsExist DEF Pool!Idle, CallShape
<1>3. probe \in Seq(BOOLEAN) /\ Len(probe) = 0
  BY EmptySeq DEF Pool!Init
<1>4. LimitsTyped
  BY DEF Pool!Init, LimitsTyped
<1> QED
  BY <1>1, <1>2, <1>3, <1>4 DEF Pool!Init, PoolShapes

\* A step of a call leaves it well-formed.
LEMMA CallShapes ==
    ASSUME PoolInv, PoolShapes, NEW c \in Callers, Pool!Call(c)
    PROVE  \A d \in Callers : CallShape(caller'[d])
<1>0. /\ caller \in [Callers -> CallerRecords] /\ caller[c] \in CallerRecords
      /\ CallShape(caller[c]) /\ cur \in Pool!Endpoint
      /\ \A d \in Callers : CallShape(caller[d])
  BY DEF PoolInv, PoolTyped, PoolShapes
<1>a. ASSUME NEW r, caller' = [caller EXCEPT ![c] = r], CallShape(r)
      PROVE  \A d \in Callers : CallShape(caller'[d])
  BY <1>0, <1>a
<1>b. ASSUME NEW r, caller' = [caller EXCEPT ![c] = r], r.pc # "ask",
             r.i = caller[c].i, r.start = caller[c].start
      PROVE  \A d \in Callers : CallShape(caller'[d])
  BY <1>0, <1>a, <1>b DEF CallShape
<1>1. ASSUME NEW op \in Ops, Pool!Begin(c, op) PROVE \A d \in Callers : CallShape(caller'[d])
  <2>1. PICK p \in {"fan", "load"} : p = IF op = "logs" /\ PoolSize >= 2 THEN "fan" ELSE "load"
    OBVIOUS
  <2>2. PICK r : r = [Pool!Idle EXCEPT !.pc = p, !.op = op] /\ caller' = [caller EXCEPT ![c] = r]
    BY <1>1, <2>1 DEF Pool!Begin, Pool!Set
  <2>3. CallShape(r)
    BY <2>2, EndpointsExist DEF Pool!Idle, CallShape
  <2> QED
    BY <1>a, <2>2, <2>3
<1>2. CASE Pool!LoadCursor(c)
  <2>1. PICK r : r = [caller[c] EXCEPT !.pc = "scan", !.start = cur]
                 /\ caller' = [caller EXCEPT ![c] = r]
    BY <1>2 DEF Pool!LoadCursor, Pool!Set
  <2>2. CallShape(r)
    BY <1>0, <2>1 DEF CallShape, CallerRecords
  <2> QED
    BY <1>a, <2>1, <2>2
<1>3. CASE Pool!Scan(c)
  <2>1. PICK r : /\ caller' = [caller EXCEPT ![c] = r]
                 /\ r = CASE caller[c].i = PoolSize -> Pool!Finish(c, "failed")
                          [] caller[c].i < PoolSize /\ limited[Pool!Turn(c)] > 0 ->
                               [caller[c] EXCEPT !.i = @ + 1]
                          [] OTHER -> [caller[c] EXCEPT !.pc = "ask"]
    BY <1>3 DEF Pool!Scan, Pool!Set
  <2>2. caller[c].pc = "scan" /\ caller[c].i \in 0 .. PoolSize
    BY <1>0, <1>3 DEF Pool!Scan, Pool!At, CallShape
  <2>3. CASE caller[c].i = PoolSize
    <3>1. r = [caller[c] EXCEPT !.pc = "done", !.result = "failed"]
      BY <2>1, <2>3 DEF Pool!Finish
    <3>2. r.pc # "ask" /\ r.i = caller[c].i /\ r.start = caller[c].start
      BY <1>0, <3>1 DEF CallerRecords
    <3> QED
      BY <1>b, <2>1, <3>2
  <2>4. CASE caller[c].i < PoolSize /\ limited[Pool!Turn(c)] > 0
    <3>1. PICK k \in 0 .. PoolSize : k = caller[c].i + 1
      BY <2>2, <2>4
    <3>2. r = [caller[c] EXCEPT !.i = k]
      BY <2>1, <2>4, <3>1
    <3>3. CallShape(r)
      BY <1>0, <2>2, <3>1, <3>2 DEF CallerRecords, CallShape
    <3> QED
      BY <1>a, <2>1, <3>3
  <2>5. CASE caller[c].i < PoolSize /\ ~(limited[Pool!Turn(c)] > 0)
    <3>1. r = [caller[c] EXCEPT !.pc = "ask"]
      BY <2>1, <2>5
    <3>2. CallShape(r)
      BY <1>0, <2>2, <2>5, <3>1 DEF CallerRecords, CallShape
    <3> QED
      BY <1>a, <2>1, <3>2
  <2> QED
    BY <2>2, <2>3, <2>4, <2>5
<1>4. CASE Pool!Answer(c)
  <2>1. PICK answer : Pool!Learns(c, answer) /\ caller[c].pc = "ask"
    BY <1>4 DEF Pool!Answer, Pool!At
  <2>2. CASE answer.ok
    <3>1. PICK r : /\ r = [Pool!Finish(c, "ok") EXCEPT !.logs = answer.logs, !.tried = TRUE]
                   /\ caller' = [caller EXCEPT ![c] = r]
      BY <2>1, <2>2 DEF Pool!Learns, Pool!Set
    <3>2. r.pc # "ask" /\ r.i = caller[c].i /\ r.start = caller[c].start
      BY <1>0, <3>1 DEF CallerRecords, Pool!Finish
    <3> QED
      BY <1>b, <3>1, <3>2
  <2>3. CASE ~answer.ok
    <3>1. PICK k \in 0 .. PoolSize : k = caller[c].i + 1
      BY <1>0, <2>1 DEF CallShape
    <3>2. PICK r : /\ r = [caller[c] EXCEPT !.pc = "scan", !.i = k, !.tried = TRUE]
                   /\ caller' = [caller EXCEPT ![c] = r]
      BY <2>1, <2>3, <3>1 DEF Pool!Learns, Pool!Set
    <3>3. CallShape(r)
      BY <1>0, <3>1, <3>2 DEF CallerRecords, CallShape
    <3> QED
      BY <1>a, <3>2, <3>3
  <2> QED
    BY <2>2, <2>3
<1>5. CASE Pool!GiveUp(c)
  <2>1. PICK r : r = [caller[c] EXCEPT !.pc = "done", !.result = "failed"]
                 /\ caller' = [caller EXCEPT ![c] = r]
    BY <1>5 DEF Pool!GiveUp, Pool!Set, Pool!Finish
  <2>2. r.pc # "ask" /\ r.i = caller[c].i /\ r.start = caller[c].start
    BY <1>0, <2>1 DEF CallerRecords
  <2> QED
    BY <1>b, <2>1, <2>2
<1>6. CASE Pool!Return(c)
  <2>1. PICK r : r = Pool!Idle /\ caller' = [caller EXCEPT ![c] = r]
    BY <1>6 DEF Pool!Return, Pool!Set
  <2>2. CallShape(r)
    BY <2>1, EndpointsExist DEF Pool!Idle, CallShape
  <2> QED
    BY <1>a, <2>1, <2>2
<1>7. ASSUME NEW r, caller' = [caller EXCEPT ![c] = r],
             \/ r = [caller[c] EXCEPT !.pc = "load", !.asked = {}, !.logs = <<>>]
             \/ r = [Pool!Finish(c, "agreed") EXCEPT !.asked = {}]
             \/ caller[c].pc = "fan" /\ \E a, l : r = [caller[c] EXCEPT !.asked = a, !.logs = l]
      PROVE  \A d \in Callers : CallShape(caller'[d])
  <2>1. r.pc # "ask" /\ r.i = caller[c].i /\ r.start = caller[c].start
    BY <1>0, <1>7 DEF CallerRecords, Pool!Finish
  <2> QED
    BY <1>b, <1>7, <2>1
<1>8. CASE Pool!FanTimeout(c)
  BY <1>7, <1>8 DEF Pool!FanTimeout, Pool!Set
<1>9. ASSUME NEW e \in Pool!Endpoint, Pool!FanAnswer(c, e)
      PROVE  \A d \in Callers : CallShape(caller'[d])
  <2> DEFINE first == caller[c].logs
             asked == caller[c].asked \cup {e}
             one == [caller[c] EXCEPT !.pc = "load", !.asked = {}, !.logs = <<>>]
  <2>1. PICK o, r :
           /\ caller' = [caller EXCEPT ![c] = r] /\ caller[c].pc = "fan"
           /\ r = CASE o.ok /\ first # <<>> /\ Pool!Agree(first, o.logs) ->
                            [Pool!Finish(c, "agreed") EXCEPT !.asked = {}]
                    [] o.ok /\ first # <<>> /\ ~Pool!Agree(first, o.logs) -> one
                    [] ~(o.ok /\ first # <<>>) /\ asked = Pool!Endpoint -> one
                    [] OTHER -> [caller[c] EXCEPT !.asked = asked,
                                    !.logs = IF o.ok THEN o.logs ELSE @]
    BY <1>9 DEF Pool!FanAnswer, Pool!Set, Pool!At
  <2>2. CASE o.ok /\ first # <<>> /\ Pool!Agree(first, o.logs)
    BY <1>7, <2>1, <2>2
  <2>3. CASE /\ ~(o.ok /\ first # <<>> /\ Pool!Agree(first, o.logs))
             /\ (o.ok /\ first # <<>>) \/ asked = Pool!Endpoint
    <3>1. r = one
      BY <2>1, <2>3
    <3> QED
      BY <1>7, <2>1, <3>1
  <2>4. CASE ~(o.ok /\ first # <<>>) /\ asked # Pool!Endpoint
    <3>1. PICK a, l : a = asked /\ l = IF o.ok THEN o.logs ELSE first
      OBVIOUS
    <3>2. r = [caller[c] EXCEPT !.asked = a, !.logs = l]
      BY <2>1, <2>4, <3>1
    <3> QED
      BY <1>7, <2>1, <3>2
  <2> QED
    BY <2>2, <2>3, <2>4
<1> QED
  BY <1>1, <1>2, <1>3, <1>4, <1>5, <1>6, <1>8, <1>9 DEF Pool!Call

\* A backoff begins with a 429 and runs out; the health loop asks each endpoint once.
LEMMA PoolShapesStep ==
    ASSUME PoolInv, PoolShapes, Pool!Next \/ UNCHANGED pool
    PROVE  PoolShapes'
<1>0. /\ LimitsTyped /\ probe \in Seq(BOOLEAN) /\ Len(probe) <= PoolSize /\ held \subseteq Callers
  BY DEF PoolShapes
<1>1. \A c \in Callers : CallShape(caller'[c])
  <2>1. CASE \E c \in Callers : Pool!Call(c)
    BY <2>1, CallShapes
  <2>2. CASE ~\E c \in Callers : Pool!Call(c)
    <3>1. UNCHANGED caller
      BY <2>2 DEF Pool!Next, Pool!Change, Pool!NonceTaken, Pool!Tick, Pool!HealthLoop, Pool!Probe,
                  Pool!Promote, pool
    <3> QED
      BY <3>1 DEF PoolShapes
  <2> QED
    BY <2>1, <2>2
<1>2. LimitsTyped'
  <2>1. CASE UNCHANGED limited
    BY <1>0, <2>1 DEF LimitsTyped
  <2>2. CASE Pool!Tick
    BY <1>0, <2>2 DEF Pool!Tick, LimitsTyped
  <2>3. ASSUME NEW c \in Callers, Pool!LoadCursor(c) PROVE LimitsTyped'
    BY <1>0, <2>3 DEF Pool!LoadCursor, LimitsTyped
  <2>4. ASSUME NEW c \in Callers, Pool!Answer(c) PROVE LimitsTyped'
    <3>1. UNCHANGED limited \/ \E e : limited' = [limited EXCEPT ![e] = PoolBackoff]
      BY <2>4 DEF Pool!Answer, Pool!Learns
    <3> QED
      BY <1>0, <3>1 DEF LimitsTyped
  <2>5. ASSUME NEW c \in Callers, Pool!Call(c), ~Pool!LoadCursor(c), ~Pool!Answer(c)
        PROVE  UNCHANGED limited
    BY <2>5 DEF Pool!Call, Pool!Begin, Pool!Scan, Pool!GiveUp, Pool!Return, Pool!FanTimeout,
                Pool!FanAnswer
  <2>6. CASE ~(\E c \in Callers : Pool!Call(c)) /\ ~Pool!Tick
    BY <2>1, <2>6 DEF Pool!Next, Pool!Change, Pool!NonceTaken, Pool!HealthLoop, Pool!Probe,
                Pool!Promote, pool
  <2> QED
    BY <2>1, <2>2, <2>3, <2>4, <2>5, <2>6
<1>3. probe' \in Seq(BOOLEAN) /\ Len(probe') <= PoolSize
  <2>1. CASE UNCHANGED probe
    BY <1>0, <2>1
  <2>2. CASE Pool!Probe
    <3>1. PICK b \in BOOLEAN : probe' = Append(probe, b) /\ Len(probe) < PoolSize
      BY <2>2 DEF Pool!Probe
    <3> QED
      BY <1>0, <3>1
  <2>3. CASE Pool!Promote
    <3>1. probe' = <<>> /\ <<>> \in Seq(BOOLEAN) /\ Len(<<>>) = 0
      BY <2>3, EmptySeq DEF Pool!Promote
    <3> QED
      BY <3>1
  <2>4. ASSUME NEW c \in Callers, Pool!Call(c) PROVE UNCHANGED probe
    BY <2>4 DEF Pool!Call, Pool!Begin, Pool!LoadCursor, Pool!Answer, Pool!Scan, Pool!GiveUp,
                Pool!Return, Pool!FanTimeout, Pool!FanAnswer
  <2>5. CASE ~(\E c \in Callers : Pool!Call(c)) /\ ~Pool!Probe /\ ~Pool!Promote
    BY <2>1, <2>5 DEF Pool!Next, Pool!Change, Pool!NonceTaken, Pool!Tick, Pool!HealthLoop, pool
  <2> QED
    BY <2>1, <2>2, <2>3, <2>4, <2>5
<1>4. held' \subseteq Callers
  <2>1. ASSUME NEW c \in Callers, Pool!Call(c) PROVE held' \subseteq held \cup {c}
    BY <2>1 DEF Pool!Call, Pool!Begin, Pool!LoadCursor, Pool!Answer, Pool!Scan, Pool!GiveUp,
                Pool!Return, Pool!FanTimeout, Pool!FanAnswer
  <2>2. CASE ~\E c \in Callers : Pool!Call(c)
    <3>1. UNCHANGED held
      BY <2>2 DEF Pool!Next, Pool!Change, Pool!NonceTaken, Pool!Tick, Pool!HealthLoop, Pool!Probe,
                  Pool!Promote, pool
    <3> QED
      BY <1>0, <3>1
  <2> QED
    BY <1>0, <2>1, <2>2
<1> QED
  BY <1>1, <1>2, <1>3, <1>4 DEF PoolShapes

LEMMA PoolShape == PoolInv /\ PoolShapes => Pool!TypeOK
BY DEF PoolInv, PoolTyped, PoolShapes, LimitsTyped, CallShape, Pool!TypeOK

HIDE PoolAssumption

----------------------------------------------------------------------------
(* Webhooks                                                                *)

DeliveryRecords == [pc : {"none", "send", "wait", "log", "done", "gone"}, elapsed : Nat, tries : Nat,
                    status : {"none", "2xx", "4xx", "5xx"}, signed : BOOLEAN, orphan : BOOLEAN,
                    cut : BOOLEAN]

\* A delivery r of an instance in state p is signed and inside its schedule: the time it
\* has used before its n-th attempt, and after it, leaves room for the rest.
OnSchedule(r, p) ==
    /\ r.signed
    /\ r.pc = "send" => \/ r.tries = 0 /\ r.elapsed = 0
                        \/ r.tries = 1 /\ r.elapsed <= 3
                        \/ r.tries = 2 /\ r.elapsed <= 11
    /\ r.pc = "wait" => \/ r.tries = 1 /\ r.elapsed <= 2
                        \/ r.tries = 2 /\ r.elapsed <= 5
    /\ r.pc \in {"log", "done"} /\ Hooks!Retryable(r.status) /\ ~r.cut => r.tries = 3
    /\ r.pc \in {"send", "wait"} /\ p = "stopping" => r.cut

HooksTyped ==
    /\ process \in [Dispatchers -> {"up", "stopping", "down"}]
    /\ delivery \in [Hooks!Delivery -> DeliveryRecords]
    /\ inbox \in [Dispatchers -> Seq(Event)]

\* An event waits in an inbox once, published, and nothing is under way for it.
Awaited(i, j) ==
    /\ inbox[i][j] \in published
    /\ \A k \in 1 .. Len(inbox[i]) : k # j => inbox[i][k] # inbox[i][j]
    /\ \A d \in Hooks!Delivery : d[1] = i /\ d[2] = inbox[i][j] => delivery[d].pc = "none"

InboxInv ==
    /\ \A i \in Dispatchers : \A j \in 1 .. Len(inbox[i]) : Awaited(i, j)
    /\ \A d \in Hooks!Delivery : d[2] \notin published => delivery[d].pc = "none"

\* Only what came to its end has a row.
AuditInv ==
    /\ \A r \in audit : r.of \in Hooks!Delivery /\ delivery[r.of].pc = "done"
    /\ Hooks!AuditedAsSent

HooksInv ==
    /\ HooksTyped
    /\ \A d \in Hooks!Delivery : OnSchedule(delivery[d], process[d[1]])
    /\ InboxInv
    /\ AuditInv

LEMMA DeliveryParts ==
    \A d \in Hooks!Delivery : /\ d[1] \in Dispatchers /\ d[2] \in Event /\ d[3] \in Url
                              /\ Hooks!Inst(d) = d[1] /\ Hooks!Config(d) = d[3]
BY DEF Hooks!Delivery, Hooks!Inst, Hooks!Config

LEMMA NotStartedRecord ==
    /\ Hooks!NotStarted \in DeliveryRecords /\ Hooks!NotStarted.pc = "none"
    /\ Hooks!NotStarted.signed /\ Hooks!NotStarted.tries = 0 /\ Hooks!NotStarted.elapsed = 0
BY DEF Hooks!NotStarted, DeliveryRecords

LEMMA HooksInit == Hooks!Init => HooksInv
<1> SUFFICES ASSUME Hooks!Init PROVE HooksInv
  OBVIOUS
<1>1. /\ process = [i \in Dispatchers |-> "up"] /\ inbox = [i \in Dispatchers |-> <<>>]
      /\ delivery = [d \in Hooks!Delivery |-> Hooks!NotStarted] /\ audit = {} /\ published = {}
  BY DEF Hooks!Init
<1>2. HooksTyped
  BY <1>1, NotStartedRecord DEF HooksTyped
<1>3. \A d \in Hooks!Delivery : OnSchedule(delivery[d], process[d[1]])
  BY <1>1, NotStartedRecord DEF OnSchedule
<1>4. InboxInv
  BY <1>1, NotStartedRecord DEF InboxInv
<1>5. AuditInv
  BY <1>1, NotStartedRecord DEF AuditInv, Hooks!AuditedAsSent
<1> QED
  BY <1>2, <1>3, <1>4, <1>5 DEF HooksInv

\* A delivery gets a new record and no row is written or taken away.
LEMMA OneDelivery ==
    ASSUME HooksInv, NEW d \in Hooks!Delivery, NEW r \in DeliveryRecords, Hooks!Set(d, r),
           delivery[d].pc \notin {"none", "done"}, r.pc # "done", OnSchedule(r, process[d[1]]),
           UNCHANGED <<process, inbox, published, audit>>
    PROVE  HooksInv'
<1>0. HooksTyped /\ InboxInv /\ AuditInv
  BY DEF HooksInv
<1>1. /\ delivery' \in [Hooks!Delivery -> DeliveryRecords]
      /\ \A b \in Hooks!Delivery : delivery'[b] = IF b = d THEN r ELSE delivery[b]
  BY <1>0 DEF HooksTyped, Hooks!Set
<1>2. HooksTyped'
  BY <1>0, <1>1 DEF HooksTyped
<1>3. (\A b \in Hooks!Delivery : OnSchedule(delivery[b], process[b[1]]))'
  BY <1>1 DEF HooksInv, OnSchedule
<1>4. InboxInv'
  BY <1>0, <1>1 DEF InboxInv, Awaited
<1>5. \A b \in Hooks!Delivery : delivery'[b].pc = "done" => delivery'[b] = delivery[b]
  BY <1>1
<1>6. Hooks!AuditedAsSent'
  BY <1>0, <1>5 DEF AuditInv, Hooks!AuditedAsSent
<1>7. AuditInv'
  BY <1>0, <1>1, <1>6 DEF AuditInv
<1> QED
  BY <1>2, <1>3, <1>4, <1>7 DEF HooksInv

\* An attempt takes at most the client's time.
LEMMA AttemptShape ==
    ASSUME NEW d \in Hooks!Delivery, delivery[d].elapsed \in 0 .. 11, NEW a \in Hooks!Attempts(d)
    PROVE  a[1] \in {"none", "2xx", "4xx", "5xx"} /\ a[2] \in 0 .. 2
<1>1. Hooks!Budget = 13 /\ Hooks!ClientTimeout = 2
  BY DEF Hooks!Budget, Hooks!MaxAttempts, Hooks!ClientTimeout, Hooks!Delays
<1>2. 13 - delivery[d].elapsed >= 2
  OBVIOUS
<1> QED
  BY <1>1, <1>2 DEF Hooks!Attempts

LEMMA HooksSend ==
    ASSUME HooksInv, NEW d \in Hooks!Delivery, Hooks!Send(d)
    PROVE  HooksInv'
<1>0. /\ delivery[d] \in DeliveryRecords /\ delivery[d].pc = "send"
      /\ OnSchedule(delivery[d], process[d[1]])
      /\ UNCHANGED <<process, inbox, published, audit>>
  BY DEF HooksInv, HooksTyped, Hooks!Send
<1>1. /\ delivery[d].elapsed \in 0 .. 11 /\ delivery[d].tries \in 0 .. 2 /\ delivery[d].signed
      /\ delivery[d].tries = 0 => delivery[d].elapsed = 0
      /\ delivery[d].tries = 1 => delivery[d].elapsed <= 3
  BY <1>0 DEF OnSchedule, DeliveryRecords
<1>2. PICK a \in Hooks!Attempts(d) :
         \E s : /\ s = [delivery[d] EXCEPT !.tries = @ + 1, !.status = a[1], !.elapsed = @ + a[2]]
               /\ Hooks!Set(d, [s EXCEPT !.pc = Hooks!AfterAttempt(s, a[1])])
  BY DEF Hooks!Send
<1>2a. PICK s :
         /\ s = [delivery[d] EXCEPT !.tries = @ + 1, !.status = a[1], !.elapsed = @ + a[2]]
         /\ Hooks!Set(d, [s EXCEPT !.pc = Hooks!AfterAttempt(s, a[1])])
  BY <1>2
<1>3. a[1] \in {"none", "2xx", "4xx", "5xx"} /\ a[2] \in 0 .. 2
  BY <1>1, <1>2, AttemptShape
<1>4. PICK n \in 1 .. 3, m \in 0 .. 13, st \in {"none", "2xx", "4xx", "5xx"} :
         n = delivery[d].tries + 1 /\ m = delivery[d].elapsed + a[2] /\ st = a[1]
  BY <1>1, <1>3
<1>5. n = 1 => m <= 2
  BY <1>1, <1>3, <1>4
<1>6. n = 2 => m <= 5
  BY <1>1, <1>3, <1>4
<1>7. s = [delivery[d] EXCEPT !.tries = n, !.status = st, !.elapsed = m]
  BY <1>2a, <1>4
<1>8. n \in Nat /\ m \in Nat
  OBVIOUS
<1>9. /\ s \in DeliveryRecords /\ s.tries = n /\ s.elapsed = m /\ s.status = st
      /\ s.signed /\ s.cut = delivery[d].cut
  BY <1>0, <1>1, <1>4, <1>7, <1>8 DEF DeliveryRecords
<1>10. PICK r : r = [s EXCEPT !.pc = Hooks!AfterAttempt(s, st)] /\ Hooks!Set(d, r)
  BY <1>2a, <1>4
<1>11. /\ r.pc = IF Hooks!Retryable(r.status) /\ n < 3 THEN "wait" ELSE "log"
       /\ r \in DeliveryRecords /\ r.tries = n /\ r.elapsed = m /\ r.status = st
       /\ r.signed /\ r.cut = delivery[d].cut
  BY <1>9, <1>10 DEF DeliveryRecords, Hooks!AfterAttempt, Hooks!MaxAttempts
<1>12. OnSchedule(r, process[d[1]])
  <2>1. process[d[1]] = "stopping" => r.cut
    BY <1>0, <1>11 DEF OnSchedule
  <2>2. CASE Hooks!Retryable(r.status) /\ n < 3
    BY <1>5, <1>6, <1>11, <2>1, <2>2 DEF OnSchedule
  <2>3. CASE ~(Hooks!Retryable(r.status) /\ n < 3)
    BY <1>11, <2>3 DEF OnSchedule
  <2> QED
    BY <2>2, <2>3
<1>13. r.pc # "done" /\ delivery[d].pc \notin {"none", "done"}
  BY <1>0, <1>11
<1> QED
  BY <1>0, <1>10, <1>11, <1>12, <1>13, OneDelivery

\* The pauses fit the budget: only a stop of the process ends a delivery early.
LEMMA HooksWait ==
    ASSUME HooksInv, NEW d \in Hooks!Delivery, Hooks!Wait(d)
    PROVE  HooksInv'
<1>0. /\ delivery[d] \in DeliveryRecords /\ delivery[d].pc = "wait"
      /\ OnSchedule(delivery[d], process[d[1]])
      /\ UNCHANGED <<process, inbox, published, audit>>
      /\ Hooks!Inst(d) = d[1]
  BY DeliveryParts DEF HooksInv, HooksTyped, Hooks!Wait
<1>1. delivery[d].tries \in {1, 2} /\ delivery[d].elapsed \in Nat /\ delivery[d].signed
  BY <1>0 DEF OnSchedule, DeliveryRecords
<1>2. PICK resumed \in Nat : /\ resumed = delivery[d].elapsed + Hooks!Delays[delivery[d].tries]
                             /\ delivery[d].tries = 1 => resumed <= 3
                             /\ delivery[d].tries = 2 => resumed <= 11
  <2>1. delivery[d].tries = 1 => delivery[d].elapsed <= 2
    BY <1>0 DEF OnSchedule
  <2>2. delivery[d].tries = 2 => delivery[d].elapsed <= 5
    BY <1>0 DEF OnSchedule
  <2>3. Hooks!Delays[1] = 1 /\ Hooks!Delays[2] = 6
    BY DEF Hooks!Delays
  <2> QED
    BY <1>1, <2>1, <2>2, <2>3
<1>3. Hooks!Budget = 13
  BY DEF Hooks!Budget, Hooks!MaxAttempts, Hooks!ClientTimeout, Hooks!Delays
<1>4. CASE process[d[1]] = "up" /\ Hooks!Set(d, [delivery[d] EXCEPT !.pc = "send", !.elapsed = resumed])
  <2>1. PICK r : r = [delivery[d] EXCEPT !.pc = "send", !.elapsed = resumed]
    OBVIOUS
  <2>2. /\ r \in DeliveryRecords /\ r.pc = "send" /\ r.tries = delivery[d].tries
        /\ r.elapsed = resumed /\ r.signed
    BY <1>0, <1>1, <2>1 DEF DeliveryRecords
  <2>3. OnSchedule(r, process[d[1]])
    BY <1>1, <1>2, <1>4, <2>2 DEF OnSchedule
  <2> QED
    BY <1>0, <1>4, <2>1, <2>2, <2>3, OneDelivery
<1>5. CASE /\ process[d[1]] = "stopping" \/ resumed >= 13
           /\ Hooks!Set(d, [delivery[d] EXCEPT !.pc = "log"])
  <2>1. PICK r : r = [delivery[d] EXCEPT !.pc = "log"]
    OBVIOUS
  <2>2. r \in DeliveryRecords /\ r.pc = "log" /\ r.signed /\ r.cut = delivery[d].cut
    BY <1>0, <1>1, <2>1 DEF DeliveryRecords
  <2>3. process[d[1]] = "stopping"
    BY <1>1, <1>2, <1>5
  <2>4. r.cut
    BY <1>0, <2>2, <2>3 DEF OnSchedule
  <2>5. OnSchedule(r, process[d[1]])
    BY <2>2, <2>4 DEF OnSchedule
  <2> QED
    BY <1>0, <1>5, <2>1, <2>2, <2>5, OneDelivery
<1> QED
  BY <1>0, <1>2, <1>3, <1>4, <1>5 DEF Hooks!Wait

\* The row of a delivery is written with what it ended with, unless its config is gone.
LEMMA HooksLog ==
    ASSUME HooksInv, NEW d \in Hooks!Delivery, Hooks!LogDelivery(d)
    PROVE  HooksInv'
<1>0. /\ HooksTyped /\ InboxInv /\ AuditInv /\ delivery[d] \in DeliveryRecords
      /\ delivery[d].pc = "log" /\ OnSchedule(delivery[d], process[d[1]])
      /\ UNCHANGED <<process, inbox, published>>
  BY DEF HooksInv, HooksTyped, Hooks!LogDelivery
<1>1. PICK r, entry : /\ r = [delivery[d] EXCEPT !.pc = "done"]
                      /\ entry = [of |-> d, tries |-> delivery[d].tries, status |-> delivery[d].status]
  OBVIOUS
<1>2. /\ r \in DeliveryRecords /\ r.pc = "done" /\ OnSchedule(r, process[d[1]])
      /\ r.tries = delivery[d].tries /\ r.status = delivery[d].status
      /\ r.orphan = delivery[d].orphan
  BY <1>0, <1>1 DEF DeliveryRecords, OnSchedule
<1>3. /\ delivery' \in [Hooks!Delivery -> DeliveryRecords]
      /\ \A b \in Hooks!Delivery : delivery'[b] = IF b = d THEN r ELSE delivery[b]
      /\ audit' = IF delivery[d].orphan THEN audit ELSE audit \cup {entry}
  <2>1. delivery' = [delivery EXCEPT ![d] = r]
    BY <1>1 DEF Hooks!LogDelivery, Hooks!Set
  <2>2. audit' = IF delivery[d].orphan THEN audit ELSE audit \cup {entry}
    BY <1>1 DEF Hooks!LogDelivery, Hooks!Writable
  <2> QED
    BY <1>0, <1>2, <2>1, <2>2 DEF HooksTyped
<1>4. HooksTyped' /\ (\A b \in Hooks!Delivery : OnSchedule(delivery[b], process[b[1]]))'
  BY <1>0, <1>2, <1>3 DEF HooksInv, HooksTyped, OnSchedule
<1>5. InboxInv'
  BY <1>0, <1>3 DEF InboxInv, Awaited
<1>6. entry.of = d /\ \A x \in audit : x.of # d
  BY <1>0, <1>1 DEF AuditInv
<1>7. \A x \in audit' : x.of \in Hooks!Delivery /\ delivery'[x.of].pc = "done"
  BY <1>0, <1>2, <1>3, <1>6 DEF AuditInv
<1>8. Hooks!AuditedAsSent'
  <2> SUFFICES ASSUME NEW b \in Hooks!Delivery, delivery'[b].pc = "done", ~delivery'[b].orphan
               PROVE  {x \in audit' : x.of = b}
                        = {[of |-> b, tries |-> delivery'[b].tries, status |-> delivery'[b].status]}
    BY DEF Hooks!AuditedAsSent
  <2>1. CASE b = d
    BY <1>1, <1>2, <1>3, <1>6, <2>1
  <2>2. CASE b # d
    <3>1. {x \in audit' : x.of = b} = {x \in audit : x.of = b} /\ delivery'[b] = delivery[b]
      BY <1>3, <1>6, <2>2
    <3> QED
      BY <1>0, <3>1 DEF AuditInv, Hooks!AuditedAsSent
  <2> QED
    BY <2>1, <2>2
<1> QED
  BY <1>4, <1>5, <1>7, <1>8 DEF HooksInv, AuditInv

\* A deleted config takes its rows along; what was under way for it writes none.
LEMMA HooksDelete ==
    ASSUME HooksInv, NEW u \in Url, Hooks!DeleteConfig(u)
    PROVE  HooksInv'
<1>0. /\ HooksTyped /\ InboxInv /\ AuditInv /\ UNCHANGED <<process, inbox, published>>
      /\ audit' = {x \in audit : Hooks!Config(x.of) # u}
      /\ delivery' = [d \in Hooks!Delivery |-> IF Hooks!Config(d) = u
                        THEN [delivery[d] EXCEPT !.orphan = TRUE] ELSE delivery[d]]
  BY DEF HooksInv, Hooks!DeleteConfig
<1>1. \A d \in Hooks!Delivery :
         /\ delivery'[d] \in DeliveryRecords /\ delivery'[d].pc = delivery[d].pc
         /\ OnSchedule(delivery'[d], process[d[1]])
         /\ Hooks!Config(d) = u => delivery'[d].orphan
         /\ Hooks!Config(d) # u => delivery'[d] = delivery[d]
  <2> SUFFICES ASSUME NEW d \in Hooks!Delivery
               PROVE  /\ delivery'[d] \in DeliveryRecords /\ delivery'[d].pc = delivery[d].pc
                      /\ OnSchedule(delivery'[d], process[d[1]])
                      /\ Hooks!Config(d) = u => delivery'[d].orphan
                      /\ Hooks!Config(d) # u => delivery'[d] = delivery[d]
    OBVIOUS
  <2>1. delivery[d] \in DeliveryRecords /\ OnSchedule(delivery[d], process[d[1]])
    BY <1>0 DEF HooksInv, HooksTyped
  <2>2. CASE Hooks!Config(d) # u
    BY <1>0, <2>1, <2>2
  <2>3. CASE Hooks!Config(d) = u
    <3>1. PICK r : r = [delivery[d] EXCEPT !.orphan = TRUE]
      OBVIOUS
    <3>2. r \in DeliveryRecords /\ r.pc = delivery[d].pc /\ r.orphan
      BY <2>1, <3>1 DEF DeliveryRecords
    <3>3. OnSchedule(r, process[d[1]])
      BY <2>1, <3>1 DEF DeliveryRecords, OnSchedule
    <3> QED
      BY <1>0, <2>3, <3>1, <3>2, <3>3
  <2> QED
    BY <2>2, <2>3
<1>2. HooksTyped' /\ (\A d \in Hooks!Delivery : OnSchedule(delivery[d], process[d[1]]))'
  BY <1>0, <1>1 DEF HooksTyped
<1>3. InboxInv'
  BY <1>0, <1>1 DEF InboxInv, Awaited
<1>4. \A x \in audit' : x.of \in Hooks!Delivery /\ delivery'[x.of].pc = "done"
  BY <1>0, <1>1 DEF AuditInv
<1>5. Hooks!AuditedAsSent'
  <2> SUFFICES ASSUME NEW b \in Hooks!Delivery, delivery'[b].pc = "done", ~delivery'[b].orphan
               PROVE  {x \in audit' : x.of = b}
                        = {[of |-> b, tries |-> delivery'[b].tries, status |-> delivery'[b].status]}
    BY DEF Hooks!AuditedAsSent
  <2>1. Hooks!Config(b) # u /\ delivery'[b] = delivery[b]
    BY <1>1
  <2>2. {x \in audit' : x.of = b} = {x \in audit : x.of = b}
    BY <1>0, <2>1
  <2> QED
    BY <1>0, <2>1, <2>2 DEF AuditInv, Hooks!AuditedAsSent
<1> QED
  BY <1>2, <1>3, <1>4, <1>5 DEF HooksInv, AuditInv

\* An event is published once, so it enters an inbox once.
LEMMA HooksPublish ==
    ASSUME HooksInv, NEW e \in Event, Hooks!Publish(e)
    PROVE  HooksInv'
<1>0. /\ HooksTyped /\ InboxInv /\ AuditInv
      /\ e \notin published /\ published' = published \cup {e}
      /\ UNCHANGED <<process, delivery, audit>>
      /\ \A i \in Dispatchers : inbox[i] \in Seq(Event)
  BY DEF HooksInv, HooksTyped, Hooks!Publish
<1>1. inbox' = [i \in Dispatchers |-> IF process[i] = "up" /\ Hooks!Len(inbox[i]) < Buffer
                                      THEN Append(inbox[i], e) ELSE inbox[i]]
  BY DEF Hooks!Publish
<1>2. ASSUME NEW i \in Dispatchers
      PROVE  inbox'[i] \in {inbox[i], Append(inbox[i], e)} /\ inbox'[i] \in Seq(Event)
  BY <1>0, <1>1
<1>3. HooksTyped'
  <2>1. inbox' \in [Dispatchers -> Seq(Event)]
    BY <1>0, <1>1
  <2> QED
    BY <1>0, <2>1 DEF HooksTyped
<1>4. ASSUME NEW i \in Dispatchers, NEW j \in 1 .. Len(inbox'[i])
      PROVE  Awaited(i, j)'
  <2>1. CASE inbox'[i] = inbox[i]
    BY <1>0, <1>4, <2>1 DEF InboxInv, Awaited
  <2>2. CASE inbox'[i] = Append(inbox[i], e)
    <3>1. /\ Len(inbox'[i]) = Len(inbox[i]) + 1
          /\ inbox'[i][Len(inbox[i]) + 1] = e
          /\ \A k \in 1 .. Len(inbox[i]) : inbox'[i][k] = inbox[i][k] /\ inbox[i][k] # e
      BY <1>0, <2>2 DEF InboxInv, Awaited
    <3>2. CASE j = Len(inbox[i]) + 1
      BY <1>0, <3>1, <3>2 DEF InboxInv, Awaited
    <3>3. CASE j \in 1 .. Len(inbox[i])
      BY <1>0, <3>1, <3>3 DEF InboxInv, Awaited
    <3> QED
      BY <1>0, <1>4, <3>1, <3>2, <3>3
  <2> QED
    BY <1>2, <2>1, <2>2
<1>5. InboxInv'
  BY <1>0, <1>4 DEF InboxInv
<1>6. (\A d \in Hooks!Delivery : OnSchedule(delivery[d], process[d[1]]))' /\ AuditInv'
  BY <1>0 DEF HooksInv, OnSchedule, AuditInv, Hooks!AuditedAsSent
<1> QED
  BY <1>3, <1>5, <1>6 DEF HooksInv

\* Dispatching an event turns it into deliveries that nothing has been done for.
LEMMA HooksDispatch ==
    ASSUME HooksInv, NEW i \in Dispatchers, Hooks!Dispatch(i)
    PROVE  HooksInv'
<1>0. /\ HooksTyped /\ InboxInv /\ AuditInv /\ UNCHANGED <<process, published, audit>>
      /\ process[i] = "up" /\ inbox[i] # <<>> /\ inbox[i] \in Seq(Event)
      /\ inbox' = [inbox EXCEPT ![i] = Tail(@)]
  BY DEF HooksInv, HooksTyped, Hooks!Dispatch
<1>1. PICK e : e = Head(inbox[i])
  OBVIOUS
<1>2. PICK found : found = Hooks!WebhookConfigs(i, e)
  OBVIOUS
<1>3. delivery' = [d \in Hooks!Delivery |->
                      IF Hooks!Inst(d) = i /\ d[2] = e /\ Hooks!Config(d) \in DOMAIN found
                      THEN [Hooks!NotStarted EXCEPT !.pc = "send", !.signed = found[Hooks!Config(d)] # ""]
                      ELSE delivery[d]]
  BY <1>1, <1>2 DEF Hooks!Dispatch
<1>4. \A u \in DOMAIN found : found[u] # ""
  <2>1. CASE e \in Subscribed
    BY <1>2, <2>1 DEF Hooks!WebhookConfigs, Hooks!Secrets
  <2>2. CASE e \notin Subscribed
    <3>1. found = <<>>
      BY <1>2, <2>2 DEF Hooks!WebhookConfigs
    <3>2. DOMAIN <<>> = 1 .. Len(<<>>) /\ Len(<<>>) = 0
      BY EmptySeq, LenProperties
    <3>3. DOMAIN found = 1 .. 0
      BY <3>1, <3>2
    <3>4. DOMAIN found = {}
      BY <3>3
    <3> QED
      BY <3>4
  <2> QED
    BY <2>1, <2>2
<1>5. e = inbox[i][1] /\ 1 \in 1 .. Len(inbox[i]) /\ Awaited(i, 1)
  <2>1. e = inbox[i][1]
    BY <1>0, <1>1
  <2>2. 1 \in 1 .. Len(inbox[i])
    BY <1>0
  <2> QED
    BY <1>0, <2>1, <2>2 DEF InboxInv
<1>6. PICK r : r = [Hooks!NotStarted EXCEPT !.pc = "send"]
  OBVIOUS
<1>7. /\ r \in DeliveryRecords /\ r.pc = "send" /\ OnSchedule(r, "up")
      /\ r = [Hooks!NotStarted EXCEPT !.pc = "send", !.signed = TRUE]
  <2>1. /\ r \in DeliveryRecords /\ r.pc = "send" /\ r.signed /\ r.tries = 0 /\ r.elapsed = 0
    BY <1>6 DEF Hooks!NotStarted, DeliveryRecords
  <2>2. r = [Hooks!NotStarted EXCEPT !.pc = "send", !.signed = TRUE]
    <3>1. PICK n \in DeliveryRecords : n = Hooks!NotStarted /\ n.signed = TRUE
      BY NotStartedRecord DEF DeliveryRecords
    <3>2. [n EXCEPT !.pc = "send"] = [n EXCEPT !.pc = "send", !.signed = TRUE]
      BY <3>1 DEF DeliveryRecords
    <3> QED
      BY <1>6, <3>1, <3>2
  <2> QED
    BY <2>1, <2>2 DEF OnSchedule
<1>8. ASSUME NEW d \in Hooks!Delivery
      PROVE  \/ delivery'[d] = delivery[d]
             \/ d[1] = i /\ d[2] = e /\ delivery'[d] = r
  BY <1>4, <1>7, <1>3, DeliveryParts
<1>9. \A d \in Hooks!Delivery : d[1] = i /\ d[2] = e => delivery[d].pc = "none"
  BY <1>5 DEF Awaited
<1>10. e \in published
  BY <1>5 DEF Awaited
<1>11. HooksTyped'
  <2>1. inbox' \in [Dispatchers -> Seq(Event)]
    BY <1>0 DEF HooksTyped
  <2>2. delivery' \in [Hooks!Delivery -> DeliveryRecords]
    <3>1. DOMAIN delivery' = Hooks!Delivery /\ delivery' = [d \in Hooks!Delivery |-> delivery'[d]]
      BY <1>3
    <3>2. \A d \in Hooks!Delivery : delivery'[d] \in DeliveryRecords
      BY <1>0, <1>7, <1>8 DEF HooksTyped
    <3> QED
      BY <3>1, <3>2
  <2> QED
    BY <1>0, <2>1, <2>2 DEF HooksTyped
<1>12. (\A d \in Hooks!Delivery : OnSchedule(delivery[d], process[d[1]]))'
  <2> SUFFICES ASSUME NEW d \in Hooks!Delivery
               PROVE  OnSchedule(delivery'[d], process[d[1]])
    BY <1>0
  <2>1. OnSchedule(delivery[d], process[d[1]])
    BY DEF HooksInv
  <2> QED
    BY <1>0, <1>7, <1>8, <2>1
<1>13. ASSUME NEW b \in Dispatchers, NEW j \in 1 .. Len(inbox'[b])
       PROVE  Awaited(b, j)'
  <2>1. CASE b # i
    <3>1. inbox'[b] = inbox[b] /\ Awaited(b, j)
      BY <1>0, <1>13, <2>1 DEF HooksTyped, InboxInv
    <3>2. \A d \in Hooks!Delivery : d[1] = b => delivery'[d] = delivery[d]
      BY <1>8, <2>1
    <3>3. inbox'[b][j] \in published /\ published' = published
      BY <1>0, <3>1 DEF Awaited
    <3>4. \A k \in 1 .. Len(inbox'[b]) : k # j => inbox'[b][k] # inbox'[b][j]
      BY <3>1 DEF Awaited
    <3>5. \A d \in Hooks!Delivery : d[1] = b /\ d[2] = inbox'[b][j] => delivery'[d].pc = "none"
      BY <3>1, <3>2 DEF Awaited
    <3> QED
      BY <3>3, <3>4, <3>5 DEF Awaited
  <2>2. CASE b = i
    <3>1. inbox'[i] = Tail(inbox[i])
      BY <1>0 DEF HooksTyped
    <3>2. /\ Len(inbox[i]) = Len(inbox'[i]) + 1
          /\ \A k \in 1 .. Len(inbox'[i]) : inbox'[i][k] = inbox[i][k + 1]
      <4>1. /\ Tail(inbox[i]) \in Seq(Event) /\ Len(Tail(inbox[i])) = Len(inbox[i]) - 1
            /\ \A k \in 1 .. Len(Tail(inbox[i])) : Tail(inbox[i])[k] = inbox[i][k + 1]
        BY <1>0, HeadTailProperties
      <4>2. Len(inbox[i]) \in Nat
        BY <1>0, LenProperties
      <4> QED
        BY <3>1, <4>1, <4>2
    <3>3. j + 1 \in 1 .. Len(inbox[i]) /\ j + 1 # 1 /\ inbox'[i][j] = inbox[i][j + 1]
      BY <1>13, <2>2, <3>1, <3>2, <1>0
    <3>4. Awaited(i, j + 1)
      BY <1>0, <3>3 DEF InboxInv
    <3>5. inbox'[i][j] # e
      BY <1>5, <3>3, <3>4 DEF Awaited
    <3>6. \A d \in Hooks!Delivery : d[2] = inbox'[i][j] => delivery'[d] = delivery[d]
      BY <1>8, <3>5
    <3>7. \A k \in 1 .. Len(inbox'[i]) : k # j => inbox'[i][k] # inbox'[i][j]
      <4> SUFFICES ASSUME NEW k \in 1 .. Len(inbox'[i]), k # j
                   PROVE  inbox'[i][k] # inbox'[i][j]
        OBVIOUS
      <4>1. k + 1 \in 1 .. Len(inbox[i]) /\ k + 1 # j + 1 /\ inbox'[i][k] = inbox[i][k + 1]
        BY <1>0, <1>13, <2>2, <3>1, <3>2
      <4> QED
        BY <3>3, <3>4, <4>1 DEF Awaited
    <3>8. inbox'[i][j] \in published /\ published' = published
      BY <1>0, <3>3, <3>4 DEF Awaited
    <3>9. \A d \in Hooks!Delivery : d[1] = i /\ d[2] = inbox'[i][j] => delivery'[d].pc = "none"
      BY <3>3, <3>4, <3>6 DEF Awaited
    <3> QED
      BY <2>2, <3>7, <3>8, <3>9 DEF Awaited
  <2> QED
    BY <2>1, <2>2
<1>14. InboxInv'
  BY <1>0, <1>8, <1>13, <1>10 DEF InboxInv
<1>15. AuditInv'
  <2>1. \A d \in Hooks!Delivery : delivery[d].pc = "done" \/ delivery'[d].pc = "done"
                                    => delivery'[d] = delivery[d]
    BY <1>7, <1>8, <1>9
  <2>2. \A x \in audit : x.of \in Hooks!Delivery /\ delivery'[x.of].pc = "done"
    BY <1>0, <2>1 DEF AuditInv
  <2>3. Hooks!AuditedAsSent'
    BY <1>0, <2>1 DEF AuditInv, Hooks!AuditedAsSent
  <2> QED
    BY <1>0, <2>2, <2>3 DEF AuditInv
<1> QED
  BY <1>11, <1>12, <1>14, <1>15 DEF HooksInv

\* A failed lookup and a stopped process lose what waits, which disturbs nobody.
LEMMA InboxLoses ==
    ASSUME HooksTyped, InboxInv, NEW i \in Dispatchers, UNCHANGED published,
           inbox' \in [Dispatchers -> Seq(Event)],
           \A b \in Dispatchers : b # i => inbox'[b] = inbox[b],
           \/ inbox'[i] \in {<<>>, inbox[i]}
           \/ inbox[i] # <<>> /\ inbox'[i] = Tail(inbox[i]),
           \A d \in Hooks!Delivery : delivery[d].pc = "none" => delivery'[d].pc = "none"
    PROVE  InboxInv'
<1>1. ASSUME NEW b \in Dispatchers, NEW j \in 1 .. Len(inbox'[b]), inbox'[b] = inbox[b]
      PROVE  Awaited(b, j)'
  BY <1>1 DEF InboxInv, Awaited
<1>2. ASSUME NEW j \in 1 .. Len(inbox'[i]), inbox'[i] = Tail(inbox[i]), inbox[i] # <<>>
      PROVE  Awaited(i, j)'
  <2>0. inbox[i] \in Seq(Event)
    BY DEF HooksTyped
  <2>1. /\ Len(inbox[i]) = Len(inbox'[i]) + 1
        /\ \A k \in 1 .. Len(inbox'[i]) : inbox'[i][k] = inbox[i][k + 1]
    BY <1>2, <2>0, HeadTailProperties
  <2>2. Len(inbox'[i]) \in Nat
    BY <1>2, <2>0
  <2>3. j + 1 \in 1 .. Len(inbox[i]) /\ inbox'[i][j] = inbox[i][j + 1]
    BY <1>2, <2>1, <2>2
  <2>4. Awaited(i, j + 1)
    BY <2>3 DEF InboxInv
  <2>5. \A k \in 1 .. Len(inbox'[i]) : k # j => inbox'[i][k] # inbox'[i][j]
    <3> SUFFICES ASSUME NEW k \in 1 .. Len(inbox'[i]), k # j
                 PROVE  inbox'[i][k] # inbox'[i][j]
      OBVIOUS
    <3>1. k + 1 \in 1 .. Len(inbox[i]) /\ k + 1 # j + 1 /\ inbox'[i][k] = inbox[i][k + 1]
      BY <2>1, <2>2
    <3> QED
      BY <2>3, <2>4, <3>1 DEF Awaited
  <2> QED
    BY <2>3, <2>4, <2>5 DEF Awaited
<1>3. ASSUME NEW b \in Dispatchers, NEW j \in 1 .. Len(inbox'[b])
      PROVE  Awaited(b, j)'
  <2>1. CASE inbox'[b] = <<>>
    BY <1>3, <2>1
  <2> QED
    BY <1>1, <1>2, <1>3, <2>1
<1> QED
  BY <1>3 DEF InboxInv

\* Stopping, exiting, starting again, and the lookups that fail.
LEMMA HooksProcess ==
    ASSUME HooksInv, NEW i \in Dispatchers,
           Hooks!LookupFails(i) \/ Hooks!Shutdown(i) \/ Hooks!Exit(i) \/ Hooks!Restart(i)
    PROVE  HooksInv'
<1>0. HooksTyped /\ InboxInv /\ AuditInv /\ UNCHANGED <<published, audit>>
  BY DEF HooksInv, Hooks!LookupFails, Hooks!Shutdown, Hooks!Exit, Hooks!Restart
<1>1. ASSUME process' \in [Dispatchers -> {"up", "stopping", "down"}],
             inbox' \in [Dispatchers -> Seq(Event)],
             \A b \in Dispatchers : b # i => inbox'[b] = inbox[b],
             \/ inbox'[i] \in {<<>>, inbox[i]}
             \/ inbox[i] # <<>> /\ inbox'[i] = Tail(inbox[i]),
             delivery' \in [Hooks!Delivery -> DeliveryRecords],
             \A d \in Hooks!Delivery :
                 /\ OnSchedule(delivery'[d], process'[d[1]])
                 /\ delivery[d].pc \in {"none", "done"} => delivery'[d] = delivery[d]
                 /\ delivery'[d].pc = "done" => delivery'[d] = delivery[d]
      PROVE  HooksInv'
  <2>1. HooksTyped'
    BY <1>1 DEF HooksTyped
  <2>2. InboxInv'
    BY <1>0, <1>1, InboxLoses
  <2>3. AuditInv'
    <3>1. \A x \in audit : x.of \in Hooks!Delivery /\ delivery'[x.of].pc = "done"
      BY <1>0, <1>1 DEF AuditInv
    <3>2. Hooks!AuditedAsSent'
      BY <1>0, <1>1 DEF AuditInv, Hooks!AuditedAsSent
    <3> QED
      BY <1>0, <3>1, <3>2 DEF AuditInv
  <2> QED
    BY <1>1, <2>1, <2>2, <2>3 DEF HooksInv
<1>2. \A d \in Hooks!Delivery : /\ delivery[d] \in DeliveryRecords /\ d[1] \in Dispatchers
                                /\ OnSchedule(delivery[d], process[d[1]])
                                /\ Hooks!Inst(d) = d[1]
  BY <1>0, DeliveryParts DEF HooksInv, HooksTyped
<1>3. CASE Hooks!LookupFails(i)
  <2>1. /\ inbox' = [inbox EXCEPT ![i] = Tail(@)] /\ inbox[i] # <<>>
        /\ UNCHANGED <<process, delivery>>
    BY <1>3 DEF Hooks!LookupFails
  <2>2. inbox[i] \in Seq(Event) /\ Tail(inbox[i]) \in Seq(Event)
    BY <1>0, <2>1 DEF HooksTyped
  <2> QED
    BY <1>0, <1>1, <1>2, <2>1, <2>2 DEF HooksTyped
<1>4. CASE Hooks!Shutdown(i)
  <2>1. /\ process[i] = "up" /\ process' = [process EXCEPT ![i] = "stopping"] /\ inbox' = inbox
        /\ delivery' = [d \in Hooks!Delivery |->
              IF d[1] = i /\ delivery[d].pc \in {"send", "wait"}
              THEN [delivery[d] EXCEPT !.cut = TRUE] ELSE delivery[d]]
    BY <1>2, <1>4 DEF Hooks!Shutdown
  <2>2. ASSUME NEW d \in Hooks!Delivery
        PROVE  /\ OnSchedule(delivery'[d], process'[d[1]]) /\ delivery'[d] \in DeliveryRecords
               /\ delivery[d].pc \in {"none", "done"} => delivery'[d] = delivery[d]
               /\ delivery'[d].pc = "done" => delivery'[d] = delivery[d]
    <3>1. PICK r : r = [delivery[d] EXCEPT !.cut = TRUE]
      OBVIOUS
    <3>2. r \in DeliveryRecords /\ r.pc = delivery[d].pc /\ r.cut
      BY <1>2, <3>1 DEF DeliveryRecords
    <3>3. delivery[d].pc \in {"send", "wait"} => OnSchedule(r, process'[d[1]])
      BY <1>2, <3>1, <3>2 DEF DeliveryRecords, OnSchedule
    <3>4. CASE d[1] = i /\ delivery[d].pc \in {"send", "wait"}
      BY <2>1, <3>1, <3>2, <3>3, <3>4
    <3>5. CASE ~(d[1] = i /\ delivery[d].pc \in {"send", "wait"})
      <4>1. delivery'[d] = delivery[d]
        BY <2>1, <3>5
      <4>2. OnSchedule(delivery[d], process'[d[1]])
        BY <1>0, <1>2, <2>1, <3>5 DEF OnSchedule, HooksTyped
      <4> QED
        BY <1>2, <4>1, <4>2
    <3> QED
      BY <3>4, <3>5
  <2>3. delivery' \in [Hooks!Delivery -> DeliveryRecords]
    BY <2>1, <2>2
  <2> QED
    BY <1>0, <1>1, <2>1, <2>2, <2>3 DEF HooksTyped
<1>5. CASE Hooks!Exit(i)
  <2>1. /\ process' = [process EXCEPT ![i] = "down"] /\ inbox' = [inbox EXCEPT ![i] = <<>>]
        /\ delivery' = [d \in Hooks!Delivery |->
              IF d[1] = i /\ delivery[d].pc \notin {"none", "done"}
              THEN [delivery[d] EXCEPT !.pc = "gone"] ELSE delivery[d]]
    BY <1>2, <1>5 DEF Hooks!Exit
  <2>2. ASSUME NEW d \in Hooks!Delivery
        PROVE  /\ OnSchedule(delivery'[d], process'[d[1]]) /\ delivery'[d] \in DeliveryRecords
               /\ delivery[d].pc \in {"none", "done"} => delivery'[d] = delivery[d]
               /\ delivery'[d].pc = "done" => delivery'[d] = delivery[d]
    <3>1. PICK r : r = [delivery[d] EXCEPT !.pc = "gone"]
      OBVIOUS
    <3>2. r \in DeliveryRecords /\ r.pc = "gone" /\ OnSchedule(r, process'[d[1]])
      BY <1>2, <3>1 DEF DeliveryRecords, OnSchedule
    <3>3. CASE d[1] = i /\ delivery[d].pc \notin {"none", "done"}
      BY <2>1, <3>1, <3>2, <3>3
    <3>4. CASE ~(d[1] = i /\ delivery[d].pc \notin {"none", "done"})
      <4>1. delivery'[d] = delivery[d]
        BY <2>1, <3>4
      <4>2. OnSchedule(delivery[d], process'[d[1]])
        BY <1>0, <1>2, <2>1, <3>4 DEF OnSchedule, HooksTyped
      <4> QED
        BY <1>2, <4>1, <4>2
    <3> QED
      BY <3>3, <3>4
  <2>3. delivery' \in [Hooks!Delivery -> DeliveryRecords]
    BY <2>1, <2>2
  <2>4. /\ process' \in [Dispatchers -> {"up", "stopping", "down"}]
        /\ inbox' \in [Dispatchers -> Seq(Event)] /\ inbox'[i] = <<>>
        /\ \A b \in Dispatchers : b # i => inbox'[b] = inbox[b]
    BY <1>0, <2>1 DEF HooksTyped
  <2> QED
    BY <1>1, <2>2, <2>3, <2>4
<1>6. CASE Hooks!Restart(i)
  <2>1. process' = [process EXCEPT ![i] = "up"] /\ UNCHANGED <<delivery, inbox>>
    BY <1>6 DEF Hooks!Restart
  <2>2. \A d \in Hooks!Delivery : OnSchedule(delivery[d], process'[d[1]])
    BY <1>0, <1>2, <2>1 DEF OnSchedule, HooksTyped
  <2> QED
    BY <1>0, <1>1, <2>1, <2>2 DEF HooksTyped
<1> QED
  BY <1>3, <1>4, <1>5, <1>6

LEMMA HooksStep ==
    ASSUME HooksInv, Hooks!Next \/ UNCHANGED hooks
    PROVE  HooksInv'
<1>1. ASSUME UNCHANGED <<process, inbox, published, delivery, audit>> PROVE HooksInv'
  BY <1>1 DEF HooksInv, HooksTyped, InboxInv, Awaited, AuditInv, OnSchedule, Hooks!AuditedAsSent
<1>2. ASSUME NEW r \in Requests,
             \/ \E u \in Url : Hooks!Create(r, u)
             \/ Hooks!TakeSnapshot(r)
             \/ \E i \in Dispatchers : Hooks!Insert(r, i)
      PROVE  HooksInv'
  BY <1>1, <1>2 DEF Hooks!Create, Hooks!TakeSnapshot, Hooks!Insert
<1>3. ASSUME NEW d \in Hooks!Delivery, Hooks!Send(d) \/ Hooks!Wait(d) \/ Hooks!LogDelivery(d)
      PROVE  HooksInv'
  BY <1>3, HooksSend, HooksWait, HooksLog
<1>4. ASSUME NEW i \in Dispatchers,
             \/ Hooks!Dispatch(i) \/ Hooks!LookupFails(i)
             \/ Hooks!Shutdown(i) \/ Hooks!Exit(i) \/ Hooks!Restart(i)
      PROVE  HooksInv'
  BY <1>4, HooksDispatch, HooksProcess
<1>5. CASE UNCHANGED hooks
  BY <1>1, <1>5 DEF hooks
<1> QED
  BY <1>2, <1>3, <1>4, <1>5, HooksDelete, HooksPublish DEF Hooks!Next

\* A delivery that meets transient errors gets its three attempts unless its process is
\* told to stop; one that came to its end has its one row, with what the receiver saw; and
\* none goes out unsigned, whatever key its instance was started with.
THEOREM Deliveries == ServicesSpec => []DeliveriesHold
<1>1. ServicesInit => HooksInv
  BY HooksInit DEF ServicesInit
<1>2. HooksInv /\ [ServicesNext]_services => HooksInv'
  <2>1. [ServicesNext]_services => Hooks!Next \/ UNCHANGED hooks
    BY DEF ServicesNext, services
  <2> QED
    BY <2>1, HooksStep
<1>3. HooksInv => DeliveriesHold
  BY DEF HooksInv, OnSchedule, AuditInv, DeliveriesHold, Hooks!BudgetCoversRetries,
         Hooks!NeverUnsigned, Hooks!MaxAttempts
<1> QED
  BY <1>1, <1>2, <1>3, PTL DEF ServicesSpec

----------------------------------------------------------------------------
(* The shapes of the webhooks' state                                       *)

USE HooksAssumption

\* A request names the URL it registers until its statement ends.
Registering ==
    /\ configs \in [Url -> Keys \cup {"none"}] /\ key \in [Dispatchers -> Keys]
    /\ request = [r \in Requests |-> request[r]]
    /\ \A r \in Requests : request[r].pc # "idle" => request[r].url \in Url

InboxesFit == \A i \in Dispatchers : Len(inbox[i]) <= Buffer

\* A delivery is inside its budget, and of a config that is there or marked as an orphan.
InBudget(r) == r.elapsed <= 13 /\ r.tries <= 3
Attached(d) == delivery[d].pc # "none" /\ ~delivery[d].orphan => configs[d[3]] # "none"

HooksShapes ==
    /\ Registering /\ InboxesFit
    /\ \A d \in Hooks!Delivery : InBudget(delivery[d]) /\ Attached(d)
    /\ \A r \in audit : configs[r.of[3]] # "none"

LEMMA HooksShapesInit == Hooks!Init => HooksShapes
<1> SUFFICES ASSUME Hooks!Init PROVE HooksShapes
  OBVIOUS
<1>1. Registering
  <2>1. PICK q : q = [pc |-> "idle"] /\ request = [r \in Requests |-> q]
    BY DEF Hooks!Init
  <2>2. /\ configs \in [Url -> Keys \cup {"none"}] /\ key \in [Dispatchers -> Keys]
    BY DEF Hooks!Init
  <2> QED
    BY <2>1, <2>2 DEF Registering
<1>2. InboxesFit
  <2>1. PICK s : s = <<>> /\ inbox = [i \in Dispatchers |-> s] /\ Len(s) = 0
    BY DEF Hooks!Init
  <2> QED
    BY <2>1 DEF InboxesFit
<1>3. \A d \in Hooks!Delivery : InBudget(delivery[d]) /\ Attached(d)
  <2>1. PICK r : r = Hooks!NotStarted /\ delivery = [d \in Hooks!Delivery |-> r]
    BY DEF Hooks!Init
  <2> QED
    BY <2>1, NotStartedRecord DEF InBudget, Attached
<1>4. audit = {}
  BY DEF Hooks!Init
<1> QED
  BY <1>1, <1>2, <1>3, <1>4 DEF HooksShapes

LEMMA RegisteringStep ==
    ASSUME Registering, Hooks!Next \/ UNCHANGED hooks
    PROVE  Registering'
<1>0. /\ configs \in [Url -> Keys \cup {"none"}] /\ key \in [Dispatchers -> Keys]
      /\ request = [r \in Requests |-> request[r]]
  BY DEF Registering
<1>1. CASE UNCHANGED <<configs, request, key>>
  BY <1>1 DEF Registering
<1>2. ASSUME NEW r \in Requests, NEW q, request' = [request EXCEPT ![r] = q],
             q.pc # "idle" => q.url \in Url,
             configs' \in [Url -> Keys \cup {"none"}], UNCHANGED key
      PROVE  Registering'
  <2>1. /\ request' = [s \in Requests |-> request'[s]]
        /\ \A s \in Requests : request'[s] = IF s = r THEN q ELSE request[s]
    BY <1>0, <1>2
  <2> QED
    BY <1>0, <1>2, <2>1 DEF Registering
<1>3. ASSUME NEW r \in Requests, NEW u \in Url, Hooks!Create(r, u) PROVE Registering'
  <2>1. PICK q : q = [pc |-> "statement", url |-> u] /\ request' = [request EXCEPT ![r] = q]
    BY <1>3 DEF Hooks!Create
  <2>2. q.url \in Url /\ UNCHANGED <<configs, key>>
    BY <1>3, <2>1 DEF Hooks!Create
  <2> QED
    BY <1>0, <1>2, <2>1, <2>2
<1>4. ASSUME NEW r \in Requests, Hooks!TakeSnapshot(r) PROVE Registering'
  <2>1. PICK u \in Url : u = request[r].url
    BY <1>4 DEF Hooks!TakeSnapshot, Registering
  <2>2. PICK q, s : /\ q = [pc |-> "locking", url |-> u, seen |-> s]
                    /\ request' = [request EXCEPT ![r] = q]
    BY <1>0, <1>4, <2>1 DEF Hooks!TakeSnapshot
  <2>3. q.url \in Url /\ UNCHANGED <<configs, key>>
    BY <1>4, <2>2 DEF Hooks!TakeSnapshot
  <2> QED
    BY <1>0, <1>2, <2>2, <2>3
<1>5. ASSUME NEW r \in Requests, NEW i \in Dispatchers, Hooks!Insert(r, i) PROVE Registering'
  <2>1. PICK q : q = [pc |-> "idle"] /\ request' = [request EXCEPT ![r] = q]
    BY <1>5 DEF Hooks!Insert
  <2>2. UNCHANGED configs \/ configs' = [configs EXCEPT ![request[r].url] = key[i]]
    BY <1>5 DEF Hooks!Insert
  <2>3. configs' \in [Url -> Keys \cup {"none"}]
    BY <1>0, <2>2
  <2>4. UNCHANGED key
    BY <1>5 DEF Hooks!Insert
  <2> QED
    BY <1>2, <2>1, <2>3, <2>4
<1>6. ASSUME NEW u \in Url, Hooks!DeleteConfig(u) PROVE Registering'
  BY <1>0, <1>6 DEF Hooks!DeleteConfig, Registering
<1>7. ASSUME NEW i \in Dispatchers, Hooks!Restart(i) PROVE Registering'
  BY <1>0, <1>7 DEF Hooks!Restart, Registering
<1>8. ASSUME NEW d \in Hooks!Delivery, Hooks!Send(d) \/ Hooks!Wait(d) \/ Hooks!LogDelivery(d)
      PROVE  Registering'
  BY <1>1, <1>8 DEF Hooks!Send, Hooks!Wait, Hooks!LogDelivery
<1>9. ASSUME NEW i \in Dispatchers,
             Hooks!Dispatch(i) \/ Hooks!LookupFails(i) \/ Hooks!Shutdown(i) \/ Hooks!Exit(i)
      PROVE  Registering'
  BY <1>1, <1>9 DEF Hooks!Dispatch, Hooks!LookupFails, Hooks!Shutdown, Hooks!Exit
<1>10. ASSUME NEW e \in Event, Hooks!Publish(e) PROVE Registering'
  BY <1>1, <1>10 DEF Hooks!Publish
<1>11. CASE UNCHANGED hooks
  BY <1>1, <1>11 DEF hooks
<1> QED
  BY <1>3, <1>4, <1>5, <1>6, <1>7, <1>8, <1>9, <1>10, <1>11 DEF Hooks!Next

\* A full channel drops the event.
LEMMA InboxesFitStep ==
    ASSUME HooksTyped, InboxesFit, Hooks!Next \/ UNCHANGED hooks
    PROVE  InboxesFit'
<1>0. inbox \in [Dispatchers -> Seq(Event)]
  BY DEF HooksTyped
<1>1. CASE UNCHANGED inbox
  BY <1>1 DEF InboxesFit
<1>2. ASSUME NEW e \in Event, Hooks!Publish(e) PROVE InboxesFit'
  <2>1. ASSUME NEW i \in Dispatchers PROVE Len(inbox'[i]) <= Buffer
    <3>1. inbox'[i] = inbox[i] \/ (Len(inbox[i]) < Buffer /\ inbox'[i] = Append(inbox[i], e))
      BY <1>2 DEF Hooks!Publish
    <3> QED
      BY <1>0, <3>1 DEF InboxesFit
  <2> QED
    BY <2>1 DEF InboxesFit
<1>3. ASSUME NEW i \in Dispatchers, Hooks!Dispatch(i) \/ Hooks!LookupFails(i) \/ Hooks!Exit(i)
      PROVE  InboxesFit'
  <2>1. ASSUME NEW j \in Dispatchers PROVE Len(inbox'[j]) <= Buffer
    <3>1. \/ inbox'[j] = inbox[j] \/ inbox'[j] = <<>>
          \/ inbox[j] # <<>> /\ inbox'[j] = Tail(inbox[j])
      BY <1>0, <1>3 DEF Hooks!Dispatch, Hooks!LookupFails, Hooks!Exit
    <3>2. inbox[j] \in Seq(Event) /\ Len(inbox[j]) <= Buffer
      BY <1>0 DEF InboxesFit
    <3>3. CASE inbox[j] # <<>> /\ inbox'[j] = Tail(inbox[j])
      <4>1. Len(Tail(inbox[j])) = Len(inbox[j]) - 1 /\ Len(inbox[j]) \in Nat
        BY <3>2, <3>3, HeadTailProperties
      <4> QED
        BY <3>2, <3>3, <4>1
    <3>4. CASE inbox'[j] = <<>>
      BY <3>4
    <3> QED
      BY <3>1, <3>2, <3>3, <3>4
  <2> QED
    BY <2>1 DEF InboxesFit
<1>4. ASSUME NEW d \in Hooks!Delivery, Hooks!Send(d) \/ Hooks!Wait(d) \/ Hooks!LogDelivery(d)
      PROVE  InboxesFit'
  BY <1>1, <1>4 DEF Hooks!Send, Hooks!Wait, Hooks!LogDelivery
<1>5. ASSUME NEW i \in Dispatchers, Hooks!Shutdown(i) \/ Hooks!Restart(i) PROVE InboxesFit'
  BY <1>1, <1>5 DEF Hooks!Shutdown, Hooks!Restart
<1>7. ASSUME NEW r \in Requests, Hooks!TakeSnapshot(r) PROVE InboxesFit'
  BY <1>1, <1>7 DEF Hooks!TakeSnapshot
<1>8. ASSUME NEW r \in Requests, NEW u \in Url, Hooks!Create(r, u) PROVE InboxesFit'
  BY <1>1, <1>8 DEF Hooks!Create
<1>9. ASSUME NEW u \in Url, Hooks!DeleteConfig(u) PROVE InboxesFit'
  BY <1>1, <1>9 DEF Hooks!DeleteConfig
<1>10. ASSUME NEW r \in Requests, NEW i \in Dispatchers, Hooks!Insert(r, i) PROVE InboxesFit'
  BY <1>1, <1>10 DEF Hooks!Insert
<1>11. CASE UNCHANGED hooks
  BY <1>1, <1>11 DEF hooks
<1> QED
  BY <1>2, <1>3, <1>4, <1>5, <1>7, <1>8, <1>9, <1>10, <1>11 DEF Hooks!Next

----------------------------------------------------------------------------
DeliveriesShaped == \A d \in Hooks!Delivery : InBudget(delivery[d]) /\ Attached(d)
AuditShaped == \A r \in audit : configs[r.of[3]] # "none"

\* A delivery moves on.
LEMMA DeliveryMoves ==
    ASSUME HooksInv, DeliveriesShaped, NEW d \in Hooks!Delivery, NEW r, Hooks!Set(d, r),
           delivery[d].pc # "none", r.orphan = delivery[d].orphan, InBudget(r), UNCHANGED configs
    PROVE  DeliveriesShaped'
<1>1. \A b \in Hooks!Delivery : delivery'[b] = IF b = d THEN r ELSE delivery[b]
  BY DEF HooksInv, HooksTyped, Hooks!Set
<1> QED
  BY <1>1 DEF DeliveriesShaped, Attached

\* No attempt and no pause takes a delivery past its budget.
LEMMA DeliveryGoes ==
    ASSUME HooksInv, DeliveriesShaped, NEW d \in Hooks!Delivery,
           Hooks!Send(d) \/ Hooks!Wait(d) \/ Hooks!LogDelivery(d)
    PROVE  DeliveriesShaped'
<1>0. /\ delivery[d] \in DeliveryRecords /\ OnSchedule(delivery[d], process[d[1]])
      /\ InBudget(delivery[d]) /\ delivery[d].pc \in {"send", "wait", "log"} /\ UNCHANGED configs
  BY DEF HooksInv, HooksTyped, DeliveriesShaped, Hooks!Send, Hooks!Wait, Hooks!LogDelivery
<1>1. CASE Hooks!Send(d)
  <2>1. delivery[d].pc = "send"
    BY <1>1 DEF Hooks!Send
  <2>2. delivery[d].elapsed \in 0 .. 11 /\ delivery[d].tries \in 0 .. 2
    BY <1>0, <2>1 DEF OnSchedule, DeliveryRecords
  <2>3. PICK a, s :
           /\ a \in Hooks!Attempts(d)
           /\ s = [delivery[d] EXCEPT !.tries = @ + 1, !.status = a[1], !.elapsed = @ + a[2]]
           /\ Hooks!Set(d, [s EXCEPT !.pc = Hooks!AfterAttempt(s, a[1])])
    BY <1>1 DEF Hooks!Send
  <2>4. a[2] \in 0 .. 2
    BY <2>2, <2>3, AttemptShape
  <2>5. PICK n, m, st, p :
           /\ n \in 1 .. 3 /\ m \in 0 .. 13
           /\ n = delivery[d].tries + 1 /\ m = delivery[d].elapsed + a[2] /\ st = a[1]
           /\ p = Hooks!AfterAttempt(s, a[1])
    BY <2>2, <2>4
  <2>6. s = [delivery[d] EXCEPT !.tries = n, !.status = st, !.elapsed = m]
    BY <2>3, <2>5
  <2>7. PICK r : r = [s EXCEPT !.pc = p] /\ Hooks!Set(d, r)
    BY <2>3, <2>5
  <2>8. r.tries = n /\ r.elapsed = m /\ r.orphan = delivery[d].orphan
    BY <1>0, <2>6, <2>7 DEF DeliveryRecords
  <2>9. InBudget(r)
    BY <2>5, <2>8 DEF InBudget
  <2> QED
    BY <1>0, <2>1, <2>7, <2>8, <2>9, DeliveryMoves
<1>2. CASE Hooks!Wait(d)
  <2>1. PICK resumed : resumed = delivery[d].elapsed + Hooks!Delays[delivery[d].tries]
    OBVIOUS
  <2>2. CASE resumed <= Hooks!Budget /\ Hooks!Set(d, [delivery[d] EXCEPT !.pc = "send", !.elapsed = resumed])
    <3>1. PICK r : r = [delivery[d] EXCEPT !.pc = "send", !.elapsed = resumed] /\ Hooks!Set(d, r)
      BY <2>2
    <3>2. r.elapsed = resumed /\ r.tries = delivery[d].tries /\ r.orphan = delivery[d].orphan
      BY <1>0, <3>1 DEF DeliveryRecords
    <3>3. resumed <= 13
      BY <2>2 DEF Hooks!Budget, Hooks!MaxAttempts, Hooks!ClientTimeout, Hooks!Delays
    <3>4. InBudget(r)
      BY <1>0, <3>2, <3>3 DEF InBudget
    <3> QED
      BY <1>0, <3>1, <3>2, <3>4, DeliveryMoves
  <2>3. CASE Hooks!Set(d, [delivery[d] EXCEPT !.pc = "log"])
    <3>1. PICK r : r = [delivery[d] EXCEPT !.pc = "log"] /\ Hooks!Set(d, r)
      BY <2>3
    <3>2. r.elapsed = delivery[d].elapsed /\ r.tries = delivery[d].tries /\ r.orphan = delivery[d].orphan
      BY <1>0, <3>1 DEF DeliveryRecords
    <3>3. InBudget(r)
      BY <1>0, <3>2 DEF InBudget
    <3> QED
      BY <1>0, <3>1, <3>2, <3>3, DeliveryMoves
  <2> QED
    BY <1>2, <2>1, <2>2, <2>3 DEF Hooks!Wait
<1>3. CASE Hooks!LogDelivery(d)
  <2>1. PICK r : r = [delivery[d] EXCEPT !.pc = "done"] /\ Hooks!Set(d, r)
    BY <1>3 DEF Hooks!LogDelivery
  <2>2. r.elapsed = delivery[d].elapsed /\ r.tries = delivery[d].tries /\ r.orphan = delivery[d].orphan
    BY <1>0, <2>1 DEF DeliveryRecords
  <2>3. InBudget(r)
    BY <1>0, <2>2 DEF InBudget
  <2> QED
    BY <1>0, <2>1, <2>2, <2>3, DeliveryMoves
<1> QED
  BY <1>1, <1>2, <1>3

\* Steps of a process: a dispatch makes deliveries of configs that are there.
LEMMA DeliveriesOf ==
    ASSUME HooksInv, DeliveriesShaped, Registering, NEW i \in Dispatchers,
           Hooks!Dispatch(i) \/ Hooks!Shutdown(i) \/ Hooks!Exit(i)
    PROVE  DeliveriesShaped'
<1>0. \A d \in Hooks!Delivery : /\ delivery[d] \in DeliveryRecords /\ InBudget(delivery[d])
                                /\ Attached(d) /\ d[3] \in Url /\ Hooks!Config(d) = d[3]
  BY DeliveryParts DEF HooksInv, HooksTyped, DeliveriesShaped
<1>1. CASE Hooks!Dispatch(i)
  <2>0. UNCHANGED configs
    BY <1>1 DEF Hooks!Dispatch
  <2>1. PICK e : /\ UNCHANGED configs
                 /\ delivery' = [d \in Hooks!Delivery |->
                      IF Hooks!Inst(d) = i /\ d[2] = e /\ Hooks!Config(d) \in DOMAIN Hooks!WebhookConfigs(i, e)
                      THEN [Hooks!NotStarted EXCEPT !.pc = "send",
                               !.signed = Hooks!WebhookConfigs(i, e)[Hooks!Config(d)] # ""]
                      ELSE delivery[d]]
    BY <1>1 DEF Hooks!Dispatch
  <2>2. \A u \in Url : u \in DOMAIN Hooks!WebhookConfigs(i, e) => configs[u] # "none"
    <3>1. DOMAIN <<>> = {}
      OBVIOUS
    <3>2. Hooks!WebhookConfigs(i, e) = Hooks!Secrets(i) \/ Hooks!WebhookConfigs(i, e) = <<>>
      BY DEF Hooks!WebhookConfigs
    <3>3. DOMAIN Hooks!Secrets(i) \subseteq Hooks!Active(configs)
      BY DEF Hooks!Secrets
    <3> QED
      BY <3>1, <3>2, <3>3 DEF Hooks!Active
  <2>3. ASSUME NEW d \in Hooks!Delivery PROVE InBudget(delivery'[d]) /\ Attached(d)'
    <3>1. CASE delivery'[d] = delivery[d]
      BY <1>0, <2>1, <3>1 DEF Attached
    <3>2. CASE delivery'[d] # delivery[d]
      <4>1. PICK g : delivery'[d] = [Hooks!NotStarted EXCEPT !.pc = "send", !.signed = g]
        BY <2>1, <3>2
      <4>2. delivery'[d].elapsed = 0 /\ delivery'[d].tries = 0
        BY <4>1 DEF Hooks!NotStarted
      <4>3. configs[d[3]] # "none"
        BY <1>0, <2>1, <2>2, <3>2
      <4>4. InBudget(delivery'[d])
        BY <4>2 DEF InBudget
      <4>5. Attached(d)'
        BY <2>0, <4>3 DEF Attached
      <4> QED
        BY <4>4, <4>5
    <3> QED
      BY <3>1, <3>2
  <2> QED
    BY <2>3 DEF DeliveriesShaped
<1>2. CASE Hooks!Shutdown(i) \/ Hooks!Exit(i)
  <2>1. ASSUME NEW d \in Hooks!Delivery
        PROVE  \/ delivery'[d] = delivery[d]
               \/ delivery'[d] = [delivery[d] EXCEPT !.cut = TRUE]
               \/ delivery[d].pc # "none" /\ delivery'[d] = [delivery[d] EXCEPT !.pc = "gone"]
    BY <1>2 DEF Hooks!Shutdown, Hooks!Exit
  <2>2. UNCHANGED configs
    BY <1>2 DEF Hooks!Shutdown, Hooks!Exit
  <2>3. ASSUME NEW d \in Hooks!Delivery PROVE InBudget(delivery'[d]) /\ Attached(d)'
    <3>1. /\ delivery'[d].elapsed = delivery[d].elapsed /\ delivery'[d].tries = delivery[d].tries
          /\ delivery'[d].orphan = delivery[d].orphan
          /\ delivery[d].pc = "none" => delivery'[d].pc = "none"
      BY <1>0, <2>1 DEF DeliveryRecords
    <3> QED
      BY <1>0, <2>2, <3>1 DEF InBudget, Attached
  <2> QED
    BY <2>3 DEF DeliveriesShaped
<1> QED
  BY <1>1, <1>2

\* A config that is there stays until it is deleted, and then it has orphans only.
LEMMA HooksShapesStep ==
    ASSUME HooksInv, HooksShapes, Hooks!Next \/ UNCHANGED hooks
    PROVE  HooksShapes'
<1>0. /\ HooksTyped /\ Registering /\ InboxesFit /\ DeliveriesShaped /\ AuditShaped
      /\ \A r \in audit : r.of \in Hooks!Delivery
  BY DEF HooksInv, AuditInv, HooksShapes, DeliveriesShaped, AuditShaped
<1>1. Registering' /\ InboxesFit'
  BY <1>0, RegisteringStep, InboxesFitStep
<1>2. ASSUME UNCHANGED <<configs, delivery, audit>> PROVE DeliveriesShaped' /\ AuditShaped'
  BY <1>0, <1>2 DEF DeliveriesShaped, AuditShaped, Attached
<1>3. ASSUME NEW r \in Requests, NEW i \in Dispatchers, Hooks!Insert(r, i)
      PROVE  DeliveriesShaped' /\ AuditShaped'
  <2>1. \A u \in Url : configs[u] # "none" => configs'[u] # "none"
    BY <1>0, <1>3 DEF Registering, Hooks!Insert
  <2>2. UNCHANGED <<delivery, audit>>
    BY <1>3 DEF Hooks!Insert
  <2> QED
    BY <1>0, <2>1, <2>2, DeliveryParts DEF DeliveriesShaped, AuditShaped, Attached
<1>4. ASSUME NEW u \in Url, Hooks!DeleteConfig(u) PROVE DeliveriesShaped' /\ AuditShaped'
  <2>1. /\ configs' = [configs EXCEPT ![u] = "none"]
        /\ audit' = {r \in audit : Hooks!Config(r.of) # u}
        /\ delivery' = [d \in Hooks!Delivery |-> IF Hooks!Config(d) = u
                          THEN [delivery[d] EXCEPT !.orphan = TRUE] ELSE delivery[d]]
    BY <1>4 DEF Hooks!DeleteConfig
  <2>2. \A v \in Url : v # u => configs'[v] = configs[v]
    BY <1>0, <2>1 DEF Registering
  <2>3. ASSUME NEW d \in Hooks!Delivery PROVE InBudget(delivery'[d]) /\ Attached(d)'
    <3>1. /\ delivery[d] \in DeliveryRecords /\ InBudget(delivery[d]) /\ Attached(d)
          /\ d[3] \in Url /\ Hooks!Config(d) = d[3]
      BY <1>0, DeliveryParts DEF HooksTyped, DeliveriesShaped
    <3>2. CASE d[3] = u
      <4>1. delivery'[d] = [delivery[d] EXCEPT !.orphan = TRUE]
        BY <2>1, <3>1, <3>2
      <4>2. /\ delivery'[d].elapsed = delivery[d].elapsed /\ delivery'[d].tries = delivery[d].tries
            /\ delivery'[d].orphan
        BY <3>1, <4>1 DEF DeliveryRecords
      <4> QED
        BY <3>1, <4>2 DEF InBudget, Attached
    <3>3. CASE d[3] # u
      <4>1. delivery'[d] = delivery[d] /\ configs'[d[3]] = configs[d[3]]
        BY <2>1, <2>2, <3>1, <3>3
      <4> QED
        BY <3>1, <4>1 DEF InBudget, Attached
    <3> QED
      BY <3>2, <3>3
  <2>4. \A r \in audit' : configs'[r.of[3]] # "none"
    BY <1>0, <2>1, <2>2, DeliveryParts DEF AuditShaped
  <2> QED
    BY <2>3, <2>4 DEF DeliveriesShaped, AuditShaped
<1>5. ASSUME NEW d \in Hooks!Delivery, Hooks!Send(d) \/ Hooks!Wait(d) \/ Hooks!LogDelivery(d)
      PROVE  DeliveriesShaped' /\ AuditShaped'
  <2>1. DeliveriesShaped'
    BY <1>0, <1>5, DeliveryGoes
  <2>2. CASE UNCHANGED <<configs, audit>>
    BY <1>0, <2>1, <2>2 DEF AuditShaped
  <2>3. CASE ~UNCHANGED <<configs, audit>>
    <3>1. Hooks!LogDelivery(d)
      BY <1>5, <2>3 DEF Hooks!Send, Hooks!Wait
    <3>2. PICK r : /\ r = [of |-> d, tries |-> delivery[d].tries, status |-> delivery[d].status]
                   /\ audit' \subseteq audit \cup {r}
      BY <3>1 DEF Hooks!LogDelivery
    <3>3. UNCHANGED configs /\ ~delivery[d].orphan /\ delivery[d].pc = "log"
      BY <2>3, <3>1 DEF Hooks!LogDelivery, Hooks!Writable
    <3>4. configs[d[3]] # "none" /\ r.of = d
      BY <1>0, <3>2, <3>3 DEF DeliveriesShaped, Attached
    <3> QED
      BY <1>0, <2>1, <3>2, <3>3, <3>4 DEF AuditShaped
  <2> QED
    BY <2>1, <2>2, <2>3
<1>6. ASSUME NEW i \in Dispatchers, Hooks!Dispatch(i) \/ Hooks!Shutdown(i) \/ Hooks!Exit(i)
      PROVE  DeliveriesShaped' /\ AuditShaped'
  <2>1. UNCHANGED <<configs, audit>>
    BY <1>6 DEF Hooks!Dispatch, Hooks!Shutdown, Hooks!Exit
  <2> QED
    BY <1>0, <1>6, <2>1, DeliveriesOf DEF AuditShaped
<1>7. ASSUME NEW i \in Dispatchers, Hooks!LookupFails(i) \/ Hooks!Restart(i)
      PROVE  DeliveriesShaped' /\ AuditShaped'
  BY <1>2, <1>7 DEF Hooks!LookupFails, Hooks!Restart
<1>8. ASSUME NEW r \in Requests, NEW u \in Url, Hooks!Create(r, u) PROVE DeliveriesShaped' /\ AuditShaped'
  BY <1>2, <1>8 DEF Hooks!Create
<1>9. ASSUME NEW r \in Requests, Hooks!TakeSnapshot(r) PROVE DeliveriesShaped' /\ AuditShaped'
  BY <1>2, <1>9 DEF Hooks!TakeSnapshot
<1>10. ASSUME NEW e \in Event, Hooks!Publish(e) PROVE DeliveriesShaped' /\ AuditShaped'
  BY <1>2, <1>10 DEF Hooks!Publish
<1>11. ASSUME UNCHANGED hooks PROVE DeliveriesShaped' /\ AuditShaped'
  BY <1>2, <1>11 DEF hooks
<1>12. DeliveriesShaped' /\ AuditShaped'
  BY <1>3, <1>4, <1>5, <1>6, <1>7, <1>8, <1>9, <1>10, <1>11 DEF Hooks!Next
<1> QED
  BY <1>1, <1>12 DEF HooksShapes, DeliveriesShaped, AuditShaped

LEMMA HooksShape == HooksInv /\ HooksShapes => Hooks!TypeOK
<1> SUFFICES ASSUME HooksInv, HooksShapes PROVE Hooks!TypeOK
  OBVIOUS
<1>1. Hooks!Budget = 13 /\ Hooks!MaxAttempts = 3
  BY DEF Hooks!Budget, Hooks!MaxAttempts, Hooks!ClientTimeout, Hooks!Delays
<1>2. \A d \in Hooks!Delivery : delivery[d].tries <= Hooks!MaxAttempts /\ delivery[d].elapsed <= Hooks!Budget
  BY <1>1 DEF HooksShapes, InBudget
<1>3. \A r \in audit : r.of \in Hooks!Delivery /\ configs[Hooks!Config(r.of)] # "none"
  BY DEF HooksInv, AuditInv, HooksShapes, Hooks!Config
<1> QED
  BY <1>2, <1>3 DEF HooksInv, HooksTyped, HooksShapes, Registering, InboxesFit, Hooks!TypeOK

HIDE HooksAssumption

----------------------------------------------------------------------------
(* The admission of WebSockets                                             *)

Charged(a) == {c \in Clients : IP[c] = a /\ pc[c] # "out"}

SocketsInv ==
    /\ Sockets!TypeOK
    /\ ipCounters \in [{IP[c] : c \in Clients} -> Nat]
    /\ \A a \in {IP[c] : c \in Clients} :
          ipCounters[a] = Cardinality(Charged(a)) /\ ipCounters[a] <= PerIPLimit

LEMMA ChargedFinite ==
    \A a : IsFiniteSet(Charged(a)) /\ Cardinality(Charged(a)) \in Nat
<1> SUFFICES ASSUME NEW a
             PROVE  IsFiniteSet(Charged(a)) /\ Cardinality(Charged(a)) \in Nat
  OBVIOUS
<1>1. Charged(a) \subseteq Clients
  BY DEF Charged
<1> QED
  BY <1>1, SocketsAssumption, FS_Subset, FS_CardinalityType

LEMMA SocketsInit == Sockets!Init => SocketsInv
<1> SUFFICES ASSUME Sockets!Init PROVE SocketsInv
  OBVIOUS
<1>1. \A a : Charged(a) = {}
  BY DEF Sockets!Init, Charged
<1> QED
  BY <1>1, SocketsAssumption, FS_EmptySet DEF Sockets!Init, SocketsInv, Sockets!TypeOK

\* A handshake enters or leaves its address's count together with its charge.
LEMMA SocketCounts ==
    ASSUME SocketsInv, NEW c \in Clients, NEW from, NEW to, Sockets!Go(c, from, to),
           \/ from # "out" /\ to # "out" /\ UNCHANGED ipCounters
           \/ /\ from = "out" /\ to # "out"
              /\ ipCounters[IP[c]] < PerIPLimit /\ ipCounters' = Sockets!Counted(c, 1)
           \/ from # "out" /\ to = "out" /\ ipCounters' = Sockets!Counted(c, -1)
    PROVE  /\ ipCounters' \in [{IP[d] : d \in Clients} -> Nat]
           /\ \A a \in {IP[d] : d \in Clients} :
                 ipCounters'[a] = Cardinality(Charged(a))' /\ ipCounters'[a] <= PerIPLimit
<1> DEFINE Addresses == {IP[d] : d \in Clients}
<1>0. /\ pc[c] = from /\ pc' = [pc EXCEPT ![c] = to] /\ DOMAIN pc = Clients
      /\ ipCounters \in [Addresses -> Nat] /\ IP[c] \in Addresses
      /\ \A a \in Addresses : ipCounters[a] = Cardinality(Charged(a)) /\ ipCounters[a] <= PerIPLimit
  BY DEF SocketsInv, Sockets!TypeOK, Sockets!Go
<1>1. \A a : a # IP[c] => Charged(a)' = Charged(a)
  BY <1>0 DEF Charged
<1>2. CASE from # "out" /\ to # "out" /\ UNCHANGED ipCounters
  <2>1. Charged(IP[c])' = Charged(IP[c])
    BY <1>0, <1>2 DEF Charged
  <2> QED
    BY <1>0, <1>1, <1>2, <2>1
<1>3. CASE /\ from = "out" /\ to # "out"
           /\ ipCounters[IP[c]] < PerIPLimit /\ ipCounters' = Sockets!Counted(c, 1)
  <2>1. Charged(IP[c])' = Charged(IP[c]) \cup {c} /\ c \notin Charged(IP[c])
    BY <1>0, <1>3 DEF Charged
  <2>2. Cardinality(Charged(IP[c]) \cup {c}) = Cardinality(Charged(IP[c])) + 1
    BY <2>1, ChargedFinite, FS_AddElement
  <2>3. ipCounters' = [ipCounters EXCEPT ![IP[c]] = @ + 1]
    BY <1>3 DEF Sockets!Counted
  <2>4. PICK n \in Nat : n = ipCounters[IP[c]] + 1
    BY <1>0
  <2>5. ipCounters' = [ipCounters EXCEPT ![IP[c]] = n]
    BY <2>3, <2>4
  <2>6. n = Cardinality(Charged(IP[c]) \cup {c}) /\ n <= PerIPLimit
    BY <1>0, <1>3, <2>2, <2>4, SocketsAssumption
  <2>7. ipCounters' \in [Addresses -> Nat]
    BY <1>0, <2>5
  <2>8. ASSUME NEW a \in Addresses
        PROVE  ipCounters'[a] = Cardinality(Charged(a))' /\ ipCounters'[a] <= PerIPLimit
    BY <1>0, <1>1, <2>1, <2>5, <2>6
  <2> QED
    BY <2>7, <2>8
<1>4. CASE from # "out" /\ to = "out" /\ ipCounters' = Sockets!Counted(c, -1)
  <2>1. Charged(IP[c])' = Charged(IP[c]) \ {c} /\ c \in Charged(IP[c])
    BY <1>0, <1>4 DEF Charged
  <2>2. /\ Cardinality(Charged(IP[c]) \ {c}) = Cardinality(Charged(IP[c])) - 1
        /\ Cardinality(Charged(IP[c]) \ {c}) \in Nat
    BY <2>1, ChargedFinite, FS_RemoveElement, FS_CardinalityType
  <2>3. ipCounters' = [ipCounters EXCEPT ![IP[c]] = @ + -1]
    BY <1>4 DEF Sockets!Counted
  <2>4. PICK n \in Nat : n = ipCounters[IP[c]] + -1
    BY <1>0, <2>2
  <2>5. ipCounters' = [ipCounters EXCEPT ![IP[c]] = n]
    BY <2>3, <2>4
  <2>6. n = Cardinality(Charged(IP[c]) \ {c}) /\ n <= PerIPLimit
    BY <1>0, <2>2, <2>4, SocketsAssumption
  <2>7. ipCounters' \in [Addresses -> Nat]
    BY <1>0, <2>5
  <2>8. ASSUME NEW a \in Addresses
        PROVE  ipCounters'[a] = Cardinality(Charged(a))' /\ ipCounters'[a] <= PerIPLimit
    BY <1>0, <1>1, <2>1, <2>5, <2>6
  <2> QED
    BY <2>7, <2>8
<1> QED
  BY <1>2, <1>3, <1>4

LEMMA SocketsStep ==
    ASSUME SocketsInv, Sockets!Next \/ UNCHANGED sockets
    PROVE  SocketsInv'
<1>0. /\ pc \in [Clients -> {"out", "counted", "upgrading", "open", "closing"}]
      /\ conns = {c \in Clients : pc[c] = "open"}
  BY DEF SocketsInv, Sockets!TypeOK
<1>1. CASE UNCHANGED sockets
  BY <1>1 DEF sockets, SocketsInv, Sockets!TypeOK, Charged
<1>2. ASSUME NEW c \in Clients, NEW from, NEW to \in {"out", "counted", "upgrading", "open", "closing"},
             Sockets!Go(c, from, to), conns' = {d \in Clients : pc'[d] = "open"},
             \/ from # "out" /\ to # "out" /\ UNCHANGED ipCounters
             \/ /\ from = "out" /\ to # "out"
                /\ ipCounters[IP[c]] < PerIPLimit /\ ipCounters' = Sockets!Counted(c, 1)
             \/ from # "out" /\ to = "out" /\ ipCounters' = Sockets!Counted(c, -1)
      PROVE  SocketsInv'
  <2>1. Sockets!TypeOK'
    BY <1>0, <1>2 DEF Sockets!TypeOK, Sockets!Go
  <2>2. /\ ipCounters' \in [{IP[d] : d \in Clients} -> Nat]
        /\ \A a \in {IP[d] : d \in Clients} :
              ipCounters'[a] = Cardinality(Charged(a))' /\ ipCounters'[a] <= PerIPLimit
    BY <1>2, SocketCounts
  <2> QED
    BY <2>1, <2>2 DEF SocketsInv
<1>3. ASSUME NEW c \in Clients, Sockets!Acquire(c) PROVE SocketsInv'
  <2>1. Sockets!Go(c, "out", "counted") /\ conns' = {d \in Clients : pc'[d] = "open"}
    BY <1>0, <1>3 DEF Sockets!Acquire, Sockets!Go
  <2> QED
    BY <1>2, <1>3, <2>1 DEF Sockets!Acquire
<1>4. ASSUME NEW c \in Clients, Sockets!CheckGlobal(c) PROVE SocketsInv'
  <2>1. \/ Sockets!Go(c, "counted", "upgrading") /\ UNCHANGED ipCounters
        \/ Sockets!Go(c, "counted", "out") /\ ipCounters' = Sockets!Counted(c, -1)
    BY <1>4 DEF Sockets!CheckGlobal, Sockets!ReleasedCount
  <2>2. conns' = {d \in Clients : pc'[d] = "open"}
    BY <1>0, <1>4, <2>1 DEF Sockets!CheckGlobal, Sockets!Go
  <2> QED
    BY <1>2, <2>1, <2>2
<1>5. ASSUME NEW c \in Clients, Sockets!UpgradeFails(c) PROVE SocketsInv'
  <2>1. Sockets!Go(c, "upgrading", "out") /\ conns' = {d \in Clients : pc'[d] = "open"}
    BY <1>0, <1>5 DEF Sockets!UpgradeFails, Sockets!Go
  <2> QED
    BY <1>2, <1>5, <2>1 DEF Sockets!UpgradeFails
<1>6. ASSUME NEW c \in Clients, Sockets!Register(c) PROVE SocketsInv'
  <2>1. Sockets!Go(c, "upgrading", "open") /\ conns' = {d \in Clients : pc'[d] = "open"}
    BY <1>0, <1>6 DEF Sockets!Register, Sockets!Go
  <2> QED
    BY <1>2, <1>6, <2>1 DEF Sockets!Register
<1>7. ASSUME NEW c \in Clients, Sockets!Unregister(c) PROVE SocketsInv'
  <2>1. Sockets!Go(c, "open", "closing") /\ conns' = {d \in Clients : pc'[d] = "open"}
    BY <1>0, <1>7 DEF Sockets!Unregister, Sockets!Go
  <2> QED
    BY <1>2, <1>7, <2>1 DEF Sockets!Unregister
<1>8. ASSUME NEW c \in Clients, Sockets!Release(c) PROVE SocketsInv'
  <2>1. Sockets!Go(c, "closing", "out") /\ conns' = {d \in Clients : pc'[d] = "open"}
    BY <1>0, <1>8 DEF Sockets!Release, Sockets!Go
  <2> QED
    BY <1>2, <1>8, <2>1 DEF Sockets!Release
<1> QED
  BY <1>1, <1>3, <1>4, <1>5, <1>6, <1>7, <1>8 DEF Sockets!Next

\* An address is charged for exactly the handshakes admitted from it and not yet gone, and
\* never past its limit, whichever rejection, failed upgrade or close ends them.
THEOREM AddressesCharged == ServicesSpec => []Sockets!IPCountExact
<1>1. ServicesInit => SocketsInv
  BY SocketsInit DEF ServicesInit
<1>2. SocketsInv /\ [ServicesNext]_services => SocketsInv'
  <2>1. [ServicesNext]_services => Sockets!Next \/ UNCHANGED sockets
    BY DEF ServicesNext, services
  <2> QED
    BY <2>1, SocketsStep
<1>3. SocketsInv => Sockets!IPCountExact
  <2>1. \A a : Sockets!Cardinality(Charged(a)) = Cardinality(Charged(a))
    BY Zenon DEF Sockets!Cardinality, Cardinality
  <2> QED
    BY <2>1 DEF SocketsInv, Charged, Sockets!IPCountExact
<1> QED
  BY <1>1, <1>2, <1>3, PTL DEF ServicesSpec

----------------------------------------------------------------------------
(* Metadata rows                                                           *)

\* Every token has a record of some kind.
MediaInv ==
    /\ row = [t \in Token |-> row[t]]
    /\ \A t \in Token : "kind" \in DOMAIN row[t]

\* What a step may do to them.
MediaKeeps == MediaInv' /\ \A t \in Token : Media!IsReal(row[t]) => Media!IsReal(row'[t])

LEMMA RowKinds ==
    ASSUME NEW r, "kind" \in DOMAIN r
    PROVE  /\ \A n, d : /\ [r EXCEPT !.retries = n, !.due = d].kind = r.kind
                        /\ "kind" \in DOMAIN [r EXCEPT !.retries = n, !.due = d]
           /\ \A m, n, d : /\ [r EXCEPT !.image = m, !.retries = n, !.due = d].kind = r.kind
                           /\ "kind" \in DOMAIN [r EXCEPT !.image = m, !.retries = n, !.due = d]
           /\ \A d : [r EXCEPT !.due = d].kind = r.kind /\ "kind" \in DOMAIN [r EXCEPT !.due = d]
OBVIOUS

\* One row gets a record that is real where it was.
LEMMA OneRow ==
    ASSUME MediaInv, NEW u, NEW r, row' = [row EXCEPT ![u] = r],
           u \in Token => "kind" \in DOMAIN r /\ (Media!IsReal(row[u]) => Media!IsReal(r))
    PROVE  MediaKeeps
<1>1. \A t \in Token : row'[t] = IF t = u THEN r ELSE row[t]
  BY DEF MediaInv, MediaKeeps
<1>2. row' = [t \in Token |-> row'[t]]
  BY DEF MediaInv, MediaKeeps
<1> QED
  BY <1>1, <1>2 DEF MediaInv, MediaKeeps

LEMMA BumpKeeps ==
    ASSUME MediaInv, NEW w, Media!Bump(w)
    PROVE  MediaKeeps
<1>1. CASE UNCHANGED row
  BY <1>1 DEF MediaInv, MediaKeeps
<1>2. CASE ~UNCHANGED row
  <2>1. PICK t, n, d : row' = [row EXCEPT ![t].retries = n, ![t].due = d]
    BY <1>2 DEF Media!Bump
  <2>2. row' = [row EXCEPT ![t] = [row[t] EXCEPT !.retries = n, !.due = d]]
    BY <2>1
  <2>3. PICK r : r = [row[t] EXCEPT !.retries = n, !.due = d]
    OBVIOUS
  <2>4. t \in Token => "kind" \in DOMAIN r /\ (Media!IsReal(row[t]) => Media!IsReal(r))
    BY <2>3, RowKinds DEF MediaInv, Media!IsReal
  <2> QED
    BY <2>2, <2>3, <2>4, OneRow
<1> QED
  BY <1>1, <1>2

\* Of the steps of fetchOne only two write a row: the sentinel, which leaves a row that
\* exists, and the upsert, which makes it real.
LEMMA FetchKeeps ==
    ASSUME MediaInv, NEW i \in Workers, NEW t \in Token, Media!FetchOne(i, t)
    PROVE  MediaKeeps
<1>1. CASE UNCHANGED row
  BY <1>1 DEF MediaInv, MediaKeeps
<1>2. CASE row' = [row EXCEPT ![t] = Media!Marked(t)]
  <2>1. PICK r : r = Media!Marked(t)
    OBVIOUS
  <2>2. "kind" \in DOMAIN r /\ (Media!IsReal(row[t]) => Media!IsReal(r))
    BY <2>1 DEF MediaInv, Media!Marked, Media!HasRow, Media!IsReal, Media!Sentinel
  <2> QED
    BY <1>2, <2>1, <2>2, OneRow DEF MediaKeeps
<1>3. CASE row' = [row EXCEPT ![t] = Media!Upserted(i, t)]
  <2>1. PICK r : r = Media!Upserted(i, t)
    OBVIOUS
  <2>2. "kind" \in DOMAIN r /\ Media!IsReal(r)
    BY <2>1 DEF Media!Upserted, Media!IsReal
  <2> QED
    BY <1>3, <2>1, <2>2, OneRow DEF MediaKeeps
<1>4. UNCHANGED row \/ row' = [row EXCEPT ![t] = Media!Marked(t)]
        \/ row' = [row EXCEPT ![t] = Media!Upserted(i, t)]
  BY DEF Media!FetchOne, Media!Ask, Media!MarkMissing, Media!SelfHostJson, Media!PutJson,
         Media!FetchImage, Media!PutImageOf, Media!StoreThumbnails, Media!UpsertMetadata
<1> QED
  BY <1>1, <1>2, <1>3, <1>4

\* A try, won or lost, changes the columns of an image in a real row.
LEMMA RetryKeeps ==
    ASSUME MediaInv, NEW w \in Retriers, Media!Retry(w)
    PROVE  MediaKeeps
<1>1. CASE UNCHANGED row
  BY <1>1 DEF MediaInv, MediaKeeps
<1>2. CASE Media!Bump(w)
  BY <1>2, BumpKeeps DEF MediaKeeps
<1>3. ASSUME NEW t, NEW m, NEW n, NEW d,
             row' = [row EXCEPT ![t].image = m, ![t].retries = n, ![t].due = d]
      PROVE  MediaKeeps
  <2>1. row' = [row EXCEPT ![t] = [row[t] EXCEPT !.image = m, !.retries = n, !.due = d]]
    BY <1>3
  <2>2. PICK r : r = [row[t] EXCEPT !.image = m, !.retries = n, !.due = d]
    OBVIOUS
  <2>3. t \in Token => "kind" \in DOMAIN r /\ (Media!IsReal(row[t]) => Media!IsReal(r))
    BY <2>2, RowKinds DEF MediaInv, Media!IsReal
  <2> QED
    BY <2>1, <2>2, <2>3, OneRow
<1>4. \/ UNCHANGED row \/ Media!Bump(w)
      \/ \E t, m, n, d : row' = [row EXCEPT ![t].image = m, ![t].retries = n, ![t].due = d]
  <2>1. CASE Media!UpdateImageURI(w)
    <3>1. PICK t : t = Media!Trying(w).token
      OBVIOUS
    <3> QED
      BY <2>1, <3>1 DEF Media!UpdateImageURI
  <2>2. CASE ~Media!UpdateImageURI(w)
    BY <2>2 DEF Media!Retry, Media!ListUpstream, Media!TryFails, Media!TryFetches, Media!TryPut
  <2> QED
    BY <2>1, <2>2
<1> QED
  BY <1>1, <1>2, <1>3, <1>4

LEMMA MediaStep ==
    ASSUME MediaInv, Media!Next \/ UNCHANGED media
    PROVE  MediaKeeps
<1>1. CASE UNCHANGED row
  BY <1>1 DEF MediaInv, MediaKeeps
<1>2. CASE Media!Tick
  <2>1. row' = [t \in Token |-> IF Media!IsReal(row[t]) /\ row[t].due > 0
                                THEN [row[t] EXCEPT !.due = row[t].due - 1] ELSE row[t]]
    BY <1>2 DEF Media!Tick
  <2>2. ASSUME NEW t \in Token
        PROVE  "kind" \in DOMAIN row'[t] /\ (Media!IsReal(row[t]) => Media!IsReal(row'[t]))
    BY <2>1, RowKinds DEF MediaInv, Media!IsReal
  <2> QED
    BY <2>1, <2>2 DEF MediaInv, MediaKeeps
<1>3. ASSUME NEW i \in Workers, NEW t \in Token, Media!FetchOne(i, t) PROVE MediaKeeps
  BY <1>3, FetchKeeps
<1>4. ASSUME NEW w \in Retriers, Media!Retry(w) PROVE MediaKeeps
  BY <1>4, RetryKeeps
<1>5. ASSUME NEW i \in Workers, Media!MetadataWorker(i) \/ Media!Restart(i) PROVE MediaKeeps
  BY <1>1, <1>5 DEF Media!MetadataWorker, Media!ListMissing, Media!Launch, Media!Drain,
                    Media!Refill, Media!Restart
<1>6. ASSUME NEW i \in Evictors, Media!ImageStoreWorker(i) PROVE MediaKeeps
  BY <1>1, <1>6 DEF Media!ImageStoreWorker, Media!SampleImageStore, Media!EvictUnreferenced,
                    Media!DeleteBlob
<1>7. CASE UNCHANGED media
  BY <1>1, <1>7 DEF media
<1> QED
  BY <1>2, <1>3, <1>4, <1>5, <1>6, <1>7 DEF Media!Next

\* No step of any instance takes a real metadata row away, the sentinel of a fetch that
\* began before it was written included.
THEOREM RealRows == ServicesSpec => Media!RealRowsStay
<1>1. ServicesInit => MediaInv
  BY DEF ServicesInit, Media!Init, MediaInv, Media!NoRow
<1>2. [ServicesNext]_services => Media!Next \/ UNCHANGED media
  BY DEF ServicesNext, services
<1>3. MediaInv /\ [ServicesNext]_services => MediaInv'
  BY <1>2, MediaStep DEF MediaKeeps
<1>4. MediaInv /\ [ServicesNext]_services
        => [\A t \in Token : Media!IsReal(row[t]) => Media!IsReal(row'[t])]_Media!vars
  BY <1>2, MediaStep DEF MediaKeeps
<1> QED
  BY <1>1, <1>3, <1>4, PTL DEF ServicesSpec, Media!RealRowsStay

----------------------------------------------------------------------------
(* Sequences that lose an element                                         *)

\* A sequence without its i-th element.
Without(s, i) == SubSeq(s, 1, i - 1) \o SubSeq(s, i + 1, Len(s))

Injective(s) == \A i, j \in 1 .. Len(s) : s[i] = s[j] => i = j
Elements(s) == {s[i] : i \in 1 .. Len(s)}

LEMMA WithoutShape ==
    ASSUME NEW S, NEW s \in Seq(S), NEW i \in 1 .. Len(s)
    PROVE  /\ Without(s, i) \in Seq(S) /\ Len(Without(s, i)) = Len(s) - 1 /\ Len(s) \in Nat
           /\ \A j \in 1 .. i - 1 : Without(s, i)[j] = s[j]
           /\ \A j \in i .. Len(s) - 1 : Without(s, i)[j] = s[j + 1]
<1> DEFINE a == SubSeq(s, 1, i - 1)
           b == SubSeq(s, i + 1, Len(s))
<1>1. a \in Seq(S) /\ Len(a) = i - 1 /\ \A j \in 1 .. i - 1 : a[j] = s[j]
  BY SubSeqProperties
<1>2. /\ b \in Seq(S) /\ Len(b) = Len(s) - i
      /\ \A j \in 1 .. Len(s) - i : b[j] = s[j + i]
  BY SubSeqProperties
<1> HIDE DEF a, b
<1>3. PICK w : w = a \o b
  OBVIOUS
<1>4. w \in Seq(S) /\ Len(w) = Len(a) + Len(b)
  BY <1>1, <1>2, <1>3, ConcatProperties
<1>5. Len(s) \in Nat /\ Len(w) = Len(s) - 1
  BY <1>1, <1>2, <1>4
<1>6. \A j \in 1 .. Len(a) + Len(b) : w[j] = IF j <= Len(a) THEN a[j] ELSE b[j - Len(a)]
  BY <1>1, <1>2, <1>3, ConcatProperties
<1>7. ASSUME NEW j \in 1 .. i - 1 PROVE w[j] = s[j]
  <2>1. j \in 1 .. Len(a) + Len(b) /\ j <= Len(a)
    BY <1>1, <1>2, <1>5
  <2> QED
    BY <1>1, <1>6, <2>1
<1>8. ASSUME NEW j \in i .. Len(s) - 1 PROVE w[j] = s[j + 1]
  <2>1. PICK k \in 1 .. Len(s) - i : k = j - (i - 1)
    BY <1>5
  <2>2. j \in 1 .. Len(a) + Len(b) /\ ~(j <= Len(a)) /\ j - Len(a) = k
    BY <1>1, <1>2, <1>5, <2>1
  <2>3. w[j] = b[k]
    BY <1>6, <2>2
  <2>4. b[k] = s[k + i] /\ k + i = j + 1
    BY <1>2, <2>1
  <2> QED
    BY <2>3, <2>4
<1>9. Without(s, i) = w
  BY <1>3 DEF Without, a, b
<1> QED
  BY <1>4, <1>5, <1>7, <1>8, <1>9

\* Each element but one stays, and none is there twice.
LEMMA WithoutKeeps ==
    ASSUME NEW S, NEW s \in Seq(S), Injective(s), NEW i \in 1 .. Len(s)
    PROVE  /\ Injective(Without(s, i))
           /\ Elements(Without(s, i)) = Elements(s) \ {s[i]}
<1> DEFINE w == Without(s, i)
<1>1. /\ Len(w) = Len(s) - 1 /\ Len(s) \in Nat
      /\ \A j \in 1 .. i - 1 : w[j] = s[j]
      /\ \A j \in i .. Len(s) - 1 : w[j] = s[j + 1]
  BY WithoutShape
<1> HIDE DEF w
<1>2. \A j \in 1 .. Len(w) : \E k \in 1 .. Len(s) :
         w[j] = s[k] /\ k # i /\ (k < i => k = j) /\ (k > i => k = j + 1)
  <2> SUFFICES ASSUME NEW j \in 1 .. Len(w)
               PROVE  \E k \in 1 .. Len(s) :
                        w[j] = s[k] /\ k # i /\ (k < i => k = j) /\ (k > i => k = j + 1)
    OBVIOUS
  <2>1. CASE j < i
    <3>1. j \in 1 .. Len(s) /\ j \in 1 .. i - 1
      BY <1>1, <2>1
    <3> QED
      BY <1>1, <2>1, <3>1
  <2>2. CASE j >= i
    <3>1. PICK k \in 1 .. Len(s) : k = j + 1
      BY <1>1
    <3> QED
      BY <1>1, <2>2, <3>1
  <2> QED
    BY <1>1, <2>1, <2>2
<1>3. Injective(w)
  <2> SUFFICES ASSUME NEW j \in 1 .. Len(w), NEW k \in 1 .. Len(w), w[j] = w[k]
               PROVE  j = k
    BY DEF Injective
  <2>1. PICK m \in 1 .. Len(s) :
           w[j] = s[m] /\ m # i /\ (m < i => m = j) /\ (m > i => m = j + 1)
    BY <1>2
  <2>2. PICK n \in 1 .. Len(s) :
           w[k] = s[n] /\ n # i /\ (n < i => n = k) /\ (n > i => n = k + 1)
    BY <1>2
  <2>3. m = n
    BY <2>1, <2>2 DEF Injective
  <2> QED
    BY <1>1, <2>1, <2>2, <2>3
<1>4. ASSUME NEW x \in Elements(w) PROVE x \in Elements(s) \ {s[i]}
  BY <1>2 DEF Elements, Injective
<1>5. ASSUME NEW x \in Elements(s) \ {s[i]} PROVE x \in Elements(w)
  <2>1. PICK k \in 1 .. Len(s) : x = s[k] /\ k # i
    BY DEF Elements
  <2>2. CASE k < i
    <3>1. k \in 1 .. Len(w) /\ w[k] = x
      BY <1>1, <2>1, <2>2
    <3> QED
      BY <3>1 DEF Elements
  <2>3. CASE k > i
    <3>1. PICK j \in i .. Len(s) - 1 : k = j + 1
      BY <1>1, <2>3
    <3>2. j \in 1 .. Len(w) /\ w[j] = x
      BY <1>1, <2>1, <3>1
    <3> QED
      BY <3>2 DEF Elements
  <2> QED
    BY <1>1, <2>1, <2>2, <2>3
<1> QED
  BY <1>3, <1>4, <1>5 DEF w

\* What RemoveFirst returns.
Removed(s, e, r) ==
    \/ r = s /\ e \notin Elements(s)
    \/ \E i \in 1 .. Len(s) : e = s[i] /\ r = Without(s, i)

LEMMA LeastOfOne == \A i \in Nat : (CHOOSE x \in {i} : \A y \in {i} : x <= y) = i
OBVIOUS

LEMMA PayoutsRemove ==
    ASSUME NEW S, NEW s \in Seq(S), Injective(s), NEW e
    PROVE  Removed(s, e, Payouts!RemoveFirst(s, e))
<1>1. CASE ~\E i \in 1 .. Len(s) : s[i] = e
  <2>1. Payouts!RemoveFirst(s, e) = s
    BY <1>1, Zenon DEF Payouts!RemoveFirst
  <2> QED
    BY <1>1, <2>1 DEF Removed, Elements
<1>2. ASSUME NEW i \in 1 .. Len(s), s[i] = e
      PROVE  Removed(s, e, Payouts!RemoveFirst(s, e))
  <2>1. Payouts!RemoveFirst(s, e)
          = Payouts!RemoveAt(s, Payouts!Min({j \in 1 .. Len(s) : s[j] = e}))
    BY <1>2, Zenon DEF Payouts!RemoveFirst, Payouts!SelectInSeq
  <2>2. {j \in 1 .. Len(s) : s[j] = e} = {i}
    BY <1>2 DEF Injective
  <2>3. Payouts!Min({i}) = i
    <3>1. Payouts!Min({i}) = CHOOSE x \in {i} : \A y \in {i} : x <= y
      BY Zenon DEF Payouts!Min
    <3> QED
      BY <3>1, LeastOfOne
  <2>4. Payouts!RemoveAt(s, i) = Without(s, i)
    BY Zenon DEF Payouts!RemoveAt, Without
  <2> QED
    BY <1>2, <2>1, <2>2, <2>3, <2>4 DEF Removed
<1> QED
  BY <1>1, <1>2

LEMMA MediaRemove ==
    ASSUME NEW S, NEW s \in Seq(S), Injective(s), NEW e
    PROVE  Removed(s, e, Media!RemoveFirst(s, e))
<1>1. CASE ~\E i \in 1 .. Len(s) : s[i] = e
  <2>1. Media!RemoveFirst(s, e) = s
    BY <1>1, Zenon DEF Media!RemoveFirst
  <2> QED
    BY <1>1, <2>1 DEF Removed, Elements
<1>2. ASSUME NEW i \in 1 .. Len(s), s[i] = e
      PROVE  Removed(s, e, Media!RemoveFirst(s, e))
  <2>1. Media!RemoveFirst(s, e)
          = Media!RemoveAt(s, Media!Min({j \in 1 .. Len(s) : s[j] = e}))
    BY <1>2, Zenon DEF Media!RemoveFirst, Media!SelectInSeq
  <2>2. {j \in 1 .. Len(s) : s[j] = e} = {i}
    BY <1>2 DEF Injective
  <2>3. Media!Min({i}) = i
    <3>1. Media!Min({i}) = CHOOSE x \in {i} : \A y \in {i} : x <= y
      BY Zenon DEF Media!Min
    <3> QED
      BY <3>1, LeastOfOne
  <2>4. Media!RemoveAt(s, i) = Without(s, i)
    BY Zenon DEF Media!RemoveAt, Without
  <2> QED
    BY <1>2, <2>1, <2>2, <2>3, <2>4 DEF Removed
<1> QED
  BY <1>1, <1>2

\* Removing an element and appending it again moves it to the end.
LEMMA RemovedShape ==
    ASSUME NEW S, NEW s \in Seq(S), Injective(s), NEW e, NEW r, Removed(s, e, r)
    PROVE  /\ r \in Seq(S) /\ Injective(r) /\ Elements(r) = Elements(s) \ {e}
           /\ e \in S => /\ Append(r, e) \in Seq(S) /\ Injective(Append(r, e))
                         /\ Elements(Append(r, e)) = Elements(s) \cup {e}
<1>1. r \in Seq(S) /\ Injective(r) /\ Elements(r) = Elements(s) \ {e}
  <2>1. CASE r = s /\ e \notin Elements(s)
    BY <2>1
  <2>2. ASSUME NEW i \in 1 .. Len(s), e = s[i], r = Without(s, i)
        PROVE  r \in Seq(S) /\ Injective(r) /\ Elements(r) = Elements(s) \ {e}
    BY <2>2, WithoutShape, WithoutKeeps
  <2> QED
    BY <2>1, <2>2 DEF Removed
<1>2. ASSUME e \in S
      PROVE  /\ Append(r, e) \in Seq(S) /\ Injective(Append(r, e))
             /\ Elements(Append(r, e)) = Elements(s) \cup {e}
  <2>1. /\ Append(r, e) \in Seq(S) /\ Len(Append(r, e)) = Len(r) + 1 /\ Len(r) \in Nat
        /\ Append(r, e)[Len(r) + 1] = e
        /\ \A i \in 1 .. Len(r) : Append(r, e)[i] = r[i]
    BY <1>1, <1>2
  <2>2. \A i \in 1 .. Len(r) : r[i] # e
    BY <1>1 DEF Elements
  <2>3. Injective(Append(r, e))
    BY <1>1, <2>1, <2>2 DEF Injective
  <2>4. Elements(Append(r, e)) = Elements(r) \cup {e}
    <3>1. \A i \in 1 .. Len(r) + 1 : i \in 1 .. Len(r) \/ i = Len(r) + 1
      BY <2>1
    <3>2. Len(r) + 1 \in 1 .. Len(r) + 1 /\ \A i \in 1 .. Len(r) : i \in 1 .. Len(r) + 1
      BY <2>1
    <3> QED
      BY <2>1, <3>1, <3>2 DEF Elements
  <2>5. Elements(r) \cup {e} = Elements(s) \cup {e}
    BY <1>1
  <2> QED
    BY <2>1, <2>3, <2>4, <2>5
<1> QED
  BY <1>1, <1>2

----------------------------------------------------------------------------
(* The withdrawal sweepers                                                 *)

USE PayoutsAssumption

SweepRecords == [pc : {"idle", "call", "write"}, left : Seq(Address), owed : Nat]
PayoutRows == [verified : BOOLEAN, amount : Nat]

PayoutsTyped ==
    /\ credits \in 0 .. MaxCredits /\ owed \in [Address -> 0 .. credits]
    /\ events \in Seq(Address)
    /\ order \in Seq(Address) /\ Injective(order)
    /\ seeded \in [Address -> PayoutRows]
    /\ sweep \in [Sweepers -> SweepRecords]

\* Only an address on the list has an amount, and a pass that runs has one to ask about.
PayoutsInv ==
    /\ PayoutsTyped
    /\ \A a \in Address \ Elements(order) : seeded[a] = Payouts!Candidate
    /\ \A i \in Sweepers : sweep[i].pc # "idle" => sweep[i].left # <<>>

LEMMA PayoutFacts ==
    /\ Payouts!Candidate \in PayoutRows
    /\ Payouts!Resting \in SweepRecords /\ Payouts!Resting.pc = "idle"
    /\ \A s \in SweepRecords :
          s.left # <<>> => /\ Head(s.left) \in Address
                           /\ Payouts!Skipped(s) \in SweepRecords
                           /\ Payouts!Skipped(s).pc # "idle" => Payouts!Skipped(s).left # <<>>
<1>1. Payouts!Candidate \in PayoutRows
  BY DEF Payouts!Candidate, PayoutRows
<1>2. Payouts!Resting \in SweepRecords /\ Payouts!Resting.pc = "idle"
  BY DEF Payouts!Resting, SweepRecords
<1>3. ASSUME NEW s \in SweepRecords, s.left # <<>>
      PROVE  /\ Head(s.left) \in Address
             /\ Payouts!Skipped(s) \in SweepRecords
             /\ Payouts!Skipped(s).pc # "idle" => Payouts!Skipped(s).left # <<>>
  <2>1. s.left \in Seq(Address)
    BY DEF SweepRecords
  <2>2. /\ Head(s.left) \in Address /\ Tail(s.left) \in Seq(Address)
        /\ Len(s.left) > 1 => Tail(s.left) # <<>>
    <3>1. PICK l \in Seq(Address) : l = s.left /\ l # <<>>
      BY <1>3, <2>1
    <3>2. Head(l) \in Address /\ Tail(l) \in Seq(Address) /\ Len(Tail(l)) = Len(l) - 1
      BY <3>1, HeadTailProperties
    <3>3. Len(l) > 1 => Tail(l) # <<>>
      BY <3>1, <3>2
    <3> QED
      BY <3>1, <3>2, <3>3
  <2>3. CASE Len(s.left) > 1
    <3>1. Payouts!Skipped(s) = [pc |-> "call", left |-> Tail(s.left), owed |-> 0]
      BY <2>3 DEF Payouts!Skipped
    <3> QED
      BY <2>2, <2>3, <3>1 DEF SweepRecords
  <2>4. CASE ~(Len(s.left) > 1)
    BY <1>2, <2>2, <2>4 DEF Payouts!Skipped
  <2> QED
    BY <2>3, <2>4
<1> QED
  BY <1>1, <1>2, <1>3

LEMMA PayoutsInit == Payouts!Init => PayoutsInv
<1> SUFFICES ASSUME Payouts!Init PROVE PayoutsInv
  OBVIOUS
<1>1. PICK r, s : /\ r = Payouts!Candidate /\ s = Payouts!Resting
                  /\ r \in PayoutRows /\ s \in SweepRecords /\ s.pc = "idle"
  BY PayoutFacts
<1>2. /\ seeded = [a \in Address |-> r] /\ sweep = [i \in Sweepers |-> s]
      /\ owed = [a \in Address |-> 0] /\ events = <<>> /\ order = <<>> /\ credits = 0
  BY <1>1 DEF Payouts!Init
<1>3. <<>> \in Seq(Address) /\ Len(<<>>) = 0
  OBVIOUS
<1> QED
  BY <1>1, <1>2, <1>3 DEF PayoutsInv, PayoutsTyped, Injective

\* One sweeper gets a new record; the list and the rows stay.
LEMMA OneSweep ==
    ASSUME PayoutsInv, NEW i \in Sweepers, NEW s \in SweepRecords, Payouts!Set(i, s),
           s.pc # "idle" => s.left # <<>>
    PROVE  /\ sweep' \in [Sweepers -> SweepRecords]
           /\ \A j \in Sweepers : sweep'[j].pc # "idle" => sweep'[j].left # <<>>
  BY DEF PayoutsInv, PayoutsTyped, Payouts!Set

\* The contract, and the indexer's seed.
LEMMA PayoutsSeed ==
    ASSUME PayoutsInv,
           \/ \E a \in Address : \/ Payouts!RefundLoser(a) \/ Payouts!SettlePushFails(a)
                                 \/ Payouts!WithdrawRefund(a)
           \/ Payouts!SeedPendingWithdrawal \/ UNCHANGED withdrawals
    PROVE  PayoutsInv'
<1>0. /\ credits \in 0 .. MaxCredits /\ owed \in [Address -> 0 .. credits]
      /\ events \in Seq(Address) /\ order \in Seq(Address) /\ Injective(order)
      /\ seeded \in [Address -> PayoutRows] /\ sweep \in [Sweepers -> SweepRecords]
  BY DEF PayoutsInv, PayoutsTyped
<1>1. ASSUME NEW a \in Address, NEW n \in {0, 1}, credits < MaxCredits, credits' = credits + 1,
             owed' = [owed EXCEPT ![a] = @ + n], events' \in Seq(Address),
             UNCHANGED <<order, seeded, sweep>>
      PROVE  PayoutsInv'
  <2>1. credits' \in 0 .. MaxCredits
    BY <1>0, <1>1
  <2>2. owed' \in [Address -> 0 .. credits']
    BY <1>0, <1>1
  <2> QED
    BY <1>0, <1>1, <2>1, <2>2 DEF PayoutsInv, PayoutsTyped
<1>2. ASSUME NEW a \in Address, Payouts!RefundLoser(a) PROVE PayoutsInv'
  <2>1. PICK failed \in {0, 1} : owed' = [owed EXCEPT ![a] = @ + failed]
    BY <1>2 DEF Payouts!RefundLoser
  <2>2. /\ credits < MaxCredits /\ credits' = credits + 1 /\ events' \in Seq(Address)
        /\ UNCHANGED <<order, seeded, sweep>>
    BY <1>0, <1>2 DEF Payouts!RefundLoser
  <2> QED
    BY <1>1, <2>1, <2>2
<1>3. ASSUME NEW a \in Address, Payouts!SettlePushFails(a) PROVE PayoutsInv'
  <2>1. PICK failed \in {0, 1} : owed' = [owed EXCEPT ![a] = @ + failed]
    BY <1>3 DEF Payouts!SettlePushFails
  <2>2. /\ credits < MaxCredits /\ credits' = credits + 1 /\ events' \in Seq(Address)
        /\ UNCHANGED <<order, seeded, sweep>>
    BY <1>0, <1>3 DEF Payouts!SettlePushFails
  <2> QED
    BY <1>1, <2>1, <2>2
<1>4. ASSUME NEW a \in Address, Payouts!WithdrawRefund(a) PROVE PayoutsInv'
  BY <1>4 DEF PayoutsInv, PayoutsTyped, Payouts!WithdrawRefund
<1>5. CASE Payouts!SeedPendingWithdrawal
  <2>1. /\ events' \in Seq(Address) /\ Head(events) \in Address
        /\ UNCHANGED <<owed, seeded, sweep, credits>>
    BY <1>0, <1>5 DEF Payouts!SeedPendingWithdrawal
  <2>2. \/ UNCHANGED order
        \/ order' = Append(Payouts!RemoveFirst(order, Head(events)), Head(events))
    BY <1>5 DEF Payouts!SeedPendingWithdrawal, Payouts!Touched
  <2>3. order' \in Seq(Address) /\ Injective(order') /\ Elements(order) \subseteq Elements(order')
    <3>1. PICK a \in Address : a = Head(events)
      BY <2>1
    <3>2. PICK r : r = Payouts!RemoveFirst(order, a) /\ Removed(order, a, r)
      BY <1>0, PayoutsRemove
    <3>3. /\ Append(r, a) \in Seq(Address) /\ Injective(Append(r, a))
          /\ Elements(Append(r, a)) = Elements(order) \cup {a}
      BY <1>0, <3>2, RemovedShape
    <3> QED
      BY <1>0, <2>2, <3>1, <3>2, <3>3
  <2> QED
    BY <1>0, <2>1, <2>3 DEF PayoutsInv, PayoutsTyped
<1>6. CASE UNCHANGED withdrawals
  BY <1>6 DEF withdrawals, PayoutsInv, PayoutsTyped
<1> QED
  BY <1>2, <1>3, <1>4, <1>5, <1>6

\* A pass lists, asks and goes on; a stop ends it.
LEMMA PayoutsPass ==
    ASSUME PayoutsInv, NEW i \in Sweepers,
           Payouts!List(i) \/ Payouts!CallPendingReturns(i) \/ Payouts!Stop(i)
    PROVE  PayoutsInv'
<1>0. /\ sweep[i] \in SweepRecords /\ owed \in [Address -> 0 .. credits] /\ order \in Seq(Address)
      /\ sweep[i].pc # "idle" => sweep[i].left # <<>> /\ credits \in Nat
  BY DEF PayoutsInv, PayoutsTyped
<1>1. UNCHANGED <<credits, owed, events, order, seeded>>
  BY DEF Payouts!List, Payouts!CallPendingReturns, Payouts!Stop
<1>2. PICK s : Payouts!Set(i, s) /\ s \in SweepRecords /\ (s.pc # "idle" => s.left # <<>>)
  <2>1. CASE Payouts!List(i)
    <3>1. PICK n \in 1 .. Len(order) : n = IF Len(order) < PayoutBatch THEN Len(order) ELSE PayoutBatch
      BY <1>0, <2>1 DEF Payouts!List
    <3>2. PICK l : l = SubSeq(order, 1, n)
      OBVIOUS
    <3>3. l \in Seq(Address) /\ Len(l) = n
      BY <1>0, <3>1, <3>2, SubSeqProperties
    <3>4. l # <<>>
      BY <3>3
    <3>5. Payouts!Set(i, [pc |-> "call", owed |-> 0, left |-> l])
      BY <2>1, <3>1, <3>2 DEF Payouts!List
    <3>6. [pc |-> "call", owed |-> 0, left |-> l] \in SweepRecords
      BY <3>3 DEF SweepRecords
    <3> QED
      BY <3>4, <3>5, <3>6
  <2>2. CASE Payouts!CallPendingReturns(i)
    <3>1. sweep[i].left # <<>> /\ Head(sweep[i].left) \in Address
      BY <1>0, <2>2, PayoutFacts DEF Payouts!CallPendingReturns
    <3>2. PICK n \in Nat : n = owed[Head(sweep[i].left)]
      BY <1>0, <3>1
    <3>3. PICK s : s = [sweep[i] EXCEPT !.pc = "write", !.owed = n]
      OBVIOUS
    <3>4. s \in SweepRecords /\ s.left = sweep[i].left
      BY <1>0, <3>3 DEF SweepRecords
    <3>5. Payouts!Set(i, s) \/ Payouts!Set(i, Payouts!Skipped(sweep[i]))
      BY <2>2, <3>2, <3>3 DEF Payouts!CallPendingReturns
    <3> QED
      BY <1>0, <3>1, <3>4, <3>5, PayoutFacts
  <2>3. CASE Payouts!Stop(i)
    BY <2>3, PayoutFacts DEF Payouts!Stop
  <2> QED
    BY <2>1, <2>2, <2>3
<1> QED
  BY <1>1, <1>2, OneSweep DEF PayoutsInv, PayoutsTyped

\* A write moves the row to the end or takes it off the list.
LEMMA PayoutsWrite ==
    ASSUME PayoutsInv, NEW i \in Sweepers, Payouts!Write(i)
    PROVE  PayoutsInv'
<1>0. /\ sweep[i] \in SweepRecords /\ order \in Seq(Address) /\ Injective(order)
      /\ sweep[i].left # <<>> /\ sweep[i].owed \in Nat
      /\ seeded \in [Address -> PayoutRows]
      /\ UNCHANGED <<owed, events, credits>>
  BY DEF PayoutsInv, PayoutsTyped, SweepRecords, Payouts!Write
<1>1. PICK a \in Address : a = Head(sweep[i].left)
  BY <1>0, PayoutFacts
<1>2. Payouts!Listed = Elements(order)
  <2>1. Payouts!Listed = {order[j] : j \in DOMAIN order}
    BY Zenon DEF Payouts!Listed, Payouts!Range
  <2> QED
    BY <1>0, <2>1 DEF Elements
<1>3. /\ sweep' \in [Sweepers -> SweepRecords]
      /\ \A j \in Sweepers : sweep'[j].pc # "idle" => sweep'[j].left # <<>>
  <2>1. Payouts!Set(i, Payouts!Skipped(sweep[i]))
    BY DEF Payouts!Write
  <2> QED
    BY <1>0, <2>1, PayoutFacts, OneSweep
<1>4. /\ order' \in Seq(Address) /\ Injective(order') /\ seeded' \in [Address -> PayoutRows]
      /\ \A b \in Address \ Elements(order') : seeded'[b] = Payouts!Candidate
  <2>1. CASE UNCHANGED <<order, seeded>>
    BY <1>0, <2>1 DEF PayoutsInv
  <2>2. CASE Payouts!DeletePendingWithdrawal(a)
    <3>1. order' = Payouts!RemoveFirst(order, a) /\ seeded' = [seeded EXCEPT ![a] = Payouts!Candidate]
      BY <2>2 DEF Payouts!DeletePendingWithdrawal
    <3>2. order' \in Seq(Address) /\ Injective(order') /\ Elements(order') = Elements(order) \ {a}
      BY <1>0, <3>1, PayoutsRemove, RemovedShape
    <3>3. PICK r \in PayoutRows : r = Payouts!Candidate
      BY PayoutFacts
    <3> QED
      BY <1>0, <3>1, <3>2, <3>3 DEF PayoutsInv
  <2>3. CASE Payouts!MarkPendingWithdrawalVerified(a, sweep[i].owed)
    <3>1. CASE a \notin Elements(order)
      BY <1>0, <1>2, <2>3, <3>1 DEF PayoutsInv, Payouts!MarkPendingWithdrawalVerified, Payouts!Moved
    <3>2. CASE a \in Elements(order)
      <4>1. /\ order' = Append(Payouts!RemoveFirst(order, a), a)
            /\ seeded' = [seeded EXCEPT ![a] = [verified |-> TRUE, amount |-> sweep[i].owed]]
        BY <1>2, <2>3, <3>2
           DEF Payouts!MarkPendingWithdrawalVerified, Payouts!Moved, Payouts!Touched
      <4>2. /\ order' \in Seq(Address) /\ Injective(order')
            /\ Elements(order') = Elements(order) \cup {a}
        BY <1>0, <4>1, PayoutsRemove, RemovedShape
      <4>3. PICK r \in PayoutRows : r = [verified |-> TRUE, amount |-> sweep[i].owed]
        BY <1>0 DEF PayoutRows
      <4> QED
        BY <1>0, <4>1, <4>2, <4>3 DEF PayoutsInv
    <3> QED
      BY <3>1, <3>2
  <2> QED
    BY <1>1, <2>1, <2>2, <2>3 DEF Payouts!Write
<1> QED
  BY <1>0, <1>3, <1>4 DEF PayoutsInv, PayoutsTyped

LEMMA PayoutsStep ==
    ASSUME PayoutsInv, Payouts!Next \/ UNCHANGED withdrawals
    PROVE  PayoutsInv'
  BY PayoutsSeed, PayoutsPass, PayoutsWrite DEF Payouts!Next, Payouts!Sweeper

LEMMA PayoutsShape == PayoutsInv => Payouts!TypeOK
<1> SUFFICES ASSUME PayoutsInv PROVE Payouts!TypeOK
  OBVIOUS
<1>1. /\ credits \in 0 .. MaxCredits /\ owed \in [Address -> 0 .. credits]
      /\ order \in Seq(Address) /\ Injective(order) /\ sweep \in [Sweepers -> SweepRecords]
  BY DEF PayoutsInv, PayoutsTyped
<1>2. \A s \in Seq(Address) : Payouts!Range(s) = Elements(s) /\ Elements(s) \subseteq Address
                              /\ (Injective(s) => Payouts!IsInjective(s))
  <2> SUFFICES ASSUME NEW s \in Seq(Address)
               PROVE  Payouts!Range(s) = Elements(s) /\ Elements(s) \subseteq Address
                      /\ (Injective(s) => Payouts!IsInjective(s))
    OBVIOUS
  <2>1. Payouts!Range(s) = {s[j] : j \in DOMAIN s}
    BY Zenon DEF Payouts!Range
  <2>2. Payouts!IsInjective(s) <=> \A a, b \in DOMAIN s : s[a] = s[b] => a = b
    BY Zenon DEF Payouts!IsInjective
  <2>3. DOMAIN s = 1 .. Len(s)
    OBVIOUS
  <2> QED
    BY <2>1, <2>2, <2>3 DEF Elements, Injective
<1>3. owed \in [Address -> 0 .. MaxCredits]
  BY <1>1
<1>4. \A i \in Sweepers : sweep[i].left \in Seq(Address)
  BY <1>1 DEF SweepRecords
<1> QED
  BY <1>1, <1>2, <1>3, <1>4 DEF PayoutsInv, Payouts!TypeOK, Payouts!Listed

HIDE PayoutsAssumption

----------------------------------------------------------------------------
(* The state of the metadata workers                                       *)

USE MediaAssumption

Blobs == {Media!Json(t) : t \in Token} \cup {Media!Image(t) : t \in Token}
ImagesOf(t) == {Media!None, Media!Upstream, Media!Image(t)}
UrisOf(t) == {Media!Upstream, Media!Json(t)}

\* A real row, and a fetch under way: what it stores is of its own token.
RealRow(t, r) ==
    /\ r = [kind |-> "real", image |-> r.image, uri |-> r.uri, retries |-> r.retries, due |-> r.due]
    /\ r.image \in ImagesOf(t) /\ r.uri \in UrisOf(t) /\ r.retries \in 0 .. MaxRetries

FetchRecords(t) ==
    [pc : {"idle", "queued", "ask", "mark", "json", "put json", "image", "put image", "thumbs", "upsert"},
     says : Says[t] \cup {""}, uri : UrisOf(t) \cup {Media!None}, image : ImagesOf(t)]

FetchTyped(t, g) ==
    /\ g \in FetchRecords(t)
    /\ g.pc \notin {"idle", "queued", "ask"} => g.uri \in UrisOf(t)

Busy(i) == {t \in Token : fetch[i][t].pc \notin {"idle", "queued"}}

\* A slot is taken by a fetch under way, or all of them by the loop that waits.
SlotsHeld(i) ==
    IF draining[i] = "release" THEN sem[i] = Concurrency /\ \A t \in Token : fetch[i][t].pc = "idle"
    ELSE sem[i] = Cardinality(Busy(i)) /\ sem[i] <= Concurrency

\* Only a visitor tries an image whose tries are spent.
Pairs(w) == [token : Token, count : {n \in 0 .. MaxRetries : w = Media!Visitor \/ n < MaxRetries}]
RetryRecords(w) == [pc : {"idle", "fetch", "put", "update"}, left : Seq(Pairs(w))]

RowsTyped == MediaInv /\ \A t \in Token : Media!IsReal(row[t]) => RealRow(t, row[t])

BlobsTyped == blobs \in Seq(Blobs) /\ Injective(blobs)

FetchesTyped ==
    /\ fetch = [i \in Workers |-> fetch[i]]
    /\ sem = [i \in Workers |-> sem[i]]
    /\ draining = [i \in Workers |-> draining[i]]
    /\ \A i \in Workers : /\ fetch[i] = [t \in Token |-> fetch[i][t]]
                          /\ \A t \in Token : FetchTyped(t, fetch[i][t])
                          /\ SlotsHeld(i)

RetriesTyped ==
    /\ retry = [w \in Retriers |-> retry[w]]
    /\ \A w \in Retriers : /\ retry[w] \in RetryRecords(w)
                           /\ retry[w].pc # "idle" => retry[w].left # <<>>

LEMMA BusyFinite == \A i : IsFiniteSet(Busy(i)) /\ Cardinality(Busy(i)) \in Nat
<1> SUFFICES ASSUME NEW i PROVE IsFiniteSet(Busy(i)) /\ Cardinality(Busy(i)) \in Nat
  OBVIOUS
<1>1. Busy(i) \subseteq Token
  BY DEF Busy
<1> QED
  BY <1>1, FS_Subset, FS_CardinalityType

LEMMA IdleFetch == Media!Idle.pc = "idle" /\ \A t \in Token : FetchTyped(t, Media!Idle)
BY DEF FetchTyped, FetchRecords, Media!Idle, ImagesOf, UrisOf

LEMMA RestingRetry == Media!Resting.pc = "idle" /\ \A w \in Retriers : Media!Resting \in RetryRecords(w)
<1>1. ASSUME NEW w \in Retriers PROVE Media!Resting \in RetryRecords(w)
  <2>1. PICK l \in Seq(Pairs(w)) : l = <<>>
    BY EmptySeq
  <2>2. Media!Resting = [pc |-> "idle", left |-> l]
    BY <2>1 DEF Media!Resting
  <2> QED
    BY <2>2 DEF RetryRecords
<1>2. Media!Resting.pc = "idle"
  BY DEF Media!Resting
<1> QED
  BY <1>1, <1>2

LEMMA MediaTypesInit == Media!Init => RowsTyped /\ BlobsTyped /\ FetchesTyped /\ RetriesTyped
<1> SUFFICES ASSUME Media!Init PROVE RowsTyped /\ BlobsTyped /\ FetchesTyped /\ RetriesTyped
  OBVIOUS
<1>1. RowsTyped
  BY DEF Media!Init, RowsTyped, MediaInv, Media!NoRow, Media!IsReal
<1>2. BlobsTyped
  <2>1. blobs = <<>> /\ <<>> \in Seq(Blobs) /\ Len(<<>>) = 0
    BY DEF Media!Init
  <2> QED
    BY <2>1 DEF BlobsTyped, Injective
<1>3. FetchesTyped
  <2>1. PICK g : g = Media!Idle /\ g.pc = "idle" /\ \A t \in Token : FetchTyped(t, g)
    BY IdleFetch
  <2>2. /\ fetch = [i \in Workers |-> [t \in Token |-> g]]
        /\ sem = [i \in Workers |-> 0] /\ draining = [i \in Workers |-> "no"]
    BY <2>1 DEF Media!Init
  <2>3. \A i \in Workers : Busy(i) = {}
    BY <2>1, <2>2 DEF Busy
  <2>4. \A i \in Workers : SlotsHeld(i)
    BY <2>2, <2>3, FS_EmptySet DEF SlotsHeld
  <2> QED
    BY <2>1, <2>2, <2>4 DEF FetchesTyped
<1>4. RetriesTyped
  <2>1. PICK r : r = Media!Resting /\ r.pc = "idle" /\ \A w \in Retriers : r \in RetryRecords(w)
    BY RestingRetry
  <2>2. retry = [w \in Retriers |-> r]
    BY <2>1 DEF Media!Init
  <2> QED
    BY <2>1, <2>2 DEF RetriesTyped
<1> QED
  BY <1>1, <1>2, <1>3, <1>4

----------------------------------------------------------------------------
\* One fetch gets a new record; the slots follow.
LEMMA OneFetch ==
    ASSUME FetchesTyped, NEW i \in Workers, NEW t \in Token, NEW g, Media!Go(i, t, g),
           FetchTyped(t, g), fetch[i][t].pc # "idle",
           UNCHANGED draining \/ (\E d \in {"acquire"} : draining' = [draining EXCEPT ![i] = d]),
           \/ /\ fetch[i][t].pc # "queued" /\ g.pc \notin {"idle", "queued"} /\ UNCHANGED sem
           \/ fetch[i][t].pc # "queued" /\ g.pc = "idle" /\ sem' = [sem EXCEPT ![i] = @ - 1]
           \/ /\ fetch[i][t].pc = "queued" /\ g.pc \notin {"idle", "queued"} /\ sem[i] < Concurrency
              /\ sem' = [sem EXCEPT ![i] = @ + 1]
    PROVE  FetchesTyped'
<1>0. /\ SlotsHeld(i) /\ draining[i] # "release" /\ draining'[i] # "release"
      /\ sem[i] = Cardinality(Busy(i)) /\ sem[i] <= Concurrency /\ sem[i] \in Nat
  BY BusyFinite DEF FetchesTyped, SlotsHeld
<1>1. /\ fetch' = [j \in Workers |-> fetch'[j]]
      /\ \A j \in Workers : fetch'[j] = [u \in Token |-> fetch'[j][u]]
      /\ fetch'[i][t] = g
      /\ \A j \in Workers, u \in Token : j # i \/ u # t => fetch'[j][u] = fetch[j][u]
  <2>1. PICK f : f = [fetch[i] EXCEPT ![t] = g]
    OBVIOUS
  <2>2. fetch' = [fetch EXCEPT ![i] = f]
    BY <2>1 DEF Media!Go
  <2>3. f = [u \in Token |-> f[u]] /\ f[t] = g /\ \A u \in Token : u # t => f[u] = fetch[i][u]
    BY <2>1 DEF FetchesTyped
  <2>4. /\ fetch' = [j \in Workers |-> fetch'[j]]
        /\ fetch'[i] = f /\ \A j \in Workers : j # i => fetch'[j] = fetch[j]
    BY <2>2 DEF FetchesTyped
  <2>5. \A j \in Workers : fetch'[j] = [u \in Token |-> fetch'[j][u]]
    BY <2>3, <2>4 DEF FetchesTyped
  <2> QED
    BY <2>3, <2>4, <2>5
<1>2. /\ sem' = [j \in Workers |-> sem'[j]] /\ draining' = [j \in Workers |-> draining'[j]]
      /\ \A j \in Workers : j # i => sem'[j] = sem[j] /\ draining'[j] = draining[j]
  BY DEF FetchesTyped
<1>3. \A j \in Workers, u \in Token : FetchTyped(u, fetch'[j][u])
  BY <1>1 DEF FetchesTyped
<1>4. \A j \in Workers : j # i => Busy(j)' = Busy(j) /\ SlotsHeld(j)'
  <2> SUFFICES ASSUME NEW j \in Workers, j # i PROVE Busy(j)' = Busy(j) /\ SlotsHeld(j)'
    OBVIOUS
  <2>1. Busy(j)' = Busy(j)
    BY <1>1 DEF Busy
  <2> QED
    BY <1>1, <1>2, <2>1 DEF FetchesTyped, SlotsHeld
<1>5. sem'[i] = Cardinality(Busy(i)') /\ sem'[i] <= Concurrency
  <2>1. CASE fetch[i][t].pc # "queued" /\ g.pc \notin {"idle", "queued"} /\ UNCHANGED sem
    <3>1. Busy(i)' = Busy(i)
      BY <1>1, <2>1 DEF Busy
    <3> QED
      BY <1>0, <2>1, <3>1
  <2>2. CASE fetch[i][t].pc # "queued" /\ g.pc = "idle" /\ sem' = [sem EXCEPT ![i] = @ - 1]
    <3>1. Busy(i)' = Busy(i) \ {t} /\ t \in Busy(i)
      BY <1>1, <2>2 DEF Busy
    <3>2. Cardinality(Busy(i) \ {t}) = Cardinality(Busy(i)) - 1
      BY <3>1, BusyFinite, FS_RemoveElement
    <3>3. sem'[i] = sem[i] - 1
      BY <2>2 DEF FetchesTyped
    <3> QED
      BY <1>0, <3>1, <3>2, <3>3
  <2>3. CASE /\ fetch[i][t].pc = "queued" /\ g.pc \notin {"idle", "queued"} /\ sem[i] < Concurrency
             /\ sem' = [sem EXCEPT ![i] = @ + 1]
    <3>1. Busy(i)' = Busy(i) \cup {t} /\ t \notin Busy(i)
      BY <1>1, <2>3 DEF Busy
    <3>2. Cardinality(Busy(i) \cup {t}) = Cardinality(Busy(i)) + 1
      BY <3>1, BusyFinite, FS_AddElement
    <3>3. sem'[i] = sem[i] + 1
      BY <2>3 DEF FetchesTyped
    <3> QED
      BY <1>0, <2>3, <3>1, <3>2, <3>3
  <2> QED
    BY <2>1, <2>2, <2>3
<1>6. SlotsHeld(i)'
  BY <1>0, <1>5 DEF SlotsHeld
<1> QED
  BY <1>1, <1>2, <1>3, <1>4, <1>6 DEF FetchesTyped

LEMMA FetchGoes ==
    ASSUME FetchesTyped, NEW i \in Workers, NEW t \in Token, NEW g, Media!Go(i, t, g),
           FetchTyped(t, g), fetch[i][t].pc \notin {"idle", "queued"},
           g.pc \notin {"idle", "queued"}, UNCHANGED <<sem, draining>>
    PROVE  FetchesTyped'
  BY OneFetch

LEMMA FetchEnds ==
    ASSUME FetchesTyped, NEW i \in Workers, NEW t \in Token, Media!Done(i, t),
           fetch[i][t].pc \notin {"idle", "queued"}, UNCHANGED draining
    PROVE  FetchesTyped'
  BY OneFetch, IdleFetch DEF Media!Done

LEMMA FetchStep ==
    ASSUME FetchesTyped, NEW i \in Workers, NEW t \in Token, Media!FetchOne(i, t)
    PROVE  FetchesTyped'
<1>g. PICK g : g = fetch[i][t]
  OBVIOUS
<1>0. FetchTyped(t, g) /\ UNCHANGED draining
  BY <1>g DEF FetchesTyped, Media!FetchOne, Media!Ask, Media!MarkMissing, Media!SelfHostJson,
         Media!PutJson, Media!FetchImage, Media!PutImageOf, Media!StoreThumbnails, Media!UpsertMetadata
<1>a. ASSUME NEW h, Media!Go(i, t, h), FetchTyped(t, h), UNCHANGED sem,
             g.pc \notin {"idle", "queued"}, h.pc \notin {"idle", "queued"}
      PROVE  FetchesTyped'
  BY <1>0, <1>a, <1>g, FetchGoes
<1>b. ASSUME Media!Done(i, t), g.pc \notin {"idle", "queued"}
      PROVE  FetchesTyped'
  BY <1>0, <1>b, <1>g, FetchEnds
<1>1. CASE Media!Ask(i, t)
  <2>1. g.pc = "ask"
    BY <1>1, <1>g DEF Media!Ask, Media!At
  <2>2. ASSUME NEW a \in Says[t], UNCHANGED sem,
               Media!Go(i, t, [Media!Idle EXCEPT !.says = a, !.uri = Media!Upstream,
                                                 !.pc = IF a = "" THEN "mark" ELSE "json"])
        PROVE  FetchesTyped'
    <3>1. PICK to \in {"mark", "json"} : to = IF a = "" THEN "mark" ELSE "json"
      OBVIOUS
    <3>2. PICK h : h = [Media!Idle EXCEPT !.says = a, !.uri = Media!Upstream, !.pc = to]
      OBVIOUS
    <3>3. FetchTyped(t, h) /\ h.pc = to
      BY <3>2, IdleFetch DEF FetchTyped, FetchRecords, UrisOf
    <3> QED
      BY <1>a, <2>1, <2>2, <3>1, <3>2, <3>3
  <2> QED
    BY <1>1, <1>b, <2>1, <2>2 DEF Media!Ask
<1>2. CASE Media!MarkMissing(i, t)
  BY <1>b, <1>2, <1>g DEF Media!MarkMissing, Media!At
<1>3. CASE Media!SelfHostJson(i, t)
  <2>1. g.pc = "json"
    BY <1>3, <1>g DEF Media!SelfHostJson, Media!At
  <2>2. CASE Media!Done(i, t)
    BY <1>b, <2>1, <2>2
  <2>3. CASE ~Media!Done(i, t)
    <3>1. PICK to, h :
             to \in {"put json", "image"} /\ h = [g EXCEPT !.pc = to] /\ Media!Go(i, t, h) /\ UNCHANGED sem
      BY <1>3, <1>g, <2>3 DEF Media!SelfHostJson, Media!Step
    <3>2. FetchTyped(t, h) /\ h.pc = to
      BY <1>0, <2>1, <3>1 DEF FetchTyped, FetchRecords
    <3> QED
      BY <1>a, <2>1, <3>1, <3>2
  <2> QED
    BY <2>2, <2>3
<1>4. CASE Media!PutJson(i, t)
  <2>1. PICK u, h : /\ u = Media!Json(t) /\ h = [g EXCEPT !.uri = u, !.pc = "image"]
                    /\ g.pc = "put json" /\ UNCHANGED sem /\ Media!Go(i, t, h)
    BY <1>4, <1>g DEF Media!PutJson, Media!At
  <2>2. u \in UrisOf(t)
    BY <2>1 DEF UrisOf
  <2>3. FetchTyped(t, h) /\ h.pc = "image"
    BY <1>0, <2>1, <2>2 DEF FetchTyped, FetchRecords
  <2> QED
    BY <1>a, <2>1, <2>3
<1>5. CASE Media!FetchImage(i, t)
  <2>1. PICK m : m = Media!Upstream /\ m \in ImagesOf(t) /\ g.pc = "image" /\ UNCHANGED sem
    BY <1>5, <1>g DEF Media!FetchImage, Media!At, Media!Unhosted, ImagesOf
  <2>2. PICK h : /\ Media!Go(i, t, h)
                 /\ \/ h = [g EXCEPT !.says = "", !.pc = "upsert"]
                    \/ h = [g EXCEPT !.says = "", !.image = m, !.pc = "upsert"]
                    \/ h = [g EXCEPT !.says = "", !.pc = "put image"]
    BY <1>5, <1>g, <2>1 DEF Media!FetchImage, Media!Unhosted
  <2>3. h = [g EXCEPT !.says = "", !.pc = "upsert"] => FetchTyped(t, h) /\ h.pc = "upsert"
    BY <1>0, <2>1 DEF FetchTyped, FetchRecords
  <2>4. h = [g EXCEPT !.says = "", !.image = m, !.pc = "upsert"] => FetchTyped(t, h) /\ h.pc = "upsert"
    BY <1>0, <2>1 DEF FetchTyped, FetchRecords
  <2>5. h = [g EXCEPT !.says = "", !.pc = "put image"] => FetchTyped(t, h) /\ h.pc = "put image"
    BY <1>0, <2>1 DEF FetchTyped, FetchRecords
  <2> QED
    BY <1>a, <2>1, <2>2, <2>3, <2>4, <2>5
<1>6. CASE Media!PutImageOf(i, t)
  <2>1. PICK m, h : /\ m = Media!Image(t) /\ h = [g EXCEPT !.image = m, !.pc = "thumbs"]
                    /\ g.pc = "put image" /\ UNCHANGED sem /\ Media!Go(i, t, h)
    BY <1>6, <1>g DEF Media!PutImageOf, Media!At
  <2>2. m \in ImagesOf(t)
    BY <2>1 DEF ImagesOf
  <2>3. FetchTyped(t, h) /\ h.pc = "thumbs"
    BY <1>0, <2>1, <2>2 DEF FetchTyped, FetchRecords
  <2> QED
    BY <1>a, <2>1, <2>3
<1>7. CASE Media!StoreThumbnails(i, t)
  <2>1. PICK h : /\ h = [g EXCEPT !.pc = "upsert"]
                 /\ g.pc = "thumbs" /\ UNCHANGED sem /\ Media!Go(i, t, h)
    BY <1>7, <1>g DEF Media!StoreThumbnails, Media!At, Media!Step
  <2>2. FetchTyped(t, h) /\ h.pc = "upsert"
    BY <1>0, <2>1 DEF FetchTyped, FetchRecords
  <2> QED
    BY <1>a, <2>1, <2>2
<1>8. CASE Media!UpsertMetadata(i, t)
  BY <1>b, <1>8, <1>g DEF Media!UpsertMetadata, Media!At
<1> QED
  BY <1>1, <1>2, <1>3, <1>4, <1>5, <1>6, <1>7, <1>8 DEF Media!FetchOne

\* One worker gets a new batch, new slots or a new phase; the others stay.
LEMMA OneWorker ==
    ASSUME FetchesTyped, NEW i \in Workers, NEW f, NEW n, NEW d,
           fetch' = [fetch EXCEPT ![i] = f], sem' = [sem EXCEPT ![i] = n],
           draining' = [draining EXCEPT ![i] = d],
           f = [t \in Token |-> f[t]], \A t \in Token : FetchTyped(t, f[t]) /\ f[t].pc \in {"idle", "queued"},
           IF d = "release" THEN n = Concurrency /\ \A t \in Token : f[t].pc = "idle" ELSE n = 0
    PROVE  FetchesTyped'
<1>1. /\ fetch' = [j \in Workers |-> fetch'[j]] /\ sem' = [j \in Workers |-> sem'[j]]
      /\ draining' = [j \in Workers |-> draining'[j]]
      /\ fetch'[i] = f /\ sem'[i] = n /\ draining'[i] = d
      /\ \A j \in Workers : j # i => /\ fetch'[j] = fetch[j] /\ sem'[j] = sem[j]
                                     /\ draining'[j] = draining[j]
  BY DEF FetchesTyped
<1>2. ASSUME NEW j \in Workers
      PROVE  /\ fetch'[j] = [t \in Token |-> fetch'[j][t]]
             /\ \A t \in Token : FetchTyped(t, fetch'[j][t])
  BY <1>1 DEF FetchesTyped
<1>3. SlotsHeld(i)'
  <2>1. Busy(i)' = {}
    BY <1>1 DEF Busy
  <2>2. Cardinality({}) = 0 /\ 0 <= Concurrency
    BY FS_EmptySet
  <2> QED
    BY <1>1, <2>1, <2>2 DEF SlotsHeld
<1>4. ASSUME NEW j \in Workers, j # i PROVE SlotsHeld(j)'
  <2>1. Busy(j)' = Busy(j) /\ SlotsHeld(j)
    BY <1>1, <1>4 DEF Busy, FetchesTyped
  <2> QED
    BY <1>1, <1>4, <2>1 DEF SlotsHeld
<1> QED
  BY <1>1, <1>2, <1>3, <1>4 DEF FetchesTyped

\* runMetadataWorker: a batch, its launches, the wait for its end; the process starts again.
LEMMA WorkerStep ==
    ASSUME FetchesTyped, NEW i \in Workers, Media!MetadataWorker(i) \/ Media!Restart(i)
    PROVE  FetchesTyped'
<1>0. /\ fetch = [j \in Workers |-> fetch[j]] /\ sem = [j \in Workers |-> sem[j]]
      /\ draining = [j \in Workers |-> draining[j]]
      /\ fetch[i] = [t \in Token |-> fetch[i][t]]
      /\ \A t \in Token : FetchTyped(t, fetch[i][t])
      /\ SlotsHeld(i)
  BY DEF FetchesTyped
<1>1. PICK idle : idle = Media!Idle /\ idle.pc = "idle" /\ \A t \in Token : FetchTyped(t, idle)
  BY IdleFetch
<1>2. CASE Media!ListMissing(i)
  <2>0. PICK queued : queued = [Media!Idle EXCEPT !.pc = "queued"]
    OBVIOUS
  <2>a. PICK batch :
           fetch' = [fetch EXCEPT ![i] = [t \in Token |->
                       IF t \in batch THEN [Media!Idle EXCEPT !.pc = "queued"] ELSE Media!Idle]]
    BY <1>2 DEF Media!ListMissing
  <2>1. fetch' = [fetch EXCEPT ![i] = [t \in Token |-> IF t \in batch THEN queued ELSE idle]]
    BY <1>1, <2>0, <2>a
  <2>2. /\ draining[i] = "no" /\ UNCHANGED <<sem, draining>>
        /\ \A t \in Token : fetch[i][t].pc = "idle"
    BY <1>2 DEF Media!ListMissing, Media!Batch
  <2>3. queued.pc = "queued" /\ \A t \in Token : FetchTyped(t, queued)
    BY <1>1, <2>0 DEF FetchTyped, FetchRecords, Media!Idle
  <2>4. PICK f : f = [t \in Token |-> IF t \in batch THEN queued ELSE idle]
    OBVIOUS
  <2>5. sem[i] = 0
    <3>1. Busy(i) = {}
      BY <2>2 DEF Busy
    <3> QED
      BY <1>0, <2>2, <3>1, FS_EmptySet DEF SlotsHeld
  <2>6. sem' = [sem EXCEPT ![i] = 0] /\ draining' = [draining EXCEPT ![i] = "no"]
    BY <1>0, <2>2, <2>5
  <2>7. /\ f = [t \in Token |-> f[t]]
        /\ \A t \in Token : FetchTyped(t, f[t]) /\ f[t].pc \in {"idle", "queued"}
    BY <1>1, <2>3, <2>4
  <2> QED
    BY <2>1, <2>4, <2>6, <2>7, OneWorker
<1>3. ASSUME NEW t \in Token, Media!Launch(i, t) PROVE FetchesTyped'
  <2>1. PICK g : /\ g = [fetch[i][t] EXCEPT !.pc = "ask"]
                 /\ fetch' = [fetch EXCEPT ![i][t] = g]
    BY <1>3 DEF Media!Launch
  <2>2. /\ fetch[i][t].pc = "queued" /\ sem[i] < Concurrency /\ sem' = [sem EXCEPT ![i] = @ + 1]
        /\ \/ UNCHANGED draining
           \/ draining' = [draining EXCEPT ![i] = "acquire"]
    BY <1>0, <1>3 DEF Media!Launch
  <2>3. FetchTyped(t, g) /\ g.pc = "ask"
    BY <1>0, <2>1, <2>2 DEF FetchTyped, FetchRecords
  <2> QED
    BY <2>1, <2>2, <2>3, OneFetch DEF Media!Go
<1>4. CASE Media!Drain(i)
  <2>1. /\ sem' = [sem EXCEPT ![i] = Concurrency] /\ draining' = [draining EXCEPT ![i] = "release"]
        /\ UNCHANGED fetch /\ \A t \in Token : fetch[i][t].pc = "idle"
    BY <1>4 DEF Media!Drain, Media!Batch
  <2>2. fetch' = [fetch EXCEPT ![i] = fetch[i]]
    BY <1>0, <2>1
  <2> QED
    BY <1>0, <2>1, <2>2, OneWorker
<1>5. CASE Media!Refill(i)
  <2>1. /\ sem' = [sem EXCEPT ![i] = 0] /\ draining' = [draining EXCEPT ![i] = "no"]
        /\ UNCHANGED fetch /\ \A t \in Token : fetch[i][t].pc = "idle"
    BY <1>0, <1>5 DEF Media!Refill, SlotsHeld
  <2>2. fetch' = [fetch EXCEPT ![i] = fetch[i]]
    BY <1>0, <2>1
  <2> QED
    BY <1>0, <2>1, <2>2, OneWorker
<1>6. CASE Media!Restart(i)
  <2>1. PICK f : f = [t \in Token |-> idle] /\ fetch' = [fetch EXCEPT ![i] = f]
    BY <1>1, <1>6 DEF Media!Restart
  <2>2. sem' = [sem EXCEPT ![i] = 0] /\ draining' = [draining EXCEPT ![i] = "no"]
    BY <1>6 DEF Media!Restart
  <2>3. f = [t \in Token |-> f[t]] /\ \A t \in Token : FetchTyped(t, f[t]) /\ f[t].pc = "idle"
    BY <1>1, <2>1
  <2> QED
    BY <2>1, <2>2, <2>3, OneWorker
<1> QED
  BY <1>2, <1>3, <1>4, <1>5, <1>6 DEF Media!MetadataWorker

LEMMA FetchesStep ==
    ASSUME FetchesTyped, Media!Next \/ UNCHANGED media
    PROVE  FetchesTyped'
<1>1. CASE UNCHANGED <<fetch, sem, draining>>
  BY <1>1 DEF FetchesTyped, SlotsHeld, Busy
<1>2. ASSUME NEW i \in Workers, Media!MetadataWorker(i) \/ Media!Restart(i) PROVE FetchesTyped'
  BY <1>2, WorkerStep
<1>3. ASSUME NEW i \in Workers, NEW t \in Token, Media!FetchOne(i, t) PROVE FetchesTyped'
  BY <1>3, FetchStep
<1>4. ASSUME NEW i \in Evictors, Media!ImageStoreWorker(i) PROVE UNCHANGED <<fetch, sem, draining>>
  BY <1>4 DEF Media!ImageStoreWorker, Media!SampleImageStore, Media!EvictUnreferenced,
              Media!DeleteBlob, Media!workerVars
<1>5. ASSUME NEW w \in Retriers, Media!Retry(w) PROVE UNCHANGED <<fetch, sem, draining>>
  BY <1>5 DEF Media!Retry, Media!ListUpstream, Media!TryFails, Media!TryFetches, Media!TryPut,
              Media!UpdateImageURI, Media!workerVars
<1>6. CASE Media!Tick \/ UNCHANGED media
  BY <1>1, <1>6 DEF Media!Tick, Media!workerVars, media
<1> QED
  BY <1>1, <1>2, <1>3, <1>4, <1>5, <1>6 DEF Media!Next

----------------------------------------------------------------------------
\* A pass over the upstream images gets a new record.
LEMMA OneRetry ==
    ASSUME RetriesTyped, NEW w \in Retriers, NEW r \in RetryRecords(w),
           retry' = [retry EXCEPT ![w] = r], r.pc # "idle" => r.left # <<>>
    PROVE  RetriesTyped'
<1>1. retry' = [v \in Retriers |-> IF v = w THEN r ELSE retry[v]]
  BY DEF RetriesTyped
<1> QED
  BY <1>1 DEF RetriesTyped

\* What a pass that runs tries next, and what is left after it.
LEMMA TryingShape ==
    ASSUME RetriesTyped, NEW w \in Retriers, retry[w].pc # "idle"
    PROVE  /\ retry[w] \in RetryRecords(w) /\ Media!Trying(w) \in Pairs(w)
           /\ Media!Advance(w) => RetriesTyped'
<1>1. retry[w] \in RetryRecords(w) /\ retry[w].left # <<>>
  BY DEF RetriesTyped
<1>2. PICK l \in Seq(Pairs(w)) : l = retry[w].left /\ l # <<>>
  BY <1>1 DEF RetryRecords
<1>3. Head(l) \in Pairs(w) /\ Tail(l) \in Seq(Pairs(w)) /\ Len(Tail(l)) = Len(l) - 1 /\ Len(l) \in Nat
  BY <1>2, HeadTailProperties
<1>4. ASSUME Media!Advance(w) PROVE RetriesTyped'
  <2>1. CASE Len(l) > 1
    <3>1. PICK r : r = [pc |-> "fetch", left |-> Tail(l)]
      OBVIOUS
    <3>2. retry' = [retry EXCEPT ![w] = r]
      BY <1>2, <1>4, <2>1, <3>1 DEF Media!Advance
    <3>3. r \in RetryRecords(w) /\ r.left # <<>>
      BY <1>3, <2>1, <3>1 DEF RetryRecords
    <3> QED
      BY <3>2, <3>3, OneRetry
  <2>2. CASE ~(Len(l) > 1)
    <3>1. retry' = [retry EXCEPT ![w] = Media!Resting]
      BY <1>2, <1>4, <2>2 DEF Media!Advance
    <3> QED
      BY <3>1, OneRetry, RestingRetry
  <2> QED
    BY <2>1, <2>2
<1> QED
  BY <1>1, <1>2, <1>3, <1>4 DEF Media!Trying

\* A pass lists images whose tries are not spent, a visitor's any image.
LEMMA ListKeeps ==
    ASSUME RowsTyped, RetriesTyped, NEW w \in Retriers, Media!ListUpstream(w)
    PROVE  RetriesTyped'
<1>1. \A t \in Token : Media!IsReal(row[t]) => row[t].retries \in 0 .. MaxRetries
  BY DEF RowsTyped, RealRow
<1>2. ASSUME NEW l \in Seq(Pairs(w)), l # <<>>,
             retry' = [retry EXCEPT ![w] = [pc |-> "fetch", left |-> l]]
      PROVE  RetriesTyped'
  <2>1. PICK r : r = [pc |-> "fetch", left |-> l]
    OBVIOUS
  <2>2. r \in RetryRecords(w) /\ r.left # <<>>
    BY <1>2, <2>1 DEF RetryRecords
  <2> QED
    BY <1>2, <2>1, <2>2, OneRetry
<1>3. CASE w = Media!Visitor
  <2>1. PICK t \in Token :
           /\ Media!IsReal(row[t])
           /\ retry' = [retry EXCEPT ![w] = [pc |-> "fetch", left |-> <<Media!Pair(t)>>]]
    BY <1>3 DEF Media!ListUpstream
  <2>a. PICK n \in 0 .. MaxRetries : n = row[t].retries
    BY <1>1, <2>1
  <2>b. PICK p : p = [token |-> t, count |-> n]
    OBVIOUS
  <2>2. p = Media!Pair(t) /\ p \in Pairs(w)
    BY <1>3, <2>a, <2>b DEF Media!Pair, Pairs
  <2>3. <<p>> \in Seq(Pairs(w)) /\ <<p>> # <<>>
    BY <2>2
  <2> QED
    BY <1>2, <2>1, <2>2, <2>3
<1>4. CASE w # Media!Visitor
  <2>1. PICK set : set = Media!Candidates
    OBVIOUS
  <2>2. PICK listing \in Media!SetToSeqs(set) :
           /\ set # {}
           /\ retry' = [retry EXCEPT ![w] = [pc |-> "fetch",
                          left |-> [k \in DOMAIN listing |-> Media!Pair(listing[k])]]]
    BY <1>4, <2>1 DEF Media!ListUpstream
  <2>3. PICK n \in Nat : n = Media!Cardinality(set) /\ n > 0
    <3>1. set \subseteq Token
      BY <2>1 DEF Media!Candidates
    <3>2. IsFiniteSet(set)
      BY <3>1, FS_Subset
    <3>3. Cardinality(set) \in Nat /\ Cardinality(set) # 0
      BY <2>2, <3>2, FS_CardinalityType, FS_EmptySet
    <3>4. Media!Cardinality(set) = Cardinality(set)
      BY Zenon DEF Media!Cardinality, Cardinality
    <3> QED
      BY <3>3, <3>4
  <2>4. listing \in [1 .. n -> set]
    <3>1. listing \in [1 .. Media!Cardinality(set) -> set]
      BY <2>2, Zenon DEF Media!SetToSeqs
    <3> QED
      BY <2>3, <3>1
  <2>5. \A t \in set : Media!Pair(t) \in Pairs(w)
    BY <1>1, <2>1 DEF Media!Candidates, Media!Pair, Pairs
  <2>6. PICK l : l = [k \in 1 .. n |-> Media!Pair(listing[k])]
    OBVIOUS
  <2>7. l \in [1 .. n -> Pairs(w)]
    BY <2>4, <2>5, <2>6
  <2>8. l \in Seq(Pairs(w)) /\ Len(l) = n
    BY <2>7
  <2>9. retry' = [retry EXCEPT ![w] = [pc |-> "fetch", left |-> l]]
    BY <2>2, <2>4, <2>6
  <2>10. l # <<>>
    <3>1. Len(<<>>) = 0 /\ Len(l) # 0
      BY <2>3, <2>8
    <3> QED
      BY <3>1
  <2> QED
    BY <1>2, <2>8, <2>9, <2>10
<1> QED
  BY <1>3, <1>4

LEMMA RetriesStep ==
    ASSUME RowsTyped, RetriesTyped, Media!Next \/ UNCHANGED media
    PROVE  RetriesTyped'
<1>1. CASE UNCHANGED retry
  BY <1>1 DEF RetriesTyped
<1>2. ASSUME NEW w \in Retriers, Media!Retry(w) PROVE RetriesTyped'
  <2>1. CASE Media!ListUpstream(w)
    BY <2>1, ListKeeps
  <2>2. CASE Media!TryFails(w) \/ Media!UpdateImageURI(w)
    <3>1. retry[w].pc # "idle" /\ Media!Advance(w)
      BY <2>2 DEF Media!TryFails, Media!UpdateImageURI
    <3> QED
      BY <3>1, TryingShape
  <2>3. CASE Media!TryFetches(w) \/ Media!TryPut(w)
    <3>1. PICK to \in {"put", "update"} :
             retry' = [retry EXCEPT ![w].pc = to] /\ retry[w].pc # "idle"
      BY <2>3 DEF Media!TryFetches, Media!TryPut
    <3>2. retry[w] \in RetryRecords(w) /\ retry[w].left # <<>>
      BY <3>1 DEF RetriesTyped
    <3>3. PICK r : r = [retry[w] EXCEPT !.pc = to]
      OBVIOUS
    <3>4. r \in RetryRecords(w) /\ r.left = retry[w].left
      BY <3>2, <3>3 DEF RetryRecords
    <3>5. retry' = [retry EXCEPT ![w] = r]
      BY <3>1, <3>3
    <3> QED
      BY <3>2, <3>4, <3>5, OneRetry
  <2> QED
    BY <1>2, <2>1, <2>2, <2>3 DEF Media!Retry
<1>3. ASSUME NEW i \in Workers, Media!Restart(i) PROVE RetriesTyped'
  <2>1. retry' = [w \in Retriers |-> IF w = i THEN Media!Resting ELSE retry[w]]
    BY <1>3 DEF Media!Restart
  <2> QED
    BY <2>1, RestingRetry DEF RetriesTyped
<1>4. ASSUME NEW i \in Workers, Media!MetadataWorker(i) \/ \E t \in Token : Media!FetchOne(i, t)
      PROVE  UNCHANGED retry
  BY <1>4 DEF Media!MetadataWorker, Media!ListMissing, Media!Launch, Media!Drain, Media!Refill,
              Media!FetchOne, Media!Ask, Media!MarkMissing, Media!SelfHostJson, Media!PutJson,
              Media!FetchImage, Media!PutImageOf, Media!StoreThumbnails, Media!UpsertMetadata
<1>5. ASSUME NEW i \in Evictors, Media!ImageStoreWorker(i) PROVE UNCHANGED retry
  BY <1>5 DEF Media!ImageStoreWorker, Media!SampleImageStore, Media!EvictUnreferenced, Media!DeleteBlob
<1>6. CASE Media!Tick \/ UNCHANGED media
  BY <1>1, <1>6 DEF Media!Tick, media
<1> QED
  BY <1>1, <1>2, <1>3, <1>4, <1>5, <1>6 DEF Media!Next

----------------------------------------------------------------------------
\* A blob is put once, at the end; an eviction takes it away.
LEMMA BlobsStep ==
    ASSUME RetriesTyped, BlobsTyped, Media!Next \/ UNCHANGED media
    PROVE  BlobsTyped'
<1>1. CASE UNCHANGED blobs
  BY <1>1 DEF BlobsTyped
<1>2. ASSUME NEW h \in Blobs, Media!PutImage(h) PROVE BlobsTyped'
  <2>1. PICK r : r = Media!RemoveFirst(blobs, h) /\ Removed(blobs, h, r)
    BY MediaRemove DEF BlobsTyped
  <2>2. blobs' = Append(r, h)
    BY <1>2, <2>1 DEF Media!PutImage
  <2> QED
    BY <2>1, <2>2, RemovedShape DEF BlobsTyped
<1>3. ASSUME NEW h, blobs' = Media!RemoveFirst(blobs, h) PROVE BlobsTyped'
  <2>1. Removed(blobs, h, blobs')
    BY <1>3, MediaRemove DEF BlobsTyped
  <2> QED
    BY <2>1, RemovedShape DEF BlobsTyped
<1>4. ASSUME NEW i \in Workers, NEW t \in Token, Media!FetchOne(i, t) PROVE BlobsTyped'
  <2>1. Media!Json(t) \in Blobs /\ Media!Image(t) \in Blobs
    BY DEF Blobs
  <2>2. UNCHANGED blobs \/ Media!PutImage(Media!Json(t)) \/ Media!PutImage(Media!Image(t))
    BY <1>4 DEF Media!FetchOne, Media!Ask, Media!MarkMissing, Media!SelfHostJson, Media!PutJson,
                Media!FetchImage, Media!PutImageOf, Media!StoreThumbnails, Media!UpsertMetadata,
                Media!storeVars
  <2> QED
    BY <1>1, <1>2, <2>1, <2>2
<1>5. ASSUME NEW w \in Retriers, Media!Retry(w) PROVE BlobsTyped'
  <2>1. CASE Media!TryPut(w)
    <3>1. retry[w].pc # "idle" /\ Media!PutImage(Media!Image(Media!Trying(w).token))
      BY <2>1 DEF Media!TryPut
    <3>2. Media!Trying(w).token \in Token
      BY <3>1, TryingShape DEF Pairs
    <3> QED
      BY <1>2, <3>1, <3>2 DEF Blobs
  <2>2. CASE ~Media!TryPut(w)
    BY <1>1, <1>5, <2>2 DEF Media!Retry, Media!ListUpstream, Media!TryFails, Media!TryFetches,
                            Media!UpdateImageURI, Media!storeVars
  <2> QED
    BY <2>1, <2>2
<1>6. ASSUME NEW i \in Evictors, Media!ImageStoreWorker(i) PROVE BlobsTyped'
  <2>1. UNCHANGED blobs \/ \E h : blobs' = Media!RemoveFirst(blobs, h)
    BY <1>6 DEF Media!ImageStoreWorker, Media!SampleImageStore, Media!EvictUnreferenced,
                Media!DeleteBlob, Media!storeVars
  <2> QED
    BY <1>1, <1>3, <2>1
<1>7. ASSUME NEW i \in Workers, Media!MetadataWorker(i) \/ Media!Restart(i) PROVE BlobsTyped'
  BY <1>1, <1>7 DEF Media!MetadataWorker, Media!ListMissing, Media!Launch, Media!Drain,
                    Media!Refill, Media!Restart, Media!storeVars
<1>8. CASE Media!Tick \/ UNCHANGED media
  BY <1>1, <1>8 DEF Media!Tick, Media!storeVars, media
<1> QED
  BY <1>4, <1>5, <1>6, <1>7, <1>8 DEF Media!Next

----------------------------------------------------------------------------
\* One row gets a record that is well-formed where it is real.
LEMMA OneRealRow ==
    ASSUME RowsTyped, MediaInv', NEW u \in Token, NEW r, row' = [row EXCEPT ![u] = r],
           Media!IsReal(r) => RealRow(u, r)
    PROVE  RowsTyped'
<1>1. \A t \in Token : row'[t] = IF t = u THEN r ELSE row[t]
  BY DEF RowsTyped, MediaInv
<1> QED
  BY <1>1 DEF RowsTyped

\* Its columns, changed.
LEMMA RowChanged ==
    ASSUME NEW t \in Token, NEW r, RealRow(t, r)
    PROVE  /\ \A d : RealRow(t, [r EXCEPT !.due = d])
           /\ \A n \in 0 .. MaxRetries : \A d : RealRow(t, [r EXCEPT !.retries = n, !.due = d])
           /\ \A m \in ImagesOf(t), n \in 0 .. MaxRetries : \A d :
                 RealRow(t, [r EXCEPT !.image = m, !.retries = n, !.due = d])
<1>1. PICK m0, u0, n0, d0 : r = [kind |-> "real", image |-> m0, uri |-> u0, retries |-> n0, due |-> d0]
  BY DEF RealRow
<1>2. m0 \in ImagesOf(t) /\ u0 \in UrisOf(t) /\ n0 \in 0 .. MaxRetries
  BY <1>1 DEF RealRow
<1>3. ASSUME NEW m \in ImagesOf(t), NEW n \in 0 .. MaxRetries, NEW d, NEW s,
             s = [kind |-> "real", image |-> m, uri |-> u0, retries |-> n, due |-> d]
      PROVE  RealRow(t, s)
  BY <1>2, <1>3 DEF RealRow
<1>4. ASSUME NEW d PROVE RealRow(t, [r EXCEPT !.due = d])
  <2>1. PICK s : s = [r EXCEPT !.due = d]
    OBVIOUS
  <2>2. s = [kind |-> "real", image |-> m0, uri |-> u0, retries |-> n0, due |-> d]
    BY <1>1, <2>1
  <2>3. RealRow(t, s)
    BY <1>2, <1>3, <2>2
  <2> QED
    BY <2>1, <2>3
<1>5. ASSUME NEW n \in 0 .. MaxRetries, NEW d PROVE RealRow(t, [r EXCEPT !.retries = n, !.due = d])
  <2>1. PICK s : s = [r EXCEPT !.retries = n, !.due = d]
    OBVIOUS
  <2>2. s = [kind |-> "real", image |-> m0, uri |-> u0, retries |-> n, due |-> d]
    BY <1>1, <2>1
  <2>3. RealRow(t, s)
    BY <1>2, <1>3, <2>2
  <2> QED
    BY <2>1, <2>3
<1>6. ASSUME NEW m \in ImagesOf(t), NEW n \in 0 .. MaxRetries, NEW d
      PROVE  RealRow(t, [r EXCEPT !.image = m, !.retries = n, !.due = d])
  <2>1. PICK s : s = [r EXCEPT !.image = m, !.retries = n, !.due = d]
    OBVIOUS
  <2>2. s = [kind |-> "real", image |-> m, uri |-> u0, retries |-> n, due |-> d]
    BY <1>1, <2>1
  <2>3. RealRow(t, s)
    BY <1>3, <2>2
  <2> QED
    BY <2>1, <2>3
<1> QED
  BY <1>4, <1>5, <1>6

\* A worker tries an image whose count is below the limit.
LEMMA BumpTyped ==
    ASSUME RowsTyped, MediaInv', RetriesTyped, NEW w \in Retriers, retry[w].pc # "idle", Media!Bump(w)
    PROVE  RowsTyped'
<1>1. CASE UNCHANGED row
  BY <1>1 DEF RowsTyped
<1>2. CASE ~UNCHANGED row
  <2>1. Media!Trying(w) \in Pairs(w)
    BY TryingShape
  <2>2. PICK t, c : t = Media!Trying(w).token /\ c = Media!Trying(w).count
    OBVIOUS
  <2>3. /\ w # Media!Visitor /\ Media!IsReal(row[t])
        /\ row' = [row EXCEPT ![t].retries = c + 1, ![t].due = Media!Backoff(c + 1)]
    BY <1>2, <2>2 DEF Media!Bump
  <2>4. t \in Token /\ c + 1 \in 0 .. MaxRetries
    BY <2>1, <2>2, <2>3 DEF Pairs
  <2>5. PICK d : d = Media!Backoff(c + 1)
    OBVIOUS
  <2>6. PICK r : r = [row[t] EXCEPT !.retries = c + 1, !.due = d]
    OBVIOUS
  <2>7. row' = [row EXCEPT ![t] = r]
    BY <2>3, <2>5, <2>6
  <2>8. RealRow(t, r)
    BY <2>3, <2>4, <2>6, RowChanged DEF RowsTyped
  <2> QED
    BY <2>4, <2>7, <2>8, OneRealRow
<1> QED
  BY <1>1, <1>2

LEMMA RowsStep ==
    ASSUME RowsTyped, FetchesTyped, RetriesTyped, Media!Next \/ UNCHANGED media
    PROVE  RowsTyped'
<1>0. MediaInv'
  BY MediaStep DEF RowsTyped, MediaKeeps
<1>1. CASE UNCHANGED row
  BY <1>0, <1>1 DEF RowsTyped
<1>2. CASE Media!Tick
  <2>1. row' = [t \in Token |-> IF Media!IsReal(row[t]) /\ row[t].due > 0
                                THEN [row[t] EXCEPT !.due = row[t].due - 1] ELSE row[t]]
    BY <1>2 DEF Media!Tick
  <2>2. ASSUME NEW t \in Token, Media!IsReal(row'[t]) PROVE RealRow(t, row'[t])
    <3>1. CASE row'[t] = row[t]
      BY <2>2, <3>1 DEF RowsTyped
    <3>2. CASE Media!IsReal(row[t]) /\ row'[t] = [row[t] EXCEPT !.due = row[t].due - 1]
      <4>1. PICK d : d = row[t].due - 1
        OBVIOUS
      <4>2. RealRow(t, row[t])
        BY <3>2 DEF RowsTyped
      <4>3. \A e : RealRow(t, [row[t] EXCEPT !.due = e])
        BY <4>2, RowChanged
      <4> QED
        BY <3>2, <4>1, <4>3
    <3> QED
      BY <2>1, <3>1, <3>2
  <2> QED
    BY <1>0, <2>2 DEF RowsTyped
<1>3. ASSUME NEW i \in Workers, NEW t \in Token, Media!FetchOne(i, t) PROVE RowsTyped'
  <2>1. CASE Media!MarkMissing(i, t)
    <3>1. PICK r : r = Media!Marked(t) /\ row' = [row EXCEPT ![t] = r]
      BY <2>1 DEF Media!MarkMissing
    <3>2. Media!IsReal(r) => RealRow(t, r)
      BY <3>1 DEF Media!Marked, Media!Sentinel, Media!IsReal, RowsTyped
    <3> QED
      BY <1>0, <3>1, <3>2, OneRealRow
  <2>2. CASE Media!UpsertMetadata(i, t)
    <3>1. CASE UNCHANGED row
      BY <1>1, <3>1
    <3>2. CASE row' = [row EXCEPT ![t] = Media!Upserted(i, t)]
      <4>1. PICK n, d : /\ n = IF Media!IsReal(row[t]) THEN row[t].retries ELSE 0
                        /\ d = IF Media!IsReal(row[t]) THEN row[t].due ELSE 0
        OBVIOUS
      <4>2. n \in 0 .. MaxRetries
        <5>1. CASE Media!IsReal(row[t])
          BY <4>1, <5>1 DEF RowsTyped, RealRow
        <5>2. CASE ~Media!IsReal(row[t])
          BY <4>1, <5>2
        <5> QED
          BY <5>1, <5>2
      <4>3. PICK m, u : m = fetch[i][t].image /\ u = fetch[i][t].uri
        OBVIOUS
      <4>4. m \in ImagesOf(t) /\ u \in UrisOf(t)
        BY <2>2, <4>3 DEF FetchesTyped, FetchTyped, FetchRecords, Media!UpsertMetadata, Media!At
      <4>5. PICK r : r = Media!Upserted(i, t)
        OBVIOUS
      <4>6. r = [kind |-> "real", image |-> m, uri |-> u, retries |-> n, due |-> d]
        BY <4>1, <4>3, <4>5 DEF Media!Upserted
      <4>7. RealRow(t, r)
        BY <4>2, <4>4, <4>6 DEF RealRow
      <4> QED
        BY <1>0, <3>2, <4>5, <4>7, OneRealRow
    <3> QED
      BY <2>2, <3>1, <3>2 DEF Media!UpsertMetadata
  <2>3. CASE ~Media!MarkMissing(i, t) /\ ~Media!UpsertMetadata(i, t)
    BY <1>1, <1>3, <2>3 DEF Media!FetchOne, Media!Ask, Media!SelfHostJson, Media!PutJson,
                    Media!FetchImage, Media!PutImageOf, Media!StoreThumbnails
  <2> QED
    BY <2>1, <2>2, <2>3
<1>4. ASSUME NEW w \in Retriers, Media!Retry(w) PROVE RowsTyped'
  <2>1. CASE Media!TryFails(w)
    <3>1. retry[w].pc # "idle" /\ Media!Bump(w)
      BY <1>1, <2>1 DEF Media!TryFails, Media!EveryTryCounts
    <3> QED
      BY <1>0, <3>1, BumpTyped
  <2>2. CASE Media!UpdateImageURI(w)
    <3>1. retry[w].pc # "idle"
      BY <2>2 DEF Media!UpdateImageURI
    <3>2. Media!Trying(w) \in Pairs(w)
      BY <3>1, TryingShape
    <3>3. PICK t \in Token : t = Media!Trying(w).token
      BY <3>2 DEF Pairs
    <3>4. CASE Media!Bump(w)
      BY <1>0, <3>1, <3>4, BumpTyped
    <3>5. CASE /\ Media!IsReal(row[t])
               /\ row' = [row EXCEPT ![t].image = Media!Image(t), ![t].retries = 0, ![t].due = 0]
      <4>1. PICK m : m = Media!Image(t) /\ m \in ImagesOf(t)
        BY DEF ImagesOf
      <4>2. PICK r : r = [row[t] EXCEPT !.image = m, !.retries = 0, !.due = 0]
        OBVIOUS
      <4>3. row' = [row EXCEPT ![t] = r]
        BY <3>5, <4>1, <4>2
      <4>4. RealRow(t, row[t])
        BY <3>5 DEF RowsTyped
      <4>5. \A p \in ImagesOf(t), n \in 0 .. MaxRetries : \A d :
               RealRow(t, [row[t] EXCEPT !.image = p, !.retries = n, !.due = d])
        BY <4>4, RowChanged
      <4>6. 0 \in 0 .. MaxRetries
        OBVIOUS
      <4>7. RealRow(t, r)
        BY <4>1, <4>2, <4>5, <4>6
      <4> QED
        BY <1>0, <4>3, <4>7, OneRealRow
    <3> QED
      BY <1>1, <2>2, <3>3, <3>4, <3>5 DEF Media!UpdateImageURI
  <2>3. CASE ~Media!TryFails(w) /\ ~Media!UpdateImageURI(w)
    BY <1>1, <1>4, <2>3 DEF Media!Retry, Media!ListUpstream, Media!TryFetches, Media!TryPut
  <2> QED
    BY <2>1, <2>2, <2>3
<1>5. ASSUME NEW i \in Workers, Media!MetadataWorker(i) \/ Media!Restart(i) PROVE RowsTyped'
  BY <1>1, <1>5 DEF Media!MetadataWorker, Media!ListMissing, Media!Launch, Media!Drain,
                    Media!Refill, Media!Restart
<1>6. ASSUME NEW i \in Evictors, Media!ImageStoreWorker(i) PROVE RowsTyped'
  BY <1>1, <1>6 DEF Media!ImageStoreWorker, Media!SampleImageStore, Media!EvictUnreferenced,
                    Media!DeleteBlob
<1>7. CASE UNCHANGED media
  BY <1>1, <1>7 DEF media
<1> QED
  BY <1>2, <1>3, <1>4, <1>5, <1>6, <1>7 DEF Media!Next

----------------------------------------------------------------------------
MediaTypes == RowsTyped /\ BlobsTyped /\ FetchesTyped /\ RetriesTyped

LEMMA MediaTypesStep == MediaTypes /\ (Media!Next \/ UNCHANGED media) => MediaTypes'
BY RowsStep, BlobsStep, FetchesStep, RetriesStep DEF MediaTypes

LEMMA MediaShape == MediaTypes => Media!TypeOK
<1> SUFFICES ASSUME MediaTypes PROVE Media!TypeOK
  OBVIOUS
<1>1. Media!IsInjective(blobs)
  <2>1. blobs \in Seq(Blobs) /\ Injective(blobs)
    BY DEF MediaTypes, BlobsTyped
  <2>2. DOMAIN blobs = 1 .. Len(blobs)
    BY <2>1
  <2>3. \A i, j \in DOMAIN blobs : blobs[i] = blobs[j] => i = j
    BY <2>1, <2>2 DEF Injective
  <2> QED
    BY <2>3, Zenon DEF Media!IsInjective
<1>2. ASSUME NEW i \in Workers PROVE sem[i] \in 0 .. Concurrency
  BY BusyFinite DEF MediaTypes, FetchesTyped, SlotsHeld
<1>3. ASSUME NEW t \in Token, Media!IsReal(row[t])
      PROVE  /\ row[t].retries \in 0 .. MaxRetries
             /\ row[t].image \in {Media!None, Media!Upstream, Media!Image(t)}
             /\ row[t].uri \in {Media!Upstream, Media!Json(t)}
  BY <1>3 DEF MediaTypes, RowsTyped, RealRow, ImagesOf, UrisOf
<1> QED
  BY <1>1, <1>2, <1>3 DEF Media!TypeOK

HIDE MediaAssumption

----------------------------------------------------------------------------
(* All of them together                                                    *)

\* What the components' steps keep, each its own part.
ServicesInv ==
    /\ GateInv /\ PoolInv /\ PoolShapes /\ HooksInv /\ HooksShapes
    /\ WalletInv /\ WalletShapes /\ PayoutsInv /\ SocketsInv /\ MediaTypes

\* Of each component the state keeps its shape, whichever of them runs and for every value
\* of the constants: no limit, budget, cursor, counter or queue is passed, no audit row
\* outlives its config, no blob or address is listed twice, and what a row holds is of its
\* own token.
THEOREM ServicesTypeCorrect == ServicesSpec => []ServicesTypeOK
<1>1. ServicesInit => ServicesInv
  <2> SUFFICES ASSUME ServicesInit PROVE ServicesInv
    OBVIOUS
  <2>1. Init /\ Pool!Init /\ Hooks!Init /\ Wallet!Init /\ Payouts!Init /\ Sockets!Init /\ Media!Init
    BY DEF ServicesInit
  <2>2. GateInv /\ PoolInv /\ PoolShapes /\ SocketsInv
    BY <2>1, GateInit, PoolInit, PoolShapesInit, SocketsInit
  <2>3. HooksInv /\ HooksShapes /\ WalletInv /\ WalletShapes
    BY <2>1, HooksInit, HooksShapesInit, WalletInit, WalletShapesInit
  <2>4. PayoutsInv /\ MediaTypes
    BY <2>1, PayoutsInit, MediaTypesInit DEF MediaTypes
  <2> QED
    BY <2>2, <2>3, <2>4 DEF ServicesInv
<1>2. ServicesInv /\ [ServicesNext]_services => ServicesInv'
  <2> SUFFICES ASSUME ServicesInv, [ServicesNext]_services PROVE ServicesInv'
    OBVIOUS
  <2>1. /\ [Next]_vars
        /\ Pool!Next \/ UNCHANGED pool
        /\ Hooks!Next \/ UNCHANGED hooks
        /\ Wallet!Next \/ UNCHANGED signIn
        /\ Payouts!Next \/ UNCHANGED withdrawals
        /\ Sockets!Next \/ UNCHANGED sockets
        /\ Media!Next \/ UNCHANGED media
    BY DEF ServicesNext, services, gate
  <2>2. GateInv' /\ PoolInv' /\ PoolShapes'
    BY <2>1, GateStep, PoolStep, PoolShapesStep DEF ServicesInv
  <2>3. HooksInv' /\ HooksShapes'
    BY <2>1, HooksStep, HooksShapesStep DEF ServicesInv
  <2>4. WalletInv' /\ WalletShapes'
    BY <2>1, WalletStep, WalletShapesStep DEF ServicesInv
  <2>5. PayoutsInv'
    BY <2>1, PayoutsStep DEF ServicesInv
  <2>6. SocketsInv'
    BY <2>1, SocketsStep DEF ServicesInv
  <2>7. MediaTypes'
    BY <2>1, MediaTypesStep DEF ServicesInv
  <2> QED
    BY <2>2, <2>3, <2>4, <2>5, <2>6, <2>7 DEF ServicesInv
<1>3. ServicesInv => ServicesTypeOK
  <2> SUFFICES ASSUME ServicesInv PROVE ServicesTypeOK
    OBVIOUS
  <2>1. TypeOK /\ Sockets!TypeOK
    BY DEF ServicesInv, GateInv, SocketsInv
  <2>2. Sockets!IPCountExact
    <3>1. \A a : Sockets!Cardinality(Charged(a)) = Cardinality(Charged(a))
      BY Zenon DEF Sockets!Cardinality, Cardinality
    <3> QED
      BY <3>1 DEF ServicesInv, SocketsInv, Charged, Sockets!IPCountExact
  <2>3. Pool!TypeOK /\ Hooks!TypeOK /\ Wallet!TypeOK /\ Payouts!TypeOK /\ Media!TypeOK
    BY PoolShape, HooksShape, WalletShape, PayoutsShape, MediaShape DEF ServicesInv
  <2> QED
    BY <2>1, <2>2, <2>3 DEF ServicesTypeOK
<1> QED
  BY <1>1, <1>2, <1>3, PTL DEF ServicesSpec

==============================================================================

------------------------------- MODULE Services -------------------------------
(***************************************************************************)
(* The components beside the trading core, which share no state: a step of *)
(* one changes nothing another reads, so what is true of each alone is true *)
(* of all together.  focus is the one that runs in a behaviour; the others *)
(* rest in one of their initial states.                                    *)
(***************************************************************************)
EXTENDS UpgradeGate, FiniteSets

\* Each line the constants of one component, as its module declares them (those with a
\* name another module also uses have one of their own here).
CONSTANTS
    PoolSize, Callers, Ops, Lagging, PoolBackoff, MaxChanges,
    Url, Event, Subscribed, Dispatchers, Requests, Keys, Cap, Buffer, MaxHookFaults,
    Tabs, Calls, NonceTTL, TokenTTL, BelievedTTL, MaxNonces, MaxClock, MaxRepeats,
    Address, Sweepers, PayoutBatch, MaxCredits, MaxSweepFaults,
    Clients, IP, PerIPLimit, GlobalLimit,
    Token, Says, Workers, Retriers, Evictors, Limit, Concurrency, BlobCap, AlertAt,
    EvictTo, MaxRetries, MaxMediaFaults

\* Of a component's constants, what its operations rely on.
ASSUME PoolAssumption ==
    /\ PoolSize \in Nat \ {0} /\ Lagging \subseteq 0 .. PoolSize - 1
    /\ PoolBackoff \in Nat
ASSUME SignInAssumption ==
    /\ NonceTTL \in Nat \ {0} /\ TokenTTL \in Nat \ {0} /\ BelievedTTL \in Nat
    /\ TokenTTL <= BelievedTTL \* 15 minutes and 3570 s
    /\ {MaxNonces, MaxClock, MaxRepeats} \subseteq Nat
ASSUME SocketsAssumption ==
    /\ IsFiniteSet(Clients) /\ PerIPLimit \in Nat
ASSUME HooksAssumption ==
    /\ Buffer \in Nat /\ Keys # {} /\ "none" \notin Keys
ASSUME PayoutsAssumption ==
    /\ PayoutBatch \in Nat \ {0} /\ MaxCredits \in Nat
ASSUME MediaAssumption ==
    /\ IsFiniteSet(Token) /\ Concurrency \in Nat /\ MaxRetries \in Nat

VARIABLES
    focus,
    poolState, cur, limited, caller, probe, held, taken, changes,
    configs, request, process, key, inbox, published, delivery, audit, hookFaults,
    slot, clock, issued, tab, session, cookie, call, families, repeats,
    owed, events, order, seeded, sweep, credits, sweepFaults,
    pc, ipCounters, conns,
    row, blobs, thumbs, fetch, sem, draining, retry, evict, mediaFaults

gate == vars
pool == <<poolState, cur, limited, caller, probe, held, taken, changes>>
hooks == <<configs, request, process, key, inbox, published, delivery, audit, hookFaults>>
signIn == <<slot, clock, issued, tab, session, cookie, call, families, repeats>>
withdrawals == <<owed, events, order, seeded, sweep, credits, sweepFaults>>
sockets == <<pc, ipCounters, conns>>
media == <<row, blobs, thumbs, fetch, sem, draining, retry, evict, mediaFaults>>
services == <<focus, gate, pool, hooks, signIn, withdrawals, sockets, media>>

Pool == INSTANCE RpcPool WITH N <- PoolSize, Backoff <- PoolBackoff, state <- poolState

Hooks == INSTANCE WebhookDelivery WITH
    Instances <- Dispatchers, MaxFaults <- MaxHookFaults, faults <- hookFaults

Wallet == INSTANCE SignIn WITH MaxTime <- MaxClock, now <- clock

Payouts == INSTANCE Withdrawals WITH
    Instances <- Sweepers, Batch <- PayoutBatch, MaxFaults <- MaxSweepFaults,
    row <- seeded, faults <- sweepFaults

Sockets == INSTANCE WsAdmission

Media == INSTANCE TokenMedia WITH
    Instances <- Workers, Cap <- BlobCap, MaxFaults <- MaxMediaFaults, faults <- mediaFaults

\* One initial state of a component that rests.
AtRest(f) == focus # f =>
    CASE f = "gate" -> admin = keeper /\ admin = CHOOSE a \in Account : TRUE
      [] f = "pool" -> \A e \in DOMAIN poolState : poolState[e] = "ok"
      [] f = "hooks" -> \A i \in DOMAIN key : key[i] = CHOOSE k \in Keys : TRUE

ServicesInit ==
    /\ focus \in {"gate", "pool", "hooks", "signIn", "withdrawals", "sockets", "media"}
    /\ Init /\ Pool!Init /\ Hooks!Init /\ Wallet!Init /\ Payouts!Init /\ Sockets!Init /\ Media!Init
    /\ \A f \in {"gate", "pool", "hooks"} : AtRest(f)

ServicesNext ==
    \/ /\ focus = "gate" /\ Next
       /\ UNCHANGED <<focus, pool, hooks, signIn, withdrawals, sockets, media>>
    \/ /\ focus = "pool" /\ Pool!Next
       /\ UNCHANGED <<focus, gate, hooks, signIn, withdrawals, sockets, media>>
    \/ /\ focus = "hooks" /\ Hooks!Next
       /\ UNCHANGED <<focus, gate, pool, signIn, withdrawals, sockets, media>>
    \/ /\ focus = "signIn" /\ Wallet!Next
       /\ UNCHANGED <<focus, gate, pool, hooks, withdrawals, sockets, media>>
    \/ /\ focus = "withdrawals" /\ Payouts!Next
       /\ UNCHANGED <<focus, gate, pool, hooks, signIn, sockets, media>>
    \/ /\ focus = "sockets" /\ Sockets!Next
       /\ UNCHANGED <<focus, gate, pool, hooks, signIn, withdrawals, media>>
    \/ /\ focus = "media" /\ Media!Next
       /\ UNCHANGED <<focus, gate, pool, hooks, signIn, withdrawals, sockets>>

\* The fairness of each component, where it runs: each module's Fairness, of its actions
\* taken in focus.
ServicesFairness ==
    /\ WF_withdrawals(focus = "withdrawals" /\ Payouts!SeedPendingWithdrawal)
    /\ \A i \in Sweepers : WF_withdrawals(focus = "withdrawals" /\ Payouts!Sweeper(i))
    /\ WF_media(focus = "media" /\ Media!Tick)
    /\ \A i \in Workers : /\ WF_media(focus = "media" /\ Media!MetadataWorker(i))
                        /\ \A t \in Token : WF_media(focus = "media" /\ Media!FetchOne(i, t))
    /\ \A i \in Retriers \ {Media!Visitor} : WF_media(focus = "media" /\ Media!Retry(i))

ServicesSpec == ServicesInit /\ [][ServicesNext]_services /\ ServicesFairness

----------------------------------------------------------------------------
\* Every component's state keeps its shape; in Sockets, the per-address counters
\* (acquireIP, releaseIP) count the handshakes admitted and not yet gone.
ServicesTypeOK ==
    /\ TypeOK /\ Pool!TypeOK /\ Hooks!TypeOK /\ Wallet!TypeOK /\ Payouts!TypeOK
    /\ Sockets!TypeOK /\ Sockets!IPCountExact /\ Media!TypeOK

\* rpcpool: a transaction reported as sent is held by an endpoint, whatever answers
\* were lost, and logs two endpoints agreed on are all there is.
PoolAnswersHold == Pool!SentIsHeld /\ Pool!AgreedIsComplete

\* webhook: every delivery ends inside its budget with its last answer audited, and
\* none goes out unsigned for a secret that could not be read.
DeliveriesHold == Hooks!BudgetCoversRetries /\ Hooks!AuditedAsSent /\ Hooks!NeverUnsigned

\* Sign-in: one session for a nonce, and no call that authenticated again is refused.
SessionsHold == Wallet!SessionPerNonce /\ Wallet!NeverRefused

\* The withdrawal sweepers: once the chain is quiet, the rows that are there are right.
RowsSettle == Payouts!RowsSettle

\* A real metadata row is never replaced by the sentinel of a failed fetch, every token
\* gets its row, and every image not hosted has had its tries.
MediaSettles ==
    /\ Media!RealRowsStay
    /\ focus = "media" => Media!MetadataArrives
    /\ Media!ImagesSettle
==============================================================================

----------------------------- MODULE KeeperSender -----------------------------
(***************************************************************************)
(* The keeper's three goroutines, which settle an ended auction, refund    *)
(* its losing bidders and refund expired offers, all from one account.     *)
(* sendRaw reads the account's pending nonce, looks at the last nonce      *)
(* sent, broadcasts and notes it, each at its own time.                    *)
(* Nonces are counted from the next one the chain will take, so that 0 is  *)
(* that one and Used stands for every one already taken.                   *)
(***************************************************************************)
EXTENDS Integers, FiniteSets, SequencesExt

CONSTANTS
    Bidders,      \* numbers; the highest is the one the contract sells to
    OfferIds,     \* the offers that may have expired
    BatchSize,    \* losers of one refundLosers transaction
    Page,         \* rows the offer sweeper selects
    Slots,        \* bound: transactions waiting in the pool
    Faults,       \* bound: calls that fail, answers that lie, lost transactions
    BidsFirst     \* whether every bid is indexed before the settlement

ASSUME SenderAssumption ==
    /\ Bidders \subseteq Nat \ {0} /\ IsFiniteSet(Bidders) /\ Bidders # {}
    /\ {BatchSize, Page, Slots} \subseteq Nat \ {0} /\ Faults \in Nat
    /\ BidsFirst \in BOOLEAN

VARIABLES
    chain,     \* settled, the bidders with escrow, the offers with a position
    pool,      \* the account's waiting transactions by nonce
    rows,      \* what the database says
    worker,    \* the goroutines
    lastNonce, \* Runner.lastNonce, and whether it is younger than lastNonceTTL
    faultsLeft \* of the calls that may fail

senderVars == <<chain, pool, rows, worker, lastNonce, faultsLeft>>

Workers == {"auction", "losers", "offers"}
Used == -1
NoTx == [job |-> "none", for |-> {}, by |-> "nobody", batch |-> 0]
Highest(S) == CHOOSE b \in S : \A c \in S : c <= b
Losers == Bidders \ {Highest(Bidders)}

Resting == [pc |-> "idle", todo |-> <<>>, batch |-> 0, nonce |-> Used, winner |-> 0,
            fate |-> <<>>]

SenderInit ==
    \E expired \in {<<>>, SetToSeq(OfferIds)} :
        /\ chain = [settled |-> FALSE, escrow |-> Bidders, positions |-> OfferIds]
        /\ pool = [n \in 0 .. Slots - 1 |-> NoTx]
        /\ rows = [status |-> "active", bids |-> {}, refunded |-> FALSE,
                   attempted |-> FALSE, expired |-> expired]
        /\ worker = [w \in Workers |-> Resting]
        /\ lastNonce = [nonce |-> Used, young |-> FALSE]
        /\ faultsLeft = Faults

Fault == faultsLeft > 0 /\ faultsLeft' = faultsLeft - 1
NoFault == UNCHANGED faultsLeft
Set(w, r) == worker' = [worker EXCEPT ![w] = r]
At(w, pc) == worker[w].pc = pc

----------------------------------------------------------------------------
(* The chain, its pool of transactions and the indexer.                    *)

Executes(tx) ==
    \/ tx.job = "settle" /\ ~chain.settled
    \/ tx.job = "refund" /\ chain.settled
    \/ tx.job = "offer" /\ tx.for \subseteq chain.positions

Effect(tx) ==
    CASE tx.job = "settle" -> [chain EXCEPT !.settled = TRUE, !.escrow = Losers]
      [] tx.job = "refund" -> [chain EXCEPT !.escrow = @ \ tx.for]
      [] tx.job = "offer"  -> [chain EXCEPT !.positions = @ \ tx.for]

\* The worker that waits for the transaction learns its fate.
Told(ws, tx, fate) ==
    IF tx.by \in Workers THEN [ws EXCEPT ![tx.by].fate[tx.batch] = fate] ELSE ws

Down(n) == IF n = Used THEN Used ELSE n - 1

Mine ==
    /\ pool[0] # NoTx
    /\ LET ok == Executes(pool[0])
           ws == Told(worker, pool[0], IF ok THEN "mined" ELSE "reverted")
       IN  /\ chain' = IF ok THEN Effect(pool[0]) ELSE chain
           /\ worker' = [w \in Workers |-> [ws[w] EXCEPT !.nonce = Down(@)]]
    /\ pool' = [n \in DOMAIN pool |-> IF n + 1 \in DOMAIN pool THEN pool[n + 1] ELSE NoTx]
    /\ lastNonce' = [lastNonce EXCEPT !.nonce = Down(@)]
    /\ UNCHANGED <<rows, faultsLeft>>

\* A node forgets a transaction it has accepted.
Drop(n) ==
    /\ pool[n] # NoTx /\ Fault
    /\ pool' = [pool EXCEPT ![n] = NoTx]
    /\ UNCHANGED <<chain, rows, worker, lastNonce>>

\* The seller or the winner settles first.
OthersSettle ==
    /\ ~chain.settled
    /\ chain' = [chain EXCEPT !.settled = TRUE, !.escrow = Losers]
    /\ UNCHANGED <<pool, rows, worker, lastNonce, faultsLeft>>

IndexBid(b) ==
    /\ b \notin rows.bids
    /\ rows' = [rows EXCEPT !.bids = @ \cup {b}]
    /\ UNCHANGED <<chain, pool, worker, lastNonce, faultsLeft>>

IndexSettled ==
    /\ chain.settled /\ rows.status = "active"
    /\ BidsFirst => rows.bids = Bidders
    /\ rows' = [rows EXCEPT !.status = "settled"]
    /\ UNCHANGED <<chain, pool, worker, lastNonce, faultsLeft>>

----------------------------------------------------------------------------
(* What each goroutine finds to do at its tick.                            *)

Work(job, for) == [job |-> job, for |-> for]
Sending(work) == [Resting EXCEPT !.pc = "read", !.todo = work,
                              !.fate = [i \in DOMAIN work |-> "unsent"], !.batch = 1]

SelectExpiredAuctions ==
    /\ At("auction", "idle") /\ rows.status = "active"
    /\ Set("auction", Sending(<<Work("settle", {})>>))
    /\ UNCHANGED <<chain, pool, rows, lastNonce, faultsLeft>>

\* The winner is read with the auction, the bids in a query of their own.
SelectUnrefunded ==
    /\ At("losers", "idle")
    /\ rows.status = "settled" /\ ~rows.refunded /\ ~rows.attempted
    /\ Set("losers", [Resting EXCEPT !.pc = "collect",
                                  !.winner = IF rows.bids = {} THEN 0 ELSE Highest(rows.bids)])
    /\ UNCHANGED <<chain, pool, rows, lastNonce, faultsLeft>>

\* losers[start:end], the losers taken in the order of their numbers.
Batch(S, i) == {b \in S : Cardinality({c \in S : c < b}) \div BatchSize = i - 1}

Batches(S) ==
    [i \in 1 .. (Cardinality(S) + BatchSize - 1) \div BatchSize |->
        Work("refund", Batch(S, i))]

CollectLosers ==
    /\ At("losers", "collect")
    /\ LET losers == rows.bids \ {worker["losers"].winner} IN
       IF losers = {}
       THEN /\ \/ rows' = [rows EXCEPT !.refunded = TRUE] /\ NoFault
               \/ UNCHANGED rows /\ Fault
            /\ Set("losers", Resting)
       ELSE /\ \/ Set("losers", Sending(Batches(losers))) /\ NoFault
               \/ Set("losers", Resting) /\ Fault
            /\ UNCHANGED rows
    /\ UNCHANGED <<chain, pool, lastNonce>>

\* No ORDER BY: the page is the first rows of the table.
SelectExpiredOffers ==
    /\ At("offers", "idle") /\ rows.expired # <<>>
    /\ LET first == SubSeq(rows.expired, 1, IF Len(rows.expired) < Page THEN Len(rows.expired)
                                            ELSE Page)
       IN  Set("offers", Sending([i \in DOMAIN first |-> Work("offer", {first[i]})]))
    /\ UNCHANGED <<chain, pool, rows, lastNonce, faultsLeft>>

----------------------------------------------------------------------------
(* sendRaw, in the steps another goroutine can get between.                *)

\* What follows when a transaction was sent, and when it was not.
NextWork(w) == IF w.batch = Len(w.todo) THEN Resting
               ELSE [w EXCEPT !.pc = "read", !.batch = @ + 1, !.nonce = Used]
Sent(who, w) ==
    CASE who = "auction" -> [w EXCEPT !.pc = "wait", !.nonce = Used]
      [] who = "losers"  -> IF w.batch < Len(w.todo) THEN NextWork(w)
                            ELSE [w EXCEPT !.pc = "wait", !.nonce = Used, !.batch = 1]
      [] who = "offers"  -> NextWork([w EXCEPT !.fate[w.batch] = "forgotten"])
NotSent(who, w) ==
    IF who = "losers" THEN [w EXCEPT !.pc = "attempt", !.nonce = Used] ELSE NextWork(w)

\* Transactions nobody waits for any more keep their place in the pool.
Forget(p, who) == [n \in DOMAIN p |-> IF p[n].by = who THEN [p[n] EXCEPT !.by = "nobody"]
                                      ELSE p[n]]
ForgetUnless(p, who, w) == IF w.pc \in {"idle", "attempt"} THEN Forget(p, who) ELSE p

Pending == {n \in DOMAIN pool : \A m \in 0 .. n : pool[m] # NoTx}
PendingNonce == Cardinality(Pending)

\* A node that has not seen the last block or transactions answers with a smaller number.
ReadNonce(who) ==
    /\ At(who, "read")
    /\ LET w == worker[who] IN
       \/ Set(who, [w EXCEPT !.pc = "guard", !.nonce = PendingNonce]) /\ NoFault
          /\ UNCHANGED pool
       \/ \E n \in Used .. PendingNonce - 1 :
             Set(who, [w EXCEPT !.pc = "guard", !.nonce = n]) /\ Fault /\ UNCHANGED pool
       \/ Set(who, NotSent(who, w)) /\ Fault /\ pool' = ForgetUnless(pool, who, NotSent(who, w))
    /\ UNCHANGED <<chain, rows, lastNonce>>

\* Mutation: the guard never expires.
AlreadySentForever(n) == lastNonce.nonce = n /\ n # Used

AlreadySent(n) == lastNonce.nonce = n /\ lastNonce.young

CheckLastNonce(who) ==
    /\ At(who, "guard")
    /\ LET w == worker[who] IN
       IF AlreadySent(w.nonce)
       THEN Set(who, NotSent(who, w)) /\ pool' = ForgetUnless(pool, who, NotSent(who, w))
       ELSE Set(who, [w EXCEPT !.pc = "send"]) /\ UNCHANGED pool
    /\ UNCHANGED <<chain, rows, lastNonce, faultsLeft>>

Tx(who, w) == [job |-> w.todo[w.batch].job, for |-> w.todo[w.batch].for,
               by |-> IF who = "offers" THEN "nobody" ELSE who, batch |-> w.batch]

\* A taken nonce is refused, or its transaction replaced if the fee rose; so is one
\* already used, or past a full pool. An accepted broadcast may be answered with an
\* error all the same.
SendTransaction(who) ==
    /\ At(who, "send")
    /\ LET w == worker[who]
           free == w.nonce \in DOMAIN pool /\ pool[w.nonce] = NoTx
           taken == w.nonce \in DOMAIN pool /\ pool[w.nonce] # NoTx
           put(by) == [pool EXCEPT ![w.nonce] = [Tx(who, w) EXCEPT !.by = by]]
           sent == [w EXCEPT !.pc = "record", !.fate[w.batch] = "sent"]
       IN  \/ /\ free /\ NoFault
              /\ Set(who, sent) /\ pool' = put(Tx(who, w).by)
           \/ /\ taken /\ Fault
              /\ Set(who, sent) /\ pool' = put(Tx(who, w).by)
           \/ /\ ~free /\ NoFault
              /\ Set(who, NotSent(who, w)) /\ pool' = ForgetUnless(pool, who, NotSent(who, w))
           \/ /\ free /\ Fault
              /\ Set(who, NotSent(who, w))
              /\ pool' \in {ForgetUnless(pool, who, NotSent(who, w)),
                            ForgetUnless(put("nobody"), who, NotSent(who, w))}
    /\ UNCHANGED <<chain, rows, lastNonce>>

RecordNonce(who) ==
    /\ At(who, "record")
    /\ lastNonce' = [nonce |-> worker[who].nonce, young |-> TRUE]
    /\ Set(who, Sent(who, worker[who]))
    /\ UNCHANGED <<chain, pool, rows, faultsLeft>>

\* lastNonceTTL passes: what the chain could take it has taken by then, or it is late.
NonceAges ==
    /\ lastNonce.young
    /\ IF lastNonce.nonce \in Pending THEN Fault ELSE NoFault
    /\ lastNonce' = [lastNonce EXCEPT !.young = FALSE]
    /\ UNCHANGED <<chain, pool, rows, worker>>

----------------------------------------------------------------------------
(* waitMined and what follows.                                             *)

\* The auction keeper goes on to the next tick whatever it learned.
SettleWaited ==
    /\ At("auction", "wait")
    /\ Set("auction", Resting) /\ pool' = Forget(pool, "auction")
    /\ UNCHANGED <<chain, rows, lastNonce, faultsLeft>>

\* Mutation: a broadcast counts as done.
BatchConfirmedUnmined(w) == w.fate[w.batch] # "reverted"

BatchConfirmed(w) == w.fate[w.batch] = "mined"

\* A transaction the chain can take next is mined within a minute; no other is.
CanBeMined(w) == \E n \in Pending : pool[n].by = "losers" /\ pool[n].batch = w.batch

RefundWaited ==
    /\ At("losers", "wait")
    /\ LET w == worker["losers"] IN
       \/ /\ BatchConfirmed(w) /\ NoFault
          /\ Set("losers", IF w.batch < Len(w.todo) THEN [w EXCEPT !.batch = @ + 1]
                           ELSE [w EXCEPT !.pc = "mark"])
          /\ UNCHANGED pool
       \/ /\ ~BatchConfirmed(w)
          /\ IF CanBeMined(w) THEN Fault ELSE NoFault
          /\ Set("losers", [w EXCEPT !.pc = "attempt"]) /\ pool' = Forget(pool, "losers")
    /\ UNCHANGED <<chain, rows, lastNonce>>

MarkLosersRefunded ==
    /\ At("losers", "mark")
    /\ \/ rows' = [rows EXCEPT !.refunded = TRUE] /\ NoFault
       \/ UNCHANGED rows /\ Fault
    /\ Set("losers", Resting)
    /\ UNCHANGED <<chain, pool, lastNonce>>

SetRefundAttempt ==
    /\ At("losers", "attempt")
    /\ \/ rows' = [rows EXCEPT !.attempted = TRUE] /\ NoFault
       \/ UNCHANGED rows /\ Fault
    /\ Set("losers", Resting)
    /\ UNCHANGED <<chain, pool, lastNonce>>

\* Two minutes after the attempt the auction is selected again.
AttemptAges ==
    /\ rows.attempted
    /\ IF \E n \in Pending : pool[n].job = "refund" THEN Fault ELSE NoFault
    /\ rows' = [rows EXCEPT !.attempted = FALSE]
    /\ UNCHANGED <<chain, pool, worker, lastNonce>>

\* The process dies and starts again, or leadership goes and comes back.
Interrupt ==
    /\ Fault
    /\ worker' = [w \in Workers |-> Resting]
    /\ pool' = [n \in DOMAIN pool |-> IF pool[n] = NoTx THEN NoTx
                                      ELSE [pool[n] EXCEPT !.by = "nobody"]]
    /\ lastNonce' \in {lastNonce, [nonce |-> Used, young |-> FALSE]}
    /\ UNCHANGED <<chain, rows>>

----------------------------------------------------------------------------
SendRaw(who) == \/ ReadNonce(who) \/ CheckLastNonce(who) \/ SendTransaction(who)
                \/ RecordNonce(who)
AuctionKeeper == SelectExpiredAuctions \/ SendRaw("auction") \/ SettleWaited
LoserSweeper == \/ SelectUnrefunded \/ CollectLosers \/ SendRaw("losers")
                \/ RefundWaited \/ MarkLosersRefunded \/ SetRefundAttempt
OfferSweeper == SelectExpiredOffers \/ SendRaw("offers")
Ages == NonceAges \/ AttemptAges
Indexer == IndexSettled \/ \E b \in Bidders : IndexBid(b)

SenderNext ==
    \/ Mine \/ \E n \in DOMAIN pool : Drop(n)
    \/ OthersSettle \/ Indexer \/ Ages \/ Interrupt
    \/ AuctionKeeper \/ LoserSweeper \/ OfferSweeper

\* Blocks are mined, the indexer follows, time passes and the goroutines run.
SenderFairness ==
    /\ WF_senderVars(Mine) /\ WF_senderVars(Indexer)
    /\ WF_senderVars(NonceAges) /\ WF_senderVars(AttemptAges)
    /\ WF_senderVars(AuctionKeeper) /\ WF_senderVars(LoserSweeper)
    /\ WF_senderVars(OfferSweeper)

SenderSpec == SenderInit /\ [][SenderNext]_senderVars
FairSender == SenderSpec /\ SenderFairness

----------------------------------------------------------------------------
(* Properties.                                                             *)

Fates == {"unsent", "sent", "mined", "reverted", "forgotten"}

\* Also that no batch of refundLosers is empty or longer than refundBatchSize.
SenderTypeOK ==
    /\ chain \in [settled : BOOLEAN, escrow : SUBSET Bidders, positions : SUBSET OfferIds]
    /\ DOMAIN pool = 0 .. Slots - 1
    /\ \A n \in DOMAIN pool : pool[n].by \in Workers =>
          pool[n].batch \in DOMAIN worker[pool[n].by].fate
    /\ rows.status \in {"active", "settled"} /\ rows.bids \subseteq Bidders
    /\ \A tx \in ToSet(worker["losers"].todo) :
          tx.for # {} /\ tx.for \subseteq Bidders /\ Cardinality(tx.for) <= BatchSize
    /\ \A w \in Workers : /\ worker[w].nonce \in Used .. Slots
                          /\ \A i \in DOMAIN worker[w].fate : worker[w].fate[i] \in Fates
    /\ lastNonce.nonce \in Used .. Slots /\ faultsLeft \in 0 .. Faults

\* keeper_refund.go:120: a broadcast that never lands must not close an auction. Once
\* losers_refunded is set, no losing bidder of the auction has escrow in the contract.
RefundedMeansPaid == rows.refunded => chain.escrow \cap Losers = {}

\* Every auction is settled and its losers paid and marked, whatever was dropped,
\* replaced, refused or answered wrongly on the way; offers compete for the nonces
\* and are left out.
AuctionCloses == rows.expired = <<>> => <>(chain.settled /\ chain.escrow = {} /\ rows.refunded)

\* runner.go:1512: expired offers are refunded without the bidder's help.
OffersRefunded == <>(\A i \in DOMAIN rows.expired : rows.expired[i] \notin chain.positions)
==============================================================================

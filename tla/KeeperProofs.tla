---------------------------- MODULE KeeperProofs ----------------------------
(***************************************************************************)
(* The keepers: what one instance's keeper sends (KeeperSender), for any    *)
(* number of bidders and offers, batches and pages of any size, a pool of   *)
(* any depth and any number of faults; and which instance runs the keepers  *)
(* (KeeperElection), for any number of instances, any thresholds, and any   *)
(* number of crashes and faults.                                            *)
(***************************************************************************)
EXTENDS KeeperElection, KeeperSender, FiniteSetTheorems, SequenceTheorems, TLAPS

----------------------------------------------------------------------------
(* The sender: its inductive invariant                                     *)

\* The loser sweeper.
Sweeper == worker["losers"]

Refunding == {"read", "guard", "send", "record", "wait", "mark"}

Refund == [job : {"refund"}, for : SUBSET Bidders]

\* Its record, but for the nonce, on which nothing here depends.
SweeperRecord(n) ==
    [pc : {"idle", "collect", "attempt"} \cup Refunding, todo : Seq(Refund), batch : Nat,
     nonce : {n}, winner : {0, Highest(Bidders)}, fate : Seq(Fates)]

TxFields == {"job", "for", "by", "batch"}

Typed ==
    /\ chain \in [settled : BOOLEAN, escrow : SUBSET Bidders, positions : SUBSET OfferIds]
    /\ rows \in [status : {"active", "settled"}, bids : SUBSET Bidders, refunded : BOOLEAN,
                 attempted : BOOLEAN, expired : {rows.expired}]
    /\ DOMAIN worker = Workers
    /\ Sweeper \in SweeperRecord(Sweeper.nonce)
    /\ DOMAIN pool = 0 .. Slots - 1
    /\ \A n \in DOMAIN pool : DOMAIN pool[n] = TxFields

\* What the rows say is behind the chain and never ahead of it.
RowsFollow ==
    /\ rows.status = "settled" => chain.settled /\ rows.bids = Bidders
    /\ chain.settled => chain.escrow \subseteq Losers
    /\ rows.refunded => chain.settled /\ chain.escrow = {}

\* The batches of sweep r hold every loser.
CoversLosers(r) ==
    /\ Len(r.fate) = Len(r.todo)
    /\ r.batch \in 1 .. Len(r.todo)
    /\ \A b \in Losers : \E i \in 1 .. Len(r.todo) : b \in r.todo[i].for

\* A batch that was mined left nothing of its bidders in the contract, and those the
\* sweep has done with were mined.
MinedIsPaid(r) ==
    /\ \A i \in 1 .. Len(r.todo) : r.fate[i] = "mined" => r.todo[i].for \cap chain.escrow = {}
    /\ r.pc = "wait" => \A i \in 1 .. r.batch - 1 : r.fate[i] = "mined"
    /\ r.pc = "mark" => \A i \in 1 .. Len(r.todo) : r.fate[i] = "mined"

SweepInv(r) ==
    /\ r.pc # "idle" => rows.status = "settled"
    /\ r.pc = "collect" => r.winner = Highest(Bidders)
    /\ r.pc \in Refunding => CoversLosers(r) /\ MinedIsPaid(r)

\* A transaction the sweeper waits for is the one of its batch, not yet mined, and of
\* a batch it has come to.
Waited(tx, r) == tx.by = "losers" =>
    /\ r.pc \in Refunding
    /\ tx.batch \in 1 .. Len(r.todo) /\ tx.job = "refund" /\ tx.for = r.todo[tx.batch].for
    /\ r.fate[tx.batch] = "sent"
    /\ r.pc \in {"read", "guard", "send"} => tx.batch < r.batch
    /\ r.pc = "record" => tx.batch <= r.batch

\* It waits for one transaction of a batch.
OneEach(p) ==
    \A m, n \in DOMAIN p :
        m # n /\ p[m].by = "losers" /\ p[n].by = "losers" => p[m].batch # p[n].batch

SenderInv ==
    /\ Typed /\ RowsFollow /\ SweepInv(Sweeper) /\ OneEach(pool)
    /\ \A n \in DOMAIN pool : Waited(pool[n], Sweeper)

USE SenderAssumption

----------------------------------------------------------------------------
(* The beginning, and steps that leave chain, rows and sweeper alone       *)

LEMMA RestingRecord == Resting \in SweeperRecord(Resting.nonce) /\ Resting.pc = "idle"
<1>1. <<>> \in Seq(Refund) /\ <<>> \in Seq(Fates)
  BY EmptySeq
<1> QED
  BY <1>1 DEF Resting, SweeperRecord

LEMMA InitSenderInv == SenderInit => SenderInv
<1> SUFFICES ASSUME SenderInit PROVE SenderInv
  OBVIOUS
<1>1. PICK expired : rows = [status |-> "active", bids |-> {}, refunded |-> FALSE,
                             attempted |-> FALSE, expired |-> expired]
  BY DEF SenderInit
<1>2. /\ chain = [settled |-> FALSE, escrow |-> Bidders, positions |-> OfferIds]
      /\ pool = [n \in 0 .. Slots - 1 |-> NoTx]
      /\ worker = [w \in Workers |-> Resting]
  BY DEF SenderInit
<1>3. Sweeper = Resting /\ Resting \in SweeperRecord(Resting.nonce) /\ Resting.pc = "idle"
  BY <1>2, RestingRecord DEF Sweeper, Workers
<1>4. Typed
  BY <1>1, <1>2, <1>3 DEF Typed, NoTx, TxFields
<1>5. \A n \in DOMAIN pool : pool[n].by = "nobody"
  BY <1>2 DEF NoTx
<1> QED
  BY <1>1, <1>2, <1>3, <1>4, <1>5
     DEF SenderInv, RowsFollow, SweepInv, Refunding, OneEach, Waited

\* What a step that leaves chain, rows and sweeper may do to the pool: whatever waits
\* for the sweeper afterwards did before, under the same nonce.
PoolLoses ==
    /\ DOMAIN pool' = DOMAIN pool
    /\ \A n \in DOMAIN pool :
          /\ DOMAIN pool'[n] = TxFields
          /\ pool'[n].by = "losers" =>
                /\ pool[n].by = "losers" /\ pool'[n].batch = pool[n].batch
                /\ pool'[n].job = pool[n].job /\ pool'[n].for = pool[n].for

LEMMA OthersKeep ==
    ASSUME SenderInv, UNCHANGED <<chain, rows>>, DOMAIN worker' = Workers, Sweeper' = Sweeper,
           PoolLoses
    PROVE  SenderInv'
<1>1. Typed'
  BY DEF SenderInv, Typed, PoolLoses
<1>2. RowsFollow' /\ SweepInv(Sweeper)'
  BY DEF SenderInv, RowsFollow, SweepInv, CoversLosers, MinedIsPaid
<1>3. OneEach(pool)'
  BY DEF SenderInv, OneEach, PoolLoses
<1>4. (\A n \in DOMAIN pool : Waited(pool[n], Sweeper))'
  BY DEF SenderInv, Waited, PoolLoses
<1> QED
  BY <1>1, <1>2, <1>3, <1>4 DEF SenderInv

\* The pool untouched.
LEMMA PoolSame ==
    ASSUME SenderInv, UNCHANGED pool
    PROVE  PoolLoses
  BY DEF SenderInv, Typed, PoolLoses

\* A transaction of another worker, or of nobody, and that worker forgetting its own.
LEMMA OthersPut ==
    ASSUME SenderInv, NEW q, NEW who, DOMAIN q = DOMAIN pool,
           \A n \in DOMAIN pool : q[n] = pool[n] \/ (DOMAIN q[n] = TxFields /\ q[n].by # "losers"),
           pool' \in {Forget(q, who), q}
    PROVE  PoolLoses
<1>1. \A n \in DOMAIN pool : DOMAIN q[n] = TxFields
  BY DEF SenderInv, Typed
<1>2. CASE pool' = q
  BY <1>1, <1>2 DEF PoolLoses
<1>3. CASE pool' = Forget(q, who)
  BY <1>1, <1>3 DEF TxFields, PoolLoses, Forget
<1> QED
  BY <1>2, <1>3

\* A worker that only forgets.
LEMMA ForgetLoses ==
    ASSUME SenderInv, NEW who, pool' \in {Forget(pool, who), pool}
    PROVE  PoolLoses
  BY OthersPut

\* What another worker does is nothing to the sweeper.
LEMMA SetOther ==
    ASSUME SenderInv, NEW who \in {"auction", "offers"}, NEW r, Set(who, r)
    PROVE  DOMAIN worker' = Workers /\ Sweeper' = Sweeper
  BY DEF SenderInv, Typed, Set, Sweeper, Workers

----------------------------------------------------------------------------
(* The steps of the other two workers                                      *)

LEMMA OthersSend ==
    ASSUME SenderInv, NEW who \in {"auction", "offers"}, SendRaw(who)
    PROVE  SenderInv'
<1>1. CASE ReadNonce(who)
  <2>1. /\ \E r : Set(who, r)
        /\ pool' \in {Forget(pool, who), pool} /\ UNCHANGED <<chain, rows>>
    BY <1>1 DEF ReadNonce, ForgetUnless
  <2> QED
    BY <2>1, SetOther, ForgetLoses, OthersKeep
<1>2. CASE CheckLastNonce(who)
  <2>1. /\ \E r : Set(who, r)
        /\ pool' \in {Forget(pool, who), pool} /\ UNCHANGED <<chain, rows>>
    BY <1>2 DEF CheckLastNonce, ForgetUnless
  <2> QED
    BY <2>1, SetOther, ForgetLoses, OthersKeep
<1>3. CASE SendTransaction(who)
  <2>1. PICK w, by : /\ w = worker[who]
                     /\ by \in {Tx(who, w).by, "nobody"}
                     /\ \E r : Set(who, r)
                     /\ \/ pool' \in {Forget(pool, who), pool}
                        \/ \E q : /\ q = [pool EXCEPT ![w.nonce] = [Tx(who, w) EXCEPT !.by = by]]
                                  /\ pool' \in {Forget(q, who), q}
    BY <1>3 DEF SendTransaction, ForgetUnless
  <2>2. PICK tx : /\ tx = [Tx(who, w) EXCEPT !.by = by]
                  /\ DOMAIN tx = TxFields /\ tx.by # "losers"
    BY <2>1 DEF Tx, TxFields
  <2>3. PoolLoses
    <3>1. CASE pool' \in {Forget(pool, who), pool}
      BY <3>1, ForgetLoses
    <3>2. PICK q : q = [pool EXCEPT ![w.nonce] = tx]
      OBVIOUS
    <3>3. /\ DOMAIN q = DOMAIN pool
          /\ \A n \in DOMAIN pool : q[n] = pool[n] \/ (DOMAIN q[n] = TxFields /\ q[n].by # "losers")
      BY <2>2, <3>2
    <3>4. CASE pool' \in {Forget(q, who), q}
      BY <3>3, <3>4, OthersPut
    <3> QED
      BY <2>1, <2>2, <3>1, <3>2, <3>4
  <2>4. UNCHANGED <<chain, rows>>
    BY <1>3 DEF SendTransaction
  <2> QED
    BY <2>1, <2>3, <2>4, SetOther, OthersKeep
<1>4. CASE RecordNonce(who)
  <2>1. Set(who, Sent(who, worker[who])) /\ UNCHANGED <<chain, pool, rows>>
    BY <1>4 DEF RecordNonce
  <2> QED
    BY <2>1, SetOther, PoolSame, OthersKeep
<1> QED
  BY <1>1, <1>2, <1>3, <1>4 DEF SendRaw

\* A tick of either, and the end of a wait for the settlement.
LEMMA OthersStep ==
    ASSUME SenderInv, AuctionKeeper \/ OfferSweeper
    PROVE  SenderInv'
<1>1. CASE SelectExpiredAuctions
  <2>1. (\E r : Set("auction", r)) /\ UNCHANGED <<chain, pool, rows>>
    BY <1>1 DEF SelectExpiredAuctions
  <2> QED
    BY <2>1, SetOther, PoolSame, OthersKeep
<1>2. CASE SelectExpiredOffers
  <2>1. (\E r : Set("offers", r)) /\ UNCHANGED <<chain, pool, rows>>
    BY <1>2 DEF SelectExpiredOffers
  <2> QED
    BY <2>1, SetOther, PoolSame, OthersKeep
<1>3. CASE SettleWaited
  <2>1. /\ Set("auction", Resting) /\ pool' = Forget(pool, "auction") /\ UNCHANGED <<chain, rows>>
    BY <1>3 DEF SettleWaited
  <2> QED
    BY <2>1, SetOther, ForgetLoses, OthersKeep
<1> QED
  BY <1>1, <1>2, <1>3, OthersSend DEF AuctionKeeper, OfferSweeper

----------------------------------------------------------------------------
(* The chain, the indexer and the clock                                    *)

LEMMA DropStep ==
    ASSUME SenderInv, NEW n \in DOMAIN pool, Drop(n)
    PROVE  SenderInv'
<1>1. PoolLoses
  BY DEF SenderInv, Typed, Drop, PoolLoses, NoTx, TxFields
<1>2. UNCHANGED <<chain, rows>> /\ DOMAIN worker' = Workers /\ Sweeper' = Sweeper
  BY DEF SenderInv, Typed, Drop, Sweeper
<1> QED
  BY <1>1, <1>2, OthersKeep

\* Until the settlement is indexed the sweeper rests, and nothing waits for it.
LEMMA NothingYet ==
    ASSUME SenderInv, rows.status # "settled"
    PROVE  Sweeper.pc = "idle" /\ \A n \in DOMAIN pool : pool[n].by # "losers"
  BY DEF SenderInv, SweepInv, Waited, Refunding

\* What rests stays well, whatever becomes of chain and rows.
LEMMA RestKeeps ==
    ASSUME SenderInv, Sweeper.pc = "idle", UNCHANGED <<pool, worker>>, Typed', RowsFollow'
    PROVE  SenderInv'
<1>1. SweepInv(Sweeper)'
  BY DEF SweepInv, Refunding, Sweeper
<1>2. OneEach(pool)' /\ (\A n \in DOMAIN pool : Waited(pool[n], Sweeper))'
  BY DEF SenderInv, OneEach, Waited, Sweeper
<1> QED
  BY <1>1, <1>2 DEF SenderInv

LEMMA SettlesStep ==
    ASSUME SenderInv, OthersSettle
    PROVE  SenderInv'
<1>1. rows.status # "settled" /\ ~rows.refunded
  BY DEF SenderInv, RowsFollow, OthersSettle
<1>2. Typed'
  <2>1. Losers \subseteq Bidders
    BY DEF Losers
  <2> QED
    BY <2>1 DEF SenderInv, Typed, OthersSettle, Sweeper
<1>3. RowsFollow'
  BY <1>1 DEF SenderInv, Typed, RowsFollow, OthersSettle
<1> QED
  BY <1>1, <1>2, <1>3, NothingYet, RestKeeps DEF OthersSettle

\* The settlement is indexed after every bid.
LEMMA IndexStep ==
    ASSUME SenderInv, Indexer, BidsFirst
    PROVE  SenderInv'
<1>1. ASSUME NEW b \in Bidders, IndexBid(b) PROVE SenderInv'
  <2>1. rows.status # "settled"
    BY <1>1 DEF SenderInv, RowsFollow, IndexBid
  <2>2. Typed'
    BY <1>1 DEF SenderInv, Typed, IndexBid, Sweeper
  <2>3. RowsFollow'
    BY <1>1, <2>1 DEF SenderInv, Typed, RowsFollow, IndexBid
  <2> QED
    BY <1>1, <2>1, <2>2, <2>3, NothingYet, RestKeeps DEF IndexBid
<1>2. CASE IndexSettled
  <2>1. Typed'
    BY <1>2 DEF SenderInv, Typed, IndexSettled, Sweeper
  <2>2. RowsFollow'
    BY <1>2 DEF SenderInv, Typed, RowsFollow, IndexSettled
  <2>3. rows.status # "settled"
    BY <1>2 DEF IndexSettled
  <2> QED
    BY <1>2, <2>1, <2>2, <2>3, NothingYet, RestKeeps DEF IndexSettled
<1> QED
  BY <1>1, <1>2 DEF Indexer

\* Neither the nonce guard nor the attempt's mark is read by the invariant.
LEMMA AgesStep ==
    ASSUME SenderInv, Ages
    PROVE  SenderInv'
<1>1. /\ UNCHANGED <<chain, pool, worker>>
      /\ rows' = rows \/ rows' = [rows EXCEPT !.attempted = FALSE]
  BY DEF Ages, NonceAges, AttemptAges
<1>2. /\ rows'.status = rows.status /\ rows'.bids = rows.bids /\ rows'.refunded = rows.refunded
      /\ Typed'
  BY <1>1 DEF SenderInv, Typed, Sweeper
<1>3. RowsFollow' /\ SweepInv(Sweeper)'
  BY <1>1, <1>2 DEF SenderInv, RowsFollow, SweepInv, CoversLosers, MinedIsPaid, Sweeper
<1>4. OneEach(pool)' /\ (\A n \in DOMAIN pool : Waited(pool[n], Sweeper))'
  BY <1>1 DEF SenderInv, OneEach, Waited, Sweeper
<1> QED
  BY <1>2, <1>3, <1>4 DEF SenderInv

LEMMA InterruptStep ==
    ASSUME SenderInv, Interrupt
    PROVE  SenderInv'
<1>1. /\ UNCHANGED <<chain, rows>> /\ Sweeper' = Resting /\ DOMAIN worker' = Workers
  BY DEF Interrupt, Sweeper, Workers
<1>2. /\ DOMAIN pool' = DOMAIN pool
      /\ \A n \in DOMAIN pool : DOMAIN pool'[n] = TxFields /\ pool'[n].by = "nobody"
  BY DEF SenderInv, Typed, Interrupt, NoTx, TxFields
<1>3. Typed'
  BY <1>1, <1>2, RestingRecord DEF SenderInv, Typed
<1> QED
  BY <1>1, <1>2, <1>3, RestingRecord
     DEF SenderInv, RowsFollow, SweepInv, Refunding, OneEach, Waited

----------------------------------------------------------------------------
(* The steps of the loser sweeper                                          *)

\* It becomes r and the pool p.
LEMMA SweeperBecomes ==
    ASSUME SenderInv, NEW r, r \in SweeperRecord(r.nonce), Set("losers", r),
           UNCHANGED <<chain, rows>>, SweepInv(r),
           NEW p, pool' = p, DOMAIN p = DOMAIN pool, OneEach(p),
           \A n \in DOMAIN p : DOMAIN p[n] = TxFields /\ Waited(p[n], r)
    PROVE  SenderInv'
<1>1. DOMAIN worker' = Workers /\ Sweeper' = r
  BY DEF SenderInv, Typed, Set, Sweeper, Workers
<1>2. Typed'
  BY <1>1 DEF SenderInv, Typed
<1>3. RowsFollow' /\ SweepInv(Sweeper)'
  BY <1>1 DEF SenderInv, RowsFollow, SweepInv, CoversLosers, MinedIsPaid
<1>4. OneEach(pool)' /\ (\A n \in DOMAIN pool : Waited(pool[n], Sweeper))'
  BY <1>1
<1> QED
  BY <1>2, <1>3, <1>4 DEF SenderInv

\* With the pool untouched.
LEMMA SweeperBecomesAlone ==
    ASSUME SenderInv, NEW r, r \in SweeperRecord(r.nonce), Set("losers", r),
           UNCHANGED <<chain, rows, pool>>, SweepInv(r),
           \A n \in DOMAIN pool : Waited(pool[n], r)
    PROVE  SenderInv'
<1>1. OneEach(pool) /\ \A n \in DOMAIN pool : DOMAIN pool[n] = TxFields
  BY DEF SenderInv, Typed
<1> QED
  BY <1>1, SweeperBecomes

\* With its transactions forgotten.
LEMMA SweeperGivesUp ==
    ASSUME SenderInv, NEW r, r \in SweeperRecord(r.nonce), Set("losers", r),
           UNCHANGED <<chain, rows>>, SweepInv(r),
           NEW q, DOMAIN q = DOMAIN pool, \A n \in DOMAIN pool : DOMAIN q[n] = TxFields,
           pool' = Forget(q, "losers")
    PROVE  SenderInv'
<1>1. PICK p : p = Forget(q, "losers")
  OBVIOUS
<1>2. /\ DOMAIN p = DOMAIN pool
      /\ \A n \in DOMAIN p : DOMAIN p[n] = TxFields /\ p[n].by # "losers"
  BY <1>1 DEF Forget, TxFields
<1>3. OneEach(p) /\ \A n \in DOMAIN p : Waited(p[n], r)
  BY <1>2 DEF OneEach, Waited
<1> QED
  BY <1>1, <1>2, <1>3, SweeperBecomes

\* A transaction that was not sent, and the end of a wait that failed.
Attempting == [Sweeper EXCEPT !.pc = "attempt", !.nonce = Used]

LEMMA AttemptingOk ==
    ASSUME SenderInv, Sweeper.pc \in Refunding
    PROVE  /\ Attempting \in SweeperRecord(Attempting.nonce) /\ SweepInv(Attempting)
           /\ Attempting.pc = "attempt"
           /\ [Sweeper EXCEPT !.pc = "attempt"] \in SweeperRecord(Sweeper.nonce)
           /\ [Sweeper EXCEPT !.pc = "attempt"].nonce = Sweeper.nonce
           /\ SweepInv([Sweeper EXCEPT !.pc = "attempt"])
<1>1. Sweeper \in SweeperRecord(Sweeper.nonce) /\ rows.status = "settled"
  BY DEF SenderInv, Typed, SweepInv, Refunding
<1>2. Attempting \in SweeperRecord(Attempting.nonce) /\ Attempting.pc = "attempt"
  BY <1>1 DEF Attempting, SweeperRecord
<1>3. /\ [Sweeper EXCEPT !.pc = "attempt"] \in SweeperRecord(Sweeper.nonce)
      /\ [Sweeper EXCEPT !.pc = "attempt"].nonce = Sweeper.nonce
      /\ [Sweeper EXCEPT !.pc = "attempt"].pc = "attempt"
  BY <1>1 DEF SweeperRecord
<1>4. \A r : r.pc = "attempt" => SweepInv(r)
  BY <1>1 DEF SweepInv, Refunding
<1> QED
  BY <1>2, <1>3, <1>4

LEMMA SweeperReads ==
    ASSUME SenderInv, ReadNonce("losers")
    PROVE  SenderInv'
<1>1. Sweeper.pc = "read" /\ Sweeper \in SweeperRecord(Sweeper.nonce) /\ Sweeper.pc \in Refunding
  BY DEF SenderInv, Typed, ReadNonce, At, Sweeper, Refunding
<1>2. UNCHANGED <<chain, rows>>
  BY DEF ReadNonce
<1>3. CASE Set("losers", Attempting) /\ pool' = Forget(pool, "losers")
  <2>1. \A n \in DOMAIN pool : DOMAIN pool[n] = TxFields
    BY DEF SenderInv, Typed
  <2> QED
    BY <1>1, <1>2, <1>3, <2>1, AttemptingOk, SweeperGivesUp
<1>4. ASSUME NEW n, Set("losers", [Sweeper EXCEPT !.pc = "guard", !.nonce = n]), UNCHANGED pool
      PROVE  SenderInv'
  <2>1. PICK r : r = [Sweeper EXCEPT !.pc = "guard", !.nonce = n]
    OBVIOUS
  <2>2. /\ r \in SweeperRecord(r.nonce) /\ r.pc = "guard" /\ r.todo = Sweeper.todo
        /\ r.batch = Sweeper.batch /\ r.fate = Sweeper.fate
    BY <1>1, <2>1 DEF SweeperRecord, Refunding
  <2>3. SweepInv(r)
    BY <1>1, <2>2 DEF SenderInv, SweepInv, CoversLosers, MinedIsPaid, Refunding
  <2>4. \A m \in DOMAIN pool : Waited(pool[m], r)
    BY <1>1, <2>2 DEF SenderInv, Waited, Refunding
  <2> QED
    BY <1>2, <1>4, <2>1, <2>2, <2>3, <2>4, SweeperBecomesAlone
<1>5. \/ Set("losers", Attempting) /\ pool' = Forget(pool, "losers")
      \/ \E n : Set("losers", [Sweeper EXCEPT !.pc = "guard", !.nonce = n]) /\ UNCHANGED pool
  <2>1. NotSent("losers", Sweeper) = Attempting /\ Attempting.pc = "attempt"
    BY <1>1, AttemptingOk DEF NotSent, Attempting
  <2> QED
    BY <2>1 DEF ReadNonce, ForgetUnless, Sweeper
<1> QED
  BY <1>3, <1>4, <1>5

LEMMA SweeperLooks ==
    ASSUME SenderInv, CheckLastNonce("losers")
    PROVE  SenderInv'
<1>1. Sweeper.pc = "guard" /\ Sweeper \in SweeperRecord(Sweeper.nonce) /\ Sweeper.pc \in Refunding
  BY DEF SenderInv, Typed, CheckLastNonce, At, Sweeper, Refunding
<1>2. UNCHANGED <<chain, rows>>
  BY DEF CheckLastNonce
<1>3. CASE Set("losers", Attempting) /\ pool' = Forget(pool, "losers")
  <2>1. \A n \in DOMAIN pool : DOMAIN pool[n] = TxFields
    BY DEF SenderInv, Typed
  <2> QED
    BY <1>1, <1>2, <1>3, <2>1, AttemptingOk, SweeperGivesUp
<1>4. CASE Set("losers", [Sweeper EXCEPT !.pc = "send"]) /\ UNCHANGED pool
  <2>1. PICK r : r = [Sweeper EXCEPT !.pc = "send"]
    OBVIOUS
  <2>2. /\ r \in SweeperRecord(r.nonce) /\ r.pc = "send" /\ r.todo = Sweeper.todo
        /\ r.batch = Sweeper.batch /\ r.fate = Sweeper.fate
    BY <1>1, <2>1 DEF SweeperRecord, Refunding
  <2>3. SweepInv(r)
    BY <1>1, <2>2 DEF SenderInv, SweepInv, CoversLosers, MinedIsPaid, Refunding
  <2>4. \A m \in DOMAIN pool : Waited(pool[m], r)
    BY <1>1, <2>2 DEF SenderInv, Waited, Refunding
  <2> QED
    BY <1>2, <1>4, <2>1, <2>2, <2>3, <2>4, SweeperBecomesAlone
<1>5. \/ Set("losers", Attempting) /\ pool' = Forget(pool, "losers")
      \/ Set("losers", [Sweeper EXCEPT !.pc = "send"]) /\ UNCHANGED pool
  <2>1. NotSent("losers", Sweeper) = Attempting /\ Attempting.pc = "attempt"
    BY <1>1, AttemptingOk DEF NotSent, Attempting
  <2> QED
    BY <2>1 DEF CheckLastNonce, ForgetUnless, Sweeper
<1> QED
  BY <1>3, <1>4, <1>5

\* The transaction of the batch at work,
LEMMA SweeperTx ==
    ASSUME SenderInv, Sweeper.pc = "send", NEW by \in {"losers", "nobody"},
           NEW tx, tx = [Tx("losers", Sweeper) EXCEPT !.by = by]
    PROVE  /\ DOMAIN tx = TxFields /\ tx.by = by /\ tx.batch = Sweeper.batch
           /\ tx.job = "refund" /\ tx.for = Sweeper.todo[Sweeper.batch].for
<1>1. CoversLosers(Sweeper) /\ Sweeper.todo \in Seq(Refund)
  BY DEF SenderInv, Typed, SweepInv, Refunding, SweeperRecord
<1>2. Sweeper.todo[Sweeper.batch] \in Refund
  BY <1>1, ElementOfSeq DEF CoversLosers
<1> QED
  BY <1>2 DEF Tx, TxFields, Refund

\* in the place of nonce n.
LEMMA SweeperPuts ==
    ASSUME SenderInv, NEW tx, DOMAIN tx = TxFields, NEW q, NEW n, q = [pool EXCEPT ![n] = tx]
    PROVE  /\ DOMAIN q = DOMAIN pool
           /\ \A m \in DOMAIN pool : q[m] = (IF m = n THEN tx ELSE pool[m]) /\ DOMAIN q[m] = TxFields
  BY DEF SenderInv, Typed

LEMMA SweeperSends ==
    ASSUME SenderInv, SendTransaction("losers")
    PROVE  SenderInv'
<1>1. Sweeper.pc = "send" /\ Sweeper \in SweeperRecord(Sweeper.nonce) /\ Sweeper.pc \in Refunding
  BY DEF SenderInv, Typed, SendTransaction, At, Sweeper, Refunding
<1>2. UNCHANGED <<chain, rows>>
  BY DEF SendTransaction
<1>3. PICK r : r = [Sweeper EXCEPT !.pc = "record", !.fate[Sweeper.batch] = "sent"]
  OBVIOUS
<1>4. PICK n : n = Sweeper.nonce
  OBVIOUS
<1>5. PICK tx : tx = [Tx("losers", Sweeper) EXCEPT !.by = "losers"]
  OBVIOUS
<1>6. PICK lost : lost = [Tx("losers", Sweeper) EXCEPT !.by = "nobody"]
  OBVIOUS
<1>7. PICK q : q = [pool EXCEPT ![n] = tx]
  OBVIOUS
<1>8. PICK gone : gone = [pool EXCEPT ![n] = lost]
  OBVIOUS
<1>9. \/ Set("losers", r) /\ pool' = q
      \/ Set("losers", Attempting) /\ pool' \in {Forget(pool, "losers"), Forget(gone, "losers")}
  <2>1. NotSent("losers", Sweeper) = Attempting /\ Attempting.pc = "attempt"
    BY <1>1, AttemptingOk DEF NotSent, Attempting
  <2>2. Tx("losers", Sweeper).by = "losers"
    BY DEF Tx
  <2> QED
    BY <1>3, <1>4, <1>5, <1>6, <1>7, <1>8, <2>1, <2>2 DEF SendTransaction, ForgetUnless, Sweeper
<1>10. CASE Set("losers", Attempting) /\ pool' \in {Forget(pool, "losers"), Forget(gone, "losers")}
  <2>1. \A m \in DOMAIN pool : DOMAIN pool[m] = TxFields
    BY DEF SenderInv, Typed
  <2>2. DOMAIN gone = DOMAIN pool /\ \A m \in DOMAIN pool : DOMAIN gone[m] = TxFields
    <3>1. DOMAIN lost = TxFields
      BY <1>1, <1>6, SweeperTx
    <3> QED
      BY <1>8, <3>1, SweeperPuts
  <2> QED
    BY <1>1, <1>2, <1>10, <2>1, <2>2, AttemptingOk, SweeperGivesUp
<1>11. CASE Set("losers", r) /\ pool' = q
  <2>1. /\ tx.by = "losers" /\ tx.batch = Sweeper.batch
        /\ tx.job = "refund" /\ tx.for = Sweeper.todo[Sweeper.batch].for
        /\ DOMAIN q = DOMAIN pool
        /\ \A m \in DOMAIN pool : q[m] = (IF m = n THEN tx ELSE pool[m]) /\ DOMAIN q[m] = TxFields
    <3>1. /\ DOMAIN tx = TxFields /\ tx.by = "losers" /\ tx.batch = Sweeper.batch
          /\ tx.job = "refund" /\ tx.for = Sweeper.todo[Sweeper.batch].for
      BY <1>1, <1>5, SweeperTx
    <3>2. /\ DOMAIN q = DOMAIN pool
          /\ \A m \in DOMAIN pool : q[m] = (IF m = n THEN tx ELSE pool[m]) /\ DOMAIN q[m] = TxFields
      BY <1>7, <3>1, SweeperPuts
    <3> QED
      BY <3>1, <3>2
  <2>2. CoversLosers(Sweeper) /\ MinedIsPaid(Sweeper) /\ rows.status = "settled"
    BY <1>1 DEF SenderInv, SweepInv
  <2>3. /\ Sweeper.fate \in Seq(Fates) /\ Sweeper.todo \in Seq(Refund)
        /\ Sweeper.batch \in 1 .. Len(Sweeper.fate)
        /\ Sweeper.batch \in DOMAIN Sweeper.fate
    <3>1. Sweeper.fate \in Seq(Fates) /\ Sweeper.todo \in Seq(Refund)
      BY <1>1 DEF SweeperRecord
    <3> QED
      BY <2>2, <3>1, LenProperties DEF CoversLosers
  <2>4. PICK fate : fate = [Sweeper.fate EXCEPT ![Sweeper.batch] = "sent"]
    OBVIOUS
  <2>5. /\ fate \in Seq(Fates) /\ Len(fate) = Len(Sweeper.fate)
        /\ \A i \in 1 .. Len(Sweeper.fate) : fate[i] = (IF i = Sweeper.batch THEN "sent" ELSE Sweeper.fate[i])
    <3>1. "sent" \in Fates
      BY DEF Fates
    <3>2. fate \in Seq(Fates) /\ Len(fate) = Len(Sweeper.fate)
      BY <2>3, <2>4, <3>1, ExceptSeq
    <3> QED
      BY <2>3, <2>4, <3>2, LenProperties
  <2>6. /\ r.pc = "record" /\ r.todo = Sweeper.todo /\ r.batch = Sweeper.batch /\ r.fate = fate
        /\ r \in SweeperRecord(r.nonce)
    BY <1>1, <1>3, <2>4, <2>5 DEF SweeperRecord, Refunding
  <2>7. SweepInv(r)
    <3>1. CoversLosers(r)
      BY <2>2, <2>5, <2>6 DEF CoversLosers
    <3>2. MinedIsPaid(r)
      BY <2>2, <2>5, <2>6 DEF MinedIsPaid, CoversLosers
    <3> QED
      BY <2>2, <2>6, <3>1, <3>2 DEF SweepInv
  <2>8. \A m \in DOMAIN q : Waited(q[m], r)
    <3> SUFFICES ASSUME NEW m \in DOMAIN pool, q[m].by = "losers" PROVE Waited(q[m], r)
      BY <2>1 DEF Waited
    <3>1. CASE m = n
      BY <2>1, <2>2, <2>3, <2>5, <2>6, <3>1 DEF Waited, Refunding, CoversLosers
    <3>2. CASE m # n
      <4>1. q[m] = pool[m] /\ Waited(pool[m], Sweeper)
        BY <2>1, <3>2 DEF SenderInv
      <4>2. pool[m].batch < Sweeper.batch /\ pool[m].batch \in 1 .. Len(Sweeper.todo)
        BY <1>1, <4>1 DEF Waited
      <4> QED
        BY <1>1, <2>2, <2>3, <2>5, <2>6, <4>1, <4>2 DEF Waited, Refunding, CoversLosers
    <3> QED
      BY <3>1, <3>2
  <2>9. OneEach(q)
    <3>1. \A m \in DOMAIN pool : pool[m].by = "losers" => pool[m].batch # Sweeper.batch
      <4> SUFFICES ASSUME NEW m \in DOMAIN pool, pool[m].by = "losers"
                   PROVE  pool[m].batch # Sweeper.batch
        OBVIOUS
      <4>1. pool[m].batch < Sweeper.batch /\ pool[m].batch \in 1 .. Len(Sweeper.todo)
        BY <1>1 DEF SenderInv, Waited
      <4> QED
        BY <2>2, <4>1 DEF CoversLosers
    <3> QED
      BY <2>1, <3>1 DEF SenderInv, OneEach
  <2> QED
    BY <1>2, <1>11, <2>1, <2>6, <2>7, <2>8, <2>9, SweeperBecomes
<1> QED
  BY <1>9, <1>10, <1>11

\* The next batch, or, when all were sent, the first to wait for.
LEMMA SweeperRecords ==
    ASSUME SenderInv, RecordNonce("losers")
    PROVE  SenderInv'
<1>1. Sweeper.pc = "record" /\ Sweeper \in SweeperRecord(Sweeper.nonce) /\ Sweeper.pc \in Refunding
  BY DEF SenderInv, Typed, RecordNonce, At, Sweeper, Refunding
<1>2. UNCHANGED <<chain, rows, pool>> /\ Set("losers", Sent("losers", Sweeper))
  BY DEF RecordNonce, Sweeper
<1>3. CoversLosers(Sweeper) /\ MinedIsPaid(Sweeper) /\ rows.status = "settled"
  BY <1>1 DEF SenderInv, SweepInv
<1>4. Sweeper.batch \in Nat /\ Len(Sweeper.todo) \in Nat /\ Sweeper.batch \in 1 .. Len(Sweeper.todo)
  BY <1>1, <1>3, LenProperties DEF SweeperRecord, CoversLosers
<1>5. CASE Sweeper.batch < Len(Sweeper.todo)
  <2>0. PICK k \in Nat : k = Sweeper.batch + 1
    BY <1>4
  <2>1. PICK r : r = [Sweeper EXCEPT !.pc = "read", !.batch = k, !.nonce = Used]
    OBVIOUS
  <2>2. Sent("losers", Sweeper) = r
    BY <1>4, <1>5, <2>0, <2>1 DEF Sent, NextWork
  <2>3. /\ r \in SweeperRecord(r.nonce) /\ r.pc = "read" /\ r.todo = Sweeper.todo
        /\ r.batch = Sweeper.batch + 1 /\ r.fate = Sweeper.fate
    BY <1>1, <2>0, <2>1 DEF SweeperRecord, Refunding
  <2>4. SweepInv(r)
    BY <1>3, <1>4, <1>5, <2>3 DEF SweepInv, CoversLosers, MinedIsPaid
  <2>5. \A m \in DOMAIN pool : Waited(pool[m], r)
    <3> SUFFICES ASSUME NEW m \in DOMAIN pool, pool[m].by = "losers" PROVE Waited(pool[m], r)
      BY DEF Waited
    <3>1. Waited(pool[m], Sweeper)
      BY DEF SenderInv
    <3>2. pool[m].batch <= Sweeper.batch /\ pool[m].batch \in 1 .. Len(Sweeper.todo)
      BY <1>1, <3>1 DEF Waited
    <3> QED
      BY <1>4, <2>3, <3>1, <3>2 DEF Waited, Refunding
  <2> QED
    BY <1>2, <2>2, <2>3, <2>4, <2>5, SweeperBecomesAlone
<1>6. CASE ~(Sweeper.batch < Len(Sweeper.todo))
  <2>1. PICK r : r = [Sweeper EXCEPT !.pc = "wait", !.nonce = Used, !.batch = 1]
    OBVIOUS
  <2>2. Sent("losers", Sweeper) = r
    BY <1>6, <2>1 DEF Sent
  <2>3. /\ r \in SweeperRecord(r.nonce) /\ r.pc = "wait" /\ r.todo = Sweeper.todo
        /\ r.batch = 1 /\ r.fate = Sweeper.fate
    BY <1>1, <2>1 DEF SweeperRecord, Refunding
  <2>4. SweepInv(r)
    BY <1>3, <1>4, <2>3 DEF SweepInv, CoversLosers, MinedIsPaid
  <2>5. \A m \in DOMAIN pool : Waited(pool[m], r)
    BY <1>1, <2>3 DEF SenderInv, Waited, Refunding
  <2> QED
    BY <1>2, <2>2, <2>3, <2>4, <2>5, SweeperBecomesAlone
<1> QED
  BY <1>5, <1>6

\* It becomes what is not refunding, when nothing waits for it.
LEMMA SweeperRests ==
    ASSUME SenderInv, \A n \in DOMAIN pool : pool[n].by # "losers", UNCHANGED <<chain, pool>>,
           NEW r, r \in SweeperRecord(r.nonce), Set("losers", r), r.pc \notin Refunding,
           Typed' \/ rows' = rows, RowsFollow',
           r.pc # "idle" => rows'.status = "settled",
           r.pc = "collect" => r.winner = Highest(Bidders)
    PROVE  SenderInv'
<1>1. DOMAIN worker' = Workers /\ Sweeper' = r
  BY DEF SenderInv, Typed, Set, Sweeper, Workers
<1>2. Typed'
  BY <1>1 DEF SenderInv, Typed
<1>3. SweepInv(Sweeper)'
  BY <1>1 DEF SweepInv
<1>4. OneEach(pool)' /\ (\A n \in DOMAIN pool : Waited(pool[n], Sweeper))'
  BY DEF OneEach, Waited
<1> QED
  BY <1>2, <1>3, <1>4 DEF SenderInv

LEMMA SweeperSelects ==
    ASSUME SenderInv, SelectUnrefunded
    PROVE  SenderInv'
<1>1. rows.status = "settled" /\ Sweeper.pc = "idle" /\ UNCHANGED <<chain, pool, rows>>
  BY DEF SelectUnrefunded, At, Sweeper
<1>2. rows.bids = Bidders
  BY <1>1 DEF SenderInv, RowsFollow
<1>3. PICK winner \in {0, Highest(Bidders)} :
          /\ winner = Highest(Bidders)
          /\ Set("losers", [Resting EXCEPT !.pc = "collect", !.winner = winner])
  BY <1>2 DEF SelectUnrefunded
<1>4. PICK r : r = [Resting EXCEPT !.pc = "collect", !.winner = winner]
  OBVIOUS
<1>5. r \in SweeperRecord(r.nonce) /\ r.pc = "collect" /\ r.winner = winner
  <2>1. <<>> \in Seq(Refund) /\ <<>> \in Seq(Fates)
    BY EmptySeq
  <2> QED
    BY <1>3, <1>4, <2>1 DEF Resting, SweeperRecord
<1>6. \A n \in DOMAIN pool : pool[n].by # "losers"
  BY <1>1 DEF SenderInv, Waited, Refunding
<1>7. RowsFollow'
  BY <1>1 DEF SenderInv, RowsFollow
<1>8. "collect" \notin Refunding
  BY DEF Refunding
<1> QED
  BY <1>1, <1>3, <1>4, <1>5, <1>6, <1>7, <1>8, SweeperRests

\* Division, as the cutting into batches needs it.
LEMMA Quotient ==
    ASSUME NEW a \in Nat, NEW b \in Nat \ {0}
    PROVE  a \div b \in Nat /\ (a \div b) * b <= a /\ a < (a \div b) * b + b
<1>1. a \div b \in Int
  OBVIOUS
<1>2. (a \div b) * b <= a /\ a < (a \div b) * b + b
  OBVIOUS
<1>3. a \div b >= 0
  BY <1>1, <1>2
<1> QED
  BY <1>1, <1>2, <1>3

LEMMA Cancel ==
    ASSUME NEW x \in Int, NEW y \in Int, NEW b \in Nat \ {0}, x * b < y * b
    PROVE  x < y
<1>1. (y - x) * b > 0
  OBVIOUS
<1>2. y - x > 0
  BY <1>1
<1> QED
  BY <1>2

\* The loop over losers[start:end] leaves nobody out.
LEMMA BatchesCover ==
    ASSUME NEW S, S \subseteq Bidders, S # {}
    PROVE  /\ Batches(S) \in Seq(Refund)
           /\ Len(Batches(S)) \in Nat \ {0}
           /\ \A b \in S : \E i \in 1 .. Len(Batches(S)) : b \in Batches(S)[i].for
<1>1. IsFiniteSet(S) /\ Cardinality(S) \in Nat /\ Cardinality(S) # 0
  BY FS_Subset, FS_CardinalityType, FS_EmptySet DEF SenderAssumption
<1>2. PICK n \in Nat \ {0} : n = Cardinality(S)
  BY <1>1
<1>3. PICK k : k = (n + BatchSize - 1) \div BatchSize
  OBVIOUS
<1>4. BatchSize \in Nat \ {0}
  BY DEF SenderAssumption
<1>5. k \in Nat /\ n + BatchSize - 1 < k * BatchSize + BatchSize
  <2>1. n + BatchSize - 1 \in Nat
    BY <1>4
  <2> QED
    BY <1>3, <1>4, <2>1, Quotient
<1>6. k * BatchSize \in Int /\ n <= k * BatchSize
  BY <1>4, <1>5
<1>7. k # 0
  BY <1>6
<1>8. Batches(S) = [i \in 1 .. k |-> [job |-> "refund", for |-> Batch(S, i)]]
  BY <1>2, <1>3 DEF Batches, Work
<1>9. \A i \in 1 .. k : [job |-> "refund", for |-> Batch(S, i)] \in Refund
  BY DEF Batch, Refund
<1>10. Batches(S) \in Seq(Refund) /\ Len(Batches(S)) = k
  <2>1. \A i \in 1 .. k : Batches(S)[i] \in Refund
    BY <1>8, <1>9
  <2> QED
    BY <1>5, <1>8, <2>1, IsASeq
<1>11. ASSUME NEW b \in S
       PROVE  \E i \in 1 .. k : b \in Batches(S)[i].for
  <2>1. PICK m : m = Cardinality({c \in S : c < b})
    OBVIOUS
  <2>2. m \in Nat /\ m < n
    <3>1. {c \in S : c < b} \subseteq S \ {b} /\ IsFiniteSet(S \ {b})
      <4>1. ~(b < b)
        BY DEF SenderAssumption
      <4> QED
        BY <1>1, <4>1, FS_RemoveElement
    <3>2. Cardinality(S \ {b}) = n - 1
      BY <1>1, <1>2, FS_RemoveElement
    <3>3. m \in Nat /\ m <= Cardinality(S \ {b})
      BY <2>1, <3>1, FS_Subset, FS_CardinalityType
    <3> QED
      BY <3>2, <3>3
  <2>3. PICK q : q = m \div BatchSize
    OBVIOUS
  <2>4. q \in Nat /\ q * BatchSize <= m /\ q * BatchSize \in Int
    BY <1>4, <2>2, <2>3, Quotient
  <2>5. q * BatchSize < k * BatchSize
    BY <1>6, <2>2, <2>4
  <2>6. q < k
    BY <1>4, <1>5, <2>4, <2>5, Cancel
  <2>7. q + 1 \in 1 .. k /\ (q + 1) - 1 = q
    BY <1>5, <2>4, <2>6
  <2>8. b \in Batch(S, q + 1)
    BY <2>1, <2>3, <2>7 DEF Batch
  <2> QED
    BY <1>8, <2>7, <2>8
<1> QED
  BY <1>5, <1>7, <1>10, <1>11

\* collectLosers: with every bid indexed the losers are the contract's, and without
\* one there is nobody to pay.
LEMMA SweeperCollects ==
    ASSUME SenderInv, CollectLosers
    PROVE  SenderInv'
<1>1. /\ Sweeper.pc = "collect" /\ UNCHANGED <<chain, pool>> /\ rows.status = "settled"
      /\ Sweeper.winner = Highest(Bidders) /\ rows.bids = Bidders
  BY DEF SenderInv, RowsFollow, SweepInv, CollectLosers, At, Sweeper
<1>2. rows.bids \ {worker["losers"].winner} = Losers
  BY <1>1 DEF Losers, Sweeper
<1>3. \A n \in DOMAIN pool : pool[n].by # "losers"
  BY <1>1 DEF SenderInv, Waited, Refunding
<1>4. /\ chain.settled /\ chain.escrow \subseteq Losers
      /\ "idle" \notin Refunding /\ "collect" \notin Refunding
  BY <1>1 DEF SenderInv, RowsFollow, Refunding
<1>5. CASE Losers = {}
  <2>1. Set("losers", Resting) /\ (rows' = rows \/ rows' = [rows EXCEPT !.refunded = TRUE])
    BY <1>2, <1>5 DEF CollectLosers
  <2>2. chain.escrow = {}
    BY <1>4, <1>5
  <2>3. DOMAIN worker' = Workers /\ Sweeper' = Resting
    BY <2>1 DEF SenderInv, Typed, Set, Sweeper, Workers
  <2>4. Typed'
    BY <1>1, <2>1, <2>3, RestingRecord DEF SenderInv, Typed
  <2>5. RowsFollow'
    BY <1>1, <1>4, <2>1, <2>2 DEF SenderInv, Typed, RowsFollow
  <2> QED
    BY <1>1, <1>3, <1>4, <2>1, <2>4, <2>5, RestingRecord, SweeperRests
<1>6. CASE Losers # {}
  <2>1. UNCHANGED rows /\ (Set("losers", Resting) \/ Set("losers", Sending(Batches(Losers))))
    BY <1>2, <1>6 DEF CollectLosers
  <2>2. CASE Set("losers", Resting)
    <3>1. RowsFollow'
      BY <1>1, <2>1 DEF SenderInv, RowsFollow
    <3> QED
      BY <1>1, <1>3, <1>4, <2>1, <2>2, <3>1, RestingRecord, SweeperRests
  <2>3. CASE Set("losers", Sending(Batches(Losers)))
    <3>1. PICK work : work = Batches(Losers)
      OBVIOUS
    <3>2. /\ work \in Seq(Refund) /\ Len(work) \in Nat \ {0}
          /\ \A b \in Losers : \E i \in 1 .. Len(work) : b \in work[i].for
      BY <1>6, <3>1, BatchesCover DEF Losers
    <3>3. DOMAIN work = 1 .. Len(work)
      BY <3>2, LenProperties
    <3>4. PICK fate : fate = [i \in DOMAIN work |-> "unsent"]
      OBVIOUS
    <3>5. fate \in Seq(Fates) /\ Len(fate) = Len(work)
      BY <3>2, <3>3, <3>4, IsASeq DEF Fates
    <3>6. PICK r : r = [Resting EXCEPT !.pc = "read", !.todo = work, !.fate = fate, !.batch = 1]
      OBVIOUS
    <3>7. /\ r \in SweeperRecord(r.nonce) /\ r.pc = "read" /\ r.todo = work /\ r.batch = 1
          /\ r.fate = fate
      BY <3>2, <3>5, <3>6 DEF Resting, SweeperRecord, Refunding
    <3>8. CoversLosers(r)
      BY <3>2, <3>5, <3>7 DEF CoversLosers
    <3>9. MinedIsPaid(r)
      BY <3>3, <3>4, <3>7 DEF MinedIsPaid
    <3>10. SweepInv(r)
      BY <1>1, <3>7, <3>8, <3>9 DEF SweepInv
    <3>11. \A n \in DOMAIN pool : Waited(pool[n], r)
      BY <1>3 DEF Waited
    <3>12. Set("losers", r)
      BY <2>3, <3>1, <3>4, <3>6 DEF Sending
    <3> QED
      BY <1>1, <2>1, <3>7, <3>10, <3>11, <3>12, SweeperBecomesAlone
  <2> QED
    BY <2>1, <2>2, <2>3
<1> QED
  BY <1>5, <1>6

\* A batch is done with when it was mined, and the sweep with the last of them.
LEMMA SweeperWaits ==
    ASSUME SenderInv, RefundWaited
    PROVE  SenderInv'
<1>1. Sweeper.pc = "wait" /\ Sweeper \in SweeperRecord(Sweeper.nonce) /\ Sweeper.pc \in Refunding
  BY DEF SenderInv, Typed, RefundWaited, At, Sweeper, Refunding
<1>2. UNCHANGED <<chain, rows>>
  BY DEF RefundWaited
<1>3. CoversLosers(Sweeper) /\ MinedIsPaid(Sweeper) /\ rows.status = "settled"
  BY <1>1 DEF SenderInv, SweepInv
<1>4. Sweeper.batch \in Nat /\ Len(Sweeper.todo) \in Nat /\ Sweeper.batch \in 1 .. Len(Sweeper.todo)
  BY <1>1, <1>3, LenProperties DEF SweeperRecord, CoversLosers
<1>5. \/ /\ Sweeper.fate[Sweeper.batch] = "mined" /\ UNCHANGED pool
         /\ Set("losers", IF Sweeper.batch < Len(Sweeper.todo)
                          THEN [Sweeper EXCEPT !.batch = @ + 1]
                          ELSE [Sweeper EXCEPT !.pc = "mark"])
      \/ /\ Set("losers", [Sweeper EXCEPT !.pc = "attempt"])
         /\ pool' = Forget(pool, "losers")
  BY DEF RefundWaited, BatchConfirmed, Sweeper
<1>6. CASE /\ Set("losers", [Sweeper EXCEPT !.pc = "attempt"])
           /\ pool' = Forget(pool, "losers")
  <2>1. \A n \in DOMAIN pool : DOMAIN pool[n] = TxFields
    BY DEF SenderInv, Typed
  <2>2. PICK r : r = [Sweeper EXCEPT !.pc = "attempt"]
    OBVIOUS
  <2>3. r \in SweeperRecord(r.nonce) /\ SweepInv(r)
    BY <1>1, <2>2, AttemptingOk
  <2> QED
    BY <1>2, <1>6, <2>1, <2>2, <2>3, SweeperGivesUp
<1>7. CASE /\ Sweeper.fate[Sweeper.batch] = "mined" /\ UNCHANGED pool
           /\ Sweeper.batch < Len(Sweeper.todo)
           /\ Set("losers", [Sweeper EXCEPT !.batch = @ + 1])
  <2>1. PICK k \in Nat : k = Sweeper.batch + 1
    BY <1>4
  <2>2. PICK r : r = [Sweeper EXCEPT !.batch = k]
    OBVIOUS
  <2>3. /\ r \in SweeperRecord(r.nonce) /\ r.pc = "wait" /\ r.todo = Sweeper.todo
        /\ r.batch = k /\ r.fate = Sweeper.fate
    BY <1>1, <2>2 DEF SweeperRecord, Refunding
  <2>4. SweepInv(r)
    <3>1. CoversLosers(r)
      BY <1>3, <1>4, <1>7, <2>1, <2>3 DEF CoversLosers
    <3>2. ASSUME NEW i \in 1 .. k - 1 PROVE r.fate[i] = "mined"
      <4>1. i \in 1 .. Sweeper.batch - 1 \/ i = Sweeper.batch
        BY <1>4, <2>1
      <4>2. \A j \in 1 .. Sweeper.batch - 1 : Sweeper.fate[j] = "mined"
        BY <1>1, <1>3 DEF MinedIsPaid
      <4> QED
        BY <1>7, <2>3, <4>1, <4>2
    <3>3. MinedIsPaid(r)
      BY <1>3, <2>3, <3>2 DEF MinedIsPaid
    <3> QED
      BY <1>3, <2>3, <3>1, <3>3 DEF SweepInv
  <2>5. \A m \in DOMAIN pool : Waited(pool[m], r)
    BY <1>1, <2>3 DEF SenderInv, Waited, Refunding
  <2>6. Set("losers", r)
    BY <1>7, <2>1, <2>2
  <2> QED
    BY <1>2, <1>7, <2>3, <2>4, <2>5, <2>6, SweeperBecomesAlone
<1>8. CASE /\ Sweeper.fate[Sweeper.batch] = "mined" /\ UNCHANGED pool
           /\ ~(Sweeper.batch < Len(Sweeper.todo))
           /\ Set("losers", [Sweeper EXCEPT !.pc = "mark"])
  <2>1. PICK r : r = [Sweeper EXCEPT !.pc = "mark"]
    OBVIOUS
  <2>2. /\ r \in SweeperRecord(r.nonce) /\ r.pc = "mark" /\ r.todo = Sweeper.todo
        /\ r.batch = Sweeper.batch /\ r.fate = Sweeper.fate
    BY <1>1, <2>1 DEF SweeperRecord, Refunding
  <2>3. SweepInv(r)
    BY <1>1, <1>3, <1>4, <1>8, <2>2 DEF SweepInv, CoversLosers, MinedIsPaid
  <2>4. \A m \in DOMAIN pool : Waited(pool[m], r)
    BY <1>1, <2>2 DEF SenderInv, Waited, Refunding
  <2> QED
    BY <1>2, <1>8, <2>1, <2>2, <2>3, <2>4, SweeperBecomesAlone
<1> QED
  BY <1>5, <1>6, <1>7, <1>8

\* MarkLosersRefunded: every batch was mined, so nobody is left with escrow, and no
\* transaction is waited for.
LEMMA SweeperMarks ==
    ASSUME SenderInv, MarkLosersRefunded
    PROVE  SenderInv'
<1>1. /\ Sweeper.pc = "mark" /\ Sweeper.pc \in Refunding
      /\ Set("losers", Resting) /\ UNCHANGED <<chain, pool>>
      /\ rows' = rows \/ rows' = [rows EXCEPT !.refunded = TRUE]
  BY DEF MarkLosersRefunded, At, Sweeper, Refunding
<1>2. CoversLosers(Sweeper) /\ MinedIsPaid(Sweeper) /\ rows.status = "settled"
  BY <1>1 DEF SenderInv, SweepInv
<1>3. chain.settled /\ chain.escrow = {}
  <2>1. chain.settled /\ chain.escrow \subseteq Losers
    BY <1>2 DEF SenderInv, RowsFollow
  <2>2. ASSUME NEW b \in Losers PROVE b \notin chain.escrow
    <3>1. PICK i \in 1 .. Len(Sweeper.todo) : b \in Sweeper.todo[i].for
      BY <1>2 DEF CoversLosers
    <3>2. Sweeper.fate[i] = "mined"
      BY <1>1, <1>2 DEF MinedIsPaid
    <3> QED
      BY <1>2, <3>1, <3>2 DEF MinedIsPaid
  <2> QED
    BY <2>1, <2>2
<1>4. \A n \in DOMAIN pool : pool[n].by # "losers"
  BY <1>1, <1>2 DEF SenderInv, Waited, MinedIsPaid
<1>5. DOMAIN worker' = Workers /\ Sweeper' = Resting
  BY <1>1 DEF SenderInv, Typed, Set, Sweeper, Workers
<1>6. Typed'
  BY <1>1, <1>5, RestingRecord DEF SenderInv, Typed
<1>7. RowsFollow'
  BY <1>1, <1>2, <1>3 DEF SenderInv, Typed, RowsFollow
<1>8. "idle" \notin Refunding
  BY DEF Refunding
<1> QED
  BY <1>1, <1>4, <1>6, <1>7, <1>8, RestingRecord, SweeperRests

LEMMA SweeperAttempts ==
    ASSUME SenderInv, SetRefundAttempt
    PROVE  SenderInv'
<1>1. /\ Sweeper.pc = "attempt" /\ Set("losers", Resting) /\ UNCHANGED <<chain, pool>>
      /\ rows' = rows \/ rows' = [rows EXCEPT !.attempted = TRUE]
  BY DEF SetRefundAttempt, At, Sweeper
<1>2. /\ \A n \in DOMAIN pool : pool[n].by # "losers"
      /\ "idle" \notin Refunding
  BY <1>1 DEF SenderInv, Waited, Refunding
<1>3. DOMAIN worker' = Workers /\ Sweeper' = Resting
  BY <1>1 DEF SenderInv, Typed, Set, Sweeper, Workers
<1>4. Typed'
  BY <1>1, <1>3, RestingRecord DEF SenderInv, Typed
<1>5. RowsFollow'
  BY <1>1 DEF SenderInv, Typed, RowsFollow
<1> QED
  BY <1>1, <1>2, <1>4, <1>5, RestingRecord, SweeperRests

LEMMA SweeperStep ==
    ASSUME SenderInv, LoserSweeper
    PROVE  SenderInv'
  BY SweeperSelects, SweeperCollects, SweeperReads, SweeperLooks, SweeperSends,
     SweeperRecords, SweeperWaits, SweeperMarks, SweeperAttempts
     DEF LoserSweeper, SendRaw

----------------------------------------------------------------------------
(* A block                                                                 *)

\* What a transaction does to the auction: it settles it, or at most pays bidders.
LEMMA MinedOnChain ==
    ASSUME SenderInv, Mine
    PROVE  /\ 0 \in DOMAIN pool
           /\ chain' \in [settled : BOOLEAN, escrow : SUBSET Bidders, positions : SUBSET OfferIds]
           /\ \/ ~chain.settled /\ chain'.settled /\ chain'.escrow = Losers
              \/ chain'.settled = chain.settled /\ chain'.escrow \subseteq chain.escrow
           /\ pool[0].job = "refund" /\ chain.settled =>
                 chain'.escrow = chain.escrow \ pool[0].for /\ chain'.settled
<1>1. 0 \in DOMAIN pool
  BY DEF SenderInv, Typed, SenderAssumption
<1>2. chain' = (IF Executes(pool[0]) THEN Effect(pool[0]) ELSE chain)
  BY DEF Mine
<1>3. chain \in [settled : BOOLEAN, escrow : SUBSET Bidders, positions : SUBSET OfferIds]
  BY DEF SenderInv, Typed
<1>4. Losers \subseteq Bidders
  BY DEF Losers
<1>5. PICK tx : tx = pool[0]
  OBVIOUS
<1>6. CASE ~Executes(tx)
  BY <1>1, <1>2, <1>3, <1>5, <1>6 DEF Executes
<1>7. CASE Executes(tx)
  <2>1. CASE tx.job = "settle"
    <3>1. chain' = [chain EXCEPT !.settled = TRUE, !.escrow = Losers] /\ ~chain.settled
      BY <1>2, <1>5, <1>7, <2>1 DEF Executes, Effect
    <3> QED
      BY <1>1, <1>3, <1>4, <1>5, <2>1, <3>1
  <2>2. CASE tx.job = "refund"
    <3>1. chain' = [chain EXCEPT !.escrow = @ \ tx.for] /\ chain.settled
      BY <1>2, <1>5, <1>7, <2>2 DEF Executes, Effect
    <3> QED
      BY <1>1, <1>3, <1>5, <2>2, <3>1
  <2>3. CASE tx.job = "offer"
    <3>1. chain' = [chain EXCEPT !.positions = @ \ tx.for]
      BY <1>2, <1>5, <1>7, <2>3 DEF Executes, Effect
    <3> QED
      BY <1>1, <1>3, <1>5, <2>3, <3>1
  <2> QED
    BY <1>7, <2>1, <2>2, <2>3 DEF Executes
<1> QED
  BY <1>5, <1>6, <1>7

\* What the pool becomes: the transactions move up by one.
LEMMA MinedPool ==
    ASSUME SenderInv, Mine
    PROVE  /\ DOMAIN pool' = DOMAIN pool
           /\ \A n \in DOMAIN pool : DOMAIN pool'[n] = TxFields
           /\ \A n \in DOMAIN pool : pool'[n].by = "losers" =>
                 n + 1 \in DOMAIN pool /\ pool'[n] = pool[n + 1]
<1>1. pool' = [n \in DOMAIN pool |-> IF n + 1 \in DOMAIN pool THEN pool[n + 1] ELSE NoTx]
  BY DEF Mine
<1>2. DOMAIN NoTx = TxFields /\ NoTx.by # "losers"
  BY DEF NoTx, TxFields
<1>3. \A n \in DOMAIN pool : DOMAIN pool[n] = TxFields
  BY DEF SenderInv, Typed
<1> QED
  BY <1>1, <1>2, <1>3

\* What the sweeper learns.
LEMMA MinedSweeper ==
    ASSUME SenderInv, Mine
    PROVE  /\ DOMAIN worker' = Workers
           /\ Sweeper' \in SweeperRecord(Sweeper'.nonce)
           /\ Sweeper'.pc = Sweeper.pc /\ Sweeper'.todo = Sweeper.todo
           /\ Sweeper'.batch = Sweeper.batch /\ Sweeper'.winner = Sweeper.winner
           /\ Len(Sweeper'.fate) = Len(Sweeper.fate)
           /\ pool[0].by # "losers" => Sweeper'.fate = Sweeper.fate
           /\ pool[0].by = "losers" => \A i \in 1 .. Len(Sweeper.fate) :
                 Sweeper'.fate[i] = IF i = pool[0].batch THEN "mined" ELSE Sweeper.fate[i]
<1>1. Sweeper \in SweeperRecord(Sweeper.nonce) /\ DOMAIN worker = Workers /\ 0 \in DOMAIN pool
  BY MinedOnChain DEF SenderInv, Typed
<1>2. PICK fate : /\ fate \in {"mined", "reverted"}
                  /\ Executes(pool[0]) => fate = "mined"
                  /\ worker' = [w \in Workers |->
                                  [Told(worker, pool[0], fate)[w] EXCEPT !.nonce = Down(@)]]
  BY DEF Mine
<1>3. PICK ws : ws = Told(worker, pool[0], fate)
  OBVIOUS
<1>4. Sweeper' = [ws["losers"] EXCEPT !.nonce = Down(@)] /\ DOMAIN worker' = Workers
  BY <1>2, <1>3 DEF Sweeper, Workers
<1>5. CASE pool[0].by # "losers"
  <2>1. ws["losers"] = Sweeper
    BY <1>1, <1>3, <1>5 DEF Told, Sweeper, Workers
  <2>2. PICK k : k = Down(Sweeper.nonce)
    OBVIOUS
  <2>3. Sweeper' = [Sweeper EXCEPT !.nonce = k]
    BY <1>1, <1>4, <2>1, <2>2 DEF SweeperRecord
  <2> QED
    BY <1>1, <1>4, <1>5, <2>3 DEF SweeperRecord
<1>6. CASE pool[0].by = "losers"
  <2>1. Waited(pool[0], Sweeper) /\ Sweeper.pc \in Refunding
    BY <1>1, <1>6 DEF SenderInv, Waited
  <2>2. rows.status = "settled" /\ CoversLosers(Sweeper)
    BY <2>1 DEF SenderInv, SweepInv, Refunding
  <2>3. chain.settled
    BY <2>2 DEF SenderInv, RowsFollow
  <2>4. fate = "mined"
    BY <1>2, <1>6, <2>1, <2>3 DEF Executes, Waited
  <2>5. PICK b : b = pool[0].batch /\ b \in 1 .. Len(Sweeper.fate)
    BY <1>6, <2>1, <2>2 DEF Waited, CoversLosers
  <2>6. PICK f : f = [Sweeper.fate EXCEPT ![b] = "mined"]
    OBVIOUS
  <2>7. Sweeper.fate \in Seq(Fates) /\ "mined" \in Fates
    BY <1>1 DEF SweeperRecord, Fates
  <2>8. /\ f \in Seq(Fates) /\ Len(f) = Len(Sweeper.fate)
        /\ \A i \in 1 .. Len(Sweeper.fate) : f[i] = IF i = b THEN "mined" ELSE Sweeper.fate[i]
    BY <2>5, <2>6, <2>7, ExceptSeq
  <2>9. ws["losers"] = [Sweeper EXCEPT !.fate = f]
    BY <1>1, <1>3, <1>6, <2>4, <2>5, <2>6 DEF Told, Sweeper, Workers
  <2>10. PICK k : k = Down(Sweeper.nonce)
    OBVIOUS
  <2>11. Sweeper' = [Sweeper EXCEPT !.fate = f, !.nonce = k]
    BY <1>1, <1>4, <2>9, <2>10 DEF SweeperRecord
  <2> QED
    BY <1>1, <1>4, <1>6, <2>5, <2>8, <2>11 DEF SweeperRecord
<1> QED
  BY <1>5, <1>6

LEMMA MineStep ==
    ASSUME SenderInv, Mine
    PROVE  SenderInv'
<1>1. UNCHANGED rows
  BY DEF Mine
<1>2. Typed'
  BY <1>1, MinedOnChain, MinedPool, MinedSweeper DEF SenderInv, Typed
<1>3. RowsFollow'
  BY <1>1, MinedOnChain DEF SenderInv, RowsFollow
<1>4. ASSUME Sweeper.pc \in Refunding
      PROVE  /\ CoversLosers(Sweeper) /\ MinedIsPaid(Sweeper) /\ chain.settled
             /\ Sweeper.todo \in Seq(Refund) /\ Len(Sweeper.todo) \in Nat
             /\ chain'.escrow \subseteq chain.escrow
  <2>1. CoversLosers(Sweeper) /\ MinedIsPaid(Sweeper) /\ rows.status = "settled"
    BY <1>4 DEF SenderInv, SweepInv, Refunding
  <2>2. chain.settled
    BY <2>1 DEF SenderInv, RowsFollow
  <2>3. Sweeper.todo \in Seq(Refund)
    BY DEF SenderInv, Typed, SweeperRecord
  <2> QED
    BY <2>1, <2>2, <2>3, MinedOnChain, LenProperties
<1>5. SweepInv(Sweeper)'
  <2>1. Sweeper.pc # "idle" => rows'.status = "settled"
    BY <1>1 DEF SenderInv, SweepInv
  <2>2. Sweeper.pc = "collect" => Sweeper'.winner = Highest(Bidders)
    BY MinedSweeper DEF SenderInv, SweepInv
  <2>3. ASSUME Sweeper.pc \in Refunding PROVE CoversLosers(Sweeper)'
    BY <1>4, <2>3, MinedSweeper DEF CoversLosers
  <2>4. ASSUME Sweeper.pc \in Refunding PROVE MinedIsPaid(Sweeper)'
    <3>1. CASE pool[0].by # "losers"
      BY <1>4, <2>4, <3>1, MinedSweeper DEF MinedIsPaid
    <3>2. CASE pool[0].by = "losers"
      <4>1. /\ pool[0].batch \in 1 .. Len(Sweeper.todo) /\ pool[0].job = "refund"
            /\ pool[0].for = Sweeper.todo[pool[0].batch].for
        BY <3>2, MinedOnChain DEF SenderInv, Waited
      <4>2. chain'.escrow = chain.escrow \ pool[0].for
        BY <1>4, <2>4, <4>1, MinedOnChain
      <4>3. \A i \in 1 .. Len(Sweeper.todo) :
               Sweeper'.fate[i] = IF i = pool[0].batch THEN "mined" ELSE Sweeper.fate[i]
        BY <1>4, <2>4, <3>2, MinedSweeper DEF CoversLosers
      <4>4. \A i \in 1 .. Len(Sweeper.todo) :
               Sweeper'.fate[i] = "mined" => Sweeper.todo[i].for \cap chain'.escrow = {}
        BY <1>4, <2>4, <4>1, <4>2, <4>3 DEF MinedIsPaid
      <4>5. Sweeper.batch \in 1 .. Len(Sweeper.todo)
        BY <1>4, <2>4 DEF CoversLosers
      <4>6. Sweeper.pc = "wait" => \A i \in 1 .. Sweeper.batch - 1 : Sweeper'.fate[i] = "mined"
        BY <1>4, <2>4, <4>3, <4>5 DEF MinedIsPaid
      <4>7. Sweeper.pc = "mark" => \A i \in 1 .. Len(Sweeper.todo) : Sweeper'.fate[i] = "mined"
        BY <1>4, <2>4, <4>3 DEF MinedIsPaid
      <4> QED
        BY <4>4, <4>6, <4>7, MinedSweeper DEF MinedIsPaid
    <3> QED
      BY <3>1, <3>2
  <2> QED
    BY <2>1, <2>2, <2>3, <2>4, MinedSweeper DEF SweepInv
<1>6. OneEach(pool)'
  BY MinedPool DEF SenderInv, OneEach, Typed
<1>7. (\A n \in DOMAIN pool : Waited(pool[n], Sweeper))'
  <2> SUFFICES ASSUME NEW n \in DOMAIN pool, pool'[n].by = "losers"
               PROVE  Waited(pool'[n], Sweeper')
    BY MinedPool DEF Waited
  <2>1. n + 1 \in DOMAIN pool /\ pool'[n] = pool[n + 1] /\ n + 1 # 0 /\ 0 \in DOMAIN pool
    BY MinedPool, MinedOnChain DEF SenderInv, Typed
  <2>2. Waited(pool[n + 1], Sweeper) /\ pool[n + 1].by = "losers"
    BY <2>1 DEF SenderInv
  <2>3. pool[0].by = "losers" => pool[0].batch # pool[n + 1].batch
    BY <2>1, <2>2 DEF SenderInv, OneEach
  <2>4. Sweeper.pc \in Refunding /\ pool[n + 1].batch \in 1 .. Len(Sweeper.fate)
    BY <1>4, <2>2 DEF Waited, CoversLosers
  <2>5. Sweeper'.fate[pool[n + 1].batch] = Sweeper.fate[pool[n + 1].batch]
    BY <2>3, <2>4, MinedSweeper
  <2> QED
    BY <2>1, <2>2, <2>5, MinedSweeper DEF Waited
<1> QED
  BY <1>2, <1>3, <1>5, <1>6, <1>7 DEF SenderInv

----------------------------------------------------------------------------
(* The theorem                                                             *)

LEMMA NextSenderInv ==
    ASSUME BidsFirst, SenderInv, [SenderNext]_senderVars
    PROVE  SenderInv'
<1>1. CASE Mine
  BY <1>1, MineStep
<1>2. CASE \E n \in DOMAIN pool : Drop(n)
  BY <1>2, DropStep
<1>3. CASE OthersSettle
  BY <1>3, SettlesStep
<1>4. CASE Indexer
  BY <1>4, IndexStep
<1>5. CASE Ages
  BY <1>5, AgesStep
<1>6. CASE Interrupt
  BY <1>6, InterruptStep
<1>7. CASE AuctionKeeper \/ OfferSweeper
  BY <1>7, OthersStep
<1>8. CASE LoserSweeper
  BY <1>8, SweeperStep
<1>9. CASE UNCHANGED senderVars
  <2>1. UNCHANGED <<chain, rows>> /\ DOMAIN worker' = Workers /\ Sweeper' = Sweeper
    BY <1>9 DEF senderVars, SenderInv, Typed, Sweeper
  <2> QED
    BY <1>9, <2>1, PoolSame, OthersKeep DEF senderVars
<1> QED
  BY <1>1, <1>2, <1>3, <1>4, <1>5, <1>6, <1>7, <1>8, <1>9 DEF SenderNext

\* keeper_refund.go: an auction marked as refunded owes nobody, whatever the pool drops or
\* replaces, the nodes answer and the process forgets, if the bids of an auction are
\* indexed before its settlement.
THEOREM RefundedIsPaid ==
    ASSUME BidsFirst
    PROVE  SenderSpec => []RefundedMeansPaid
<1>1. SenderInv => RefundedMeansPaid
  BY DEF SenderInv, RowsFollow, RefundedMeansPaid
<1>2. SenderInv /\ [SenderNext]_senderVars => SenderInv'
  BY NextSenderInv
<1> QED
  BY <1>1, <1>2, InitSenderInv, PTL DEF SenderSpec

----------------------------------------------------------------------------
(* The election                                                            *)

\* What the Election of one instance and its keeper loop keep true of each
\* other: lock, gate and role go together, and only Run() and LockCtx() wait.
NodeInv(n, i) ==
    /\ n \in Node
    /\ n.lock <=> n.role = "leader"
    /\ n.gateClosed <=> n.lock
    /\ n.role = "leader" => n.leaderId = i
    /\ n.ctx = "live" => n.lock
    /\ n.ctx # "none" => n.at = "work"
    /\ n.latched # "orphan"
    /\ n.latched = "open" => ~n.gateClosed
    /\ n.at \notin {"run", "lockwait"} => n.latched = "none"

\* A process that has not started has the zero Election.
NewIsFresh == \A i \in Instance : up[i] = "new" => node[i] = NewNode

IInv == TypeOK /\ NewIsFresh /\ \A i \in Instance : NodeInv(node[i], i)

USE ElectionAssumption

----------------------------------------------------------------------------
(* The critical sections                                                   *)

\* A heartbeat just heard has a typed age, and so has one never heard; the
\* counters start typed, and a fault within the bound leaves them so.
LEMMA CountersTyped ==
    /\ 0 \in Never .. MissedThreshold + 1
    /\ Never \in Never .. MissedThreshold + 1
    /\ 0 \in 0 .. MaxDegraded
    /\ \A k \in 0 .. MaxFaults : k < MaxFaults => k + 1 \in 0 .. MaxFaults
  BY DEF Never

\* Cancelling the lock ends a live keeper context and nothing else.
LEMMA CancelLockFields ==
    ASSUME NEW n \in Node
    PROVE  /\ CancelLock(n) \in Node
           /\ CancelLock(n).lock = FALSE
           /\ CancelLock(n).ctx = IF n.ctx = "live" THEN "cancelled" ELSE n.ctx
           /\ CancelLock(n).role = n.role
           /\ CancelLock(n).leaderId = n.leaderId
           /\ CancelLock(n).gateClosed = n.gateClosed
           /\ CancelLock(n).at = n.at
           /\ CancelLock(n).latched = n.latched
  BY DEF CancelLock, Node

\* Replacing the gate strands exactly whoever waits on an open one.
LEMMA FreshGateFields ==
    ASSUME NEW n \in Node
    PROVE  /\ FreshGate(n) \in Node
           /\ FreshGate(n).gateClosed = FALSE
           /\ FreshGate(n).latched =
                 IF n.latched = "open" THEN "orphan" ELSE n.latched
           /\ FreshGate(n).lock = n.lock
           /\ FreshGate(n).ctx = n.ctx
           /\ FreshGate(n).role = n.role
           /\ FreshGate(n).leaderId = n.leaderId
           /\ FreshGate(n).at = n.at
  BY DEF FreshGate, Node

\* Becoming leader closes the gate, and with it every wait on it.
LEMMA BecomeLeaderKeeps ==
    ASSUME NEW i \in Instance, NEW n, NodeInv(n, i)
    PROVE  NodeInv(BecomeLeader(n, i), i)
<1> DEFINE c == CancelLock(n)
           d == [c EXCEPT !.role = "leader", !.leaderId = i,
                          !.age = 0, !.lock = TRUE]
<1>1. CASE n.role = "leader"
  BY <1>1 DEF BecomeLeader
<1>2. CASE n.role # "leader"
  <2>1. n \in Node
    BY DEF NodeInv
  <2>2. /\ c \in Node /\ c.at = n.at /\ c.latched = n.latched
        /\ c.ctx = IF n.ctx = "live" THEN "cancelled" ELSE n.ctx
    BY <2>1, CancelLockFields
  <2>3. /\ d \in Node /\ d.role = "leader" /\ d.leaderId = i /\ d.lock = TRUE
        /\ d.at = n.at /\ d.latched = n.latched /\ d.ctx = c.ctx
    BY <2>2, CountersTyped DEF Node
  <2> HIDE DEF c, d
  <2>4. /\ CloseGate(d) \in Node
        /\ CloseGate(d).gateClosed = TRUE
        /\ CloseGate(d).latched = IF d.latched = "open" THEN "closed" ELSE d.latched
        /\ CloseGate(d).lock = d.lock
        /\ CloseGate(d).ctx = d.ctx
        /\ CloseGate(d).role = d.role
        /\ CloseGate(d).leaderId = d.leaderId
        /\ CloseGate(d).at = d.at
    BY <2>3 DEF CloseGate, Node
  <2>5. NodeInv(CloseGate(d), i)
    BY <2>2, <2>3, <2>4 DEF NodeInv
  <2>6. QED
    BY <1>2, <2>5 DEF BecomeLeader, c, d
<1>3. QED
  BY <1>1, <1>2

\* Giving up a lock replaces a gate that is closed, so that nobody is left
\* waiting on the old one: resign(), and a leader that starts to follow.
LEMMA SurrenderKeeps ==
    ASSUME NEW i \in Instance, NEW n, NodeInv(n, i), n.role = "leader",
           NEW m \in Node, m.role = "follower", m.lock = FALSE,
           m.ctx = IF n.ctx = "live" THEN "cancelled" ELSE n.ctx,
           m.at = n.at, m.latched = n.latched
    PROVE  NodeInv(FreshGate(m), i)
  BY FreshGateFields DEF NodeInv

\* Resigning surrenders the lock.
LEMMA ResignKeeps ==
    ASSUME NEW i \in Instance, NEW n, NodeInv(n, i)
    PROVE  NodeInv(Resign(n), i)
<1> DEFINE c == CancelLock(n)
           m == [c EXCEPT !.role = "follower", !.leaderId = None,
                          !.age = 0, !.degraded = 0]
<1>1. CASE n.role # "leader"
  BY <1>1 DEF Resign
<1>2. CASE n.role = "leader"
  <2>1. /\ c \in Node /\ c.at = n.at /\ c.latched = n.latched /\ c.lock = FALSE
        /\ c.ctx = IF n.ctx = "live" THEN "cancelled" ELSE n.ctx
    BY CancelLockFields DEF NodeInv
  <2>2. /\ m \in Node /\ m.role = "follower"
        /\ m.lock = FALSE /\ m.ctx = c.ctx /\ m.at = n.at /\ m.latched = n.latched
    <3>1. m \in Node
      BY <2>1, CountersTyped DEF Node, None
    <3>2. QED
      BY <2>1, <3>1 DEF Node
  <2> HIDE DEF c, m
  <2>3. NodeInv(FreshGate(m), i)
    BY <1>2, <2>1, <2>2, SurrenderKeeps
  <2>4. QED
    BY <1>2, <2>3 DEF Resign, c, m
<1>3. QED
  BY <1>1, <1>2

\* Following another instance surrenders the lock, if there is one.
LEMMA FollowKeeps ==
    ASSUME NEW i \in Instance, NEW n, NodeInv(n, i), NEW l \in Instance
    PROVE  NodeInv(Follow(n, l), i)
<1> DEFINE f == [n EXCEPT !.role = "follower", !.leaderId = l, !.age = 0]
<1>1. n \in Node
  BY DEF NodeInv
<1>2. /\ f \in Node /\ f.role = "follower" /\ f.lock = n.lock /\ f.ctx = n.ctx
      /\ f.at = n.at /\ f.latched = n.latched /\ f.gateClosed = n.gateClosed
  BY <1>1, CountersTyped DEF Node
<1> HIDE DEF f
<1>3. CASE n.lock
  <2>1. n.role = "leader"
    BY <1>3 DEF NodeInv
  <2>2. /\ CancelLock(f) \in Node /\ CancelLock(f).role = "follower"
        /\ CancelLock(f).lock = FALSE /\ CancelLock(f).at = n.at
        /\ CancelLock(f).latched = n.latched
        /\ CancelLock(f).ctx = IF n.ctx = "live" THEN "cancelled" ELSE n.ctx
    BY <1>2, CancelLockFields
  <2>3. NodeInv(FreshGate(CancelLock(f)), i)
    BY <2>1, <2>2, SurrenderKeeps
  <2>4. QED
    BY <1>3, <2>3 DEF Follow, f
<1>4. CASE ~n.lock
  <2>1. NodeInv(f, i)
    BY <1>2, <1>4 DEF NodeInv
  <2>2. QED
    BY <1>4, <2>1 DEF Follow, f
<1>5. QED
  BY <1>3, <1>4

\* A release comes from a keeper loop that is not waiting.
LEMMA ReleaseKeeps ==
    ASSUME NEW i \in Instance, NEW n, NodeInv(n, i), n.at = "work"
    PROVE  NodeInv([Release(n) EXCEPT !.at = "idle", !.ctx = "none"], i)
<1> DEFINE c == CancelLock(n)
           m == [c EXCEPT !.role = "follower", !.leaderId = None]
           g == FreshGate(m)
           r == [g EXCEPT !.at = "idle", !.ctx = "none"]
<1>1. c \in Node /\ c.lock = FALSE /\ c.latched = "none"
  BY CancelLockFields DEF NodeInv
<1>2. /\ m \in Node /\ m.role = "follower" /\ m.lock = FALSE
      /\ m.latched = "none"
  BY <1>1 DEF Node, None
<1> HIDE DEF c, m
<1>3. /\ g \in Node /\ g.role = "follower" /\ g.lock = FALSE
      /\ g.latched = "none" /\ g.gateClosed = FALSE
  BY <1>2, FreshGateFields
<1> HIDE DEF g
<1>4. /\ r \in Node /\ r.role = "follower" /\ r.lock = FALSE /\ r.ctx = "none"
      /\ r.latched = "none" /\ r.gateClosed = FALSE /\ r.at = "idle"
  BY <1>3 DEF Node
<1> HIDE DEF r
<1>5. NodeInv(r, i)
  BY <1>4 DEF NodeInv
<1>6. QED
  BY <1>5 DEF Release, c, m, g, r

\* Handling a heartbeat is one of the above, or only refreshes the timestamp.
LEMMA HeartbeatKeeps ==
    ASSUME NEW i \in Instance, NEW n, NodeInv(n, i), NEW s \in Instance,
           NEW claim
    PROVE  NodeInv(Heartbeat(n, i, s, claim), i)
<1>1. NodeInv([n EXCEPT !.age = 0], i)
  BY DEF NodeInv, Node, Never
<1>2. QED
  BY <1>1, FollowKeeps, BecomeLeaderKeeps DEF Heartbeat

\* Counting a degraded tick may only resign.
LEMMA DegradeKeeps ==
    ASSUME NEW i \in Instance, NEW n, NodeInv(n, i), NEW d
    PROVE  NodeInv(Degrade(n, d), i)
<1> DEFINE count == IF ~d THEN 0
                    ELSE IF n.degraded < MaxDegraded THEN n.degraded + 1
                    ELSE MaxDegraded
           counted == [n EXCEPT !.degraded = count]
<1>1. n \in Node /\ count \in 0 .. MaxDegraded
  BY DEF NodeInv, Node
<1>2. NodeInv(counted, i)
  BY <1>1 DEF NodeInv, Node
<1>3. QED
  BY <1>2, ResignKeeps DEF Degrade

----------------------------------------------------------------------------
(* Every step                                                              *)

\* A step on one started instance that keeps its part keeps every part.
LEMMA OneNode ==
    ASSUME IInv, NEW i \in Instance, up[i] = "up", UNCHANGED up,
           NEW n, NodeInv(n, i), node' = [node EXCEPT ![i] = n]
    PROVE  /\ node' \in [Instance -> Node]
           /\ NewIsFresh'
           /\ \A j \in Instance : NodeInv(node[j], j)'
<1>1. n \in Node
  BY DEF NodeInv
<1>2. node' \in [Instance -> Node]
  BY <1>1 DEF IInv, TypeOK
<1>3. ASSUME NEW j \in Instance
      PROVE  NodeInv(node'[j], j) /\ (up'[j] = "new" => node'[j] = NewNode)
  BY DEF IInv, TypeOK, NewIsFresh
<1>4. QED
  BY <1>2, <1>3 DEF NewIsFresh

\* A freshly started instance, and a dead one, keep their part.
LEMMA NewNodeKeeps ==
    ASSUME NEW i \in Instance
    PROVE  /\ NodeInv(NewNode, i)
           /\ NodeInv([NewNode EXCEPT !.role = "candidate"], i)
<1>1. NewNode \in Node
  BY CountersTyped DEF NewNode, Node, None
<1>2. [NewNode EXCEPT !.role = "candidate"] \in Node
  BY <1>1 DEF Node
<1>3. QED
  BY <1>1, <1>2 DEF NodeInv, NewNode

\* The invariant holds before any instance starts.
LEMMA InitIInv == Init => IInv
<1> SUFFICES ASSUME Init PROVE IInv
  OBVIOUS
<1>1. NewNode \in Node /\ Quiet \in Beat
  BY DEF NewNode, Node, Quiet, Beat, Never, None
<1>2. TypeOK
  BY <1>1 DEF Init, TypeOK
<1>3. QED
  BY <1>2, NewNodeKeeps DEF Init, IInv, NewIsFresh

\* Boot replaces a fresh Election by a candidate, or by a lone leader.
LEMMA BootStep ==
    ASSUME IInv, NEW i \in Instance, Boot(i)
    PROVE  IInv'
<1> DEFINE n == IF Peers(i) = {} THEN BecomeLeader(NewNode, i)
                                 ELSE [NewNode EXCEPT !.role = "candidate"]
<1>1. NodeInv(n, i)
  BY NewNodeKeeps, BecomeLeaderKeeps
<1> HIDE DEF n
<1>2. /\ up[i] = "new" /\ up' = [up EXCEPT ![i] = "up"]
      /\ node' = [node EXCEPT ![i] = n]
      /\ due' = [due EXCEPT ![i] = {"elect"}]
      /\ UNCHANGED <<beat, faults>>
  BY DEF Boot, IInv, NewIsFresh, TypeOK, n
<1>3. n \in Node
  BY <1>1 DEF NodeInv
<1>4. TypeOK'
  BY <1>2, <1>3 DEF IInv, TypeOK
<1>5. ASSUME NEW j \in Instance
      PROVE  NodeInv(node'[j], j) /\ (up'[j] = "new" => node'[j] = NewNode)
  BY <1>1, <1>2 DEF IInv, TypeOK, NewIsFresh
<1>6. QED
  BY <1>4, <1>5 DEF IInv, NewIsFresh

\* The timers and tickers of one instance.
LEMMA TimerStep ==
    ASSUME IInv, NEW i \in Instance,
           ElectionTimeout(i) \/ FailureCheck(i) \/ StartBeat(i) \/ Yield(i)
    PROVE  IInv'
<1>0. NodeInv(node[i], i) /\ TypeOK
  BY DEF IInv
<1>1. CASE ElectionTimeout(i)
  <2> DEFINE n == IF node[i].leaderId \in {None, i} THEN BecomeLeader(node[i], i)
                                                    ELSE node[i]
  <2>1. NodeInv(n, i)
    BY <1>0, BecomeLeaderKeeps
  <2>2. /\ up[i] = "up" /\ node' = [node EXCEPT ![i] = n]
        /\ due' = [due EXCEPT ![i] = @ \ {"elect now"}]
        /\ UNCHANGED <<up, beat, faults>>
    BY <1>0, <1>1 DEF ElectionTimeout, Idle, TypeOK
  <2> HIDE DEF n
  <2>3. QED
    BY <1>0, <2>1, <2>2, OneNode DEF IInv, TypeOK
<1>2. CASE FailureCheck(i)
  <2> DEFINE n == IF /\ node[i].role = "follower" /\ node[i].leaderId # i
                     /\ node[i].age > MissedThreshold
                  THEN BecomeLeader(node[i], i) ELSE node[i]
  <2>1. NodeInv(n, i)
    BY <1>0, BecomeLeaderKeeps
  <2>2. /\ up[i] = "up" /\ node' = [node EXCEPT ![i] = n]
        /\ due' = [due EXCEPT ![i] = @ \ {"check"}]
        /\ UNCHANGED <<up, beat, faults>>
    BY <1>0, <1>2 DEF FailureCheck, Idle, TypeOK
  <2> HIDE DEF n
  <2>3. QED
    BY <1>0, <2>1, <2>2, OneNode DEF IInv, TypeOK
<1>3. CASE StartBeat(i)
  <2> DEFINE b == [Quiet EXCEPT !.on = TRUE, !.todo = Peers(i),
                                !.isLeader = node[i].role = "leader"]
  <2>1. b \in Beat
    BY DEF Quiet, Beat, Peers, None
  <2>2. /\ beat' = [beat EXCEPT ![i] = b]
        /\ due' = [due EXCEPT ![i] = @ \ {"beat"}]
        /\ UNCHANGED <<up, node, faults>>
    BY <1>3 DEF StartBeat
  <2> HIDE DEF b
  <2>3. QED
    BY <1>0, <2>1, <2>2 DEF IInv, TypeOK, NewIsFresh
<1>4. CASE Yield(i)
  <2>1. NodeInv(Resign(node[i]), i)
    BY <1>0, ResignKeeps
  <2>2. /\ up[i] = "up" /\ node' = [node EXCEPT ![i] = Resign(node[i])]
        /\ UNCHANGED <<up, due, beat>>
    BY <1>0, <1>4 DEF Yield, Idle, TypeOK
  <2>3. faults' \in 0 .. MaxFaults
    BY <1>0, <1>4, CountersTyped DEF Yield, TypeOK
  <2>4. QED
    BY <1>0, <2>1, <2>2, <2>3, OneNode DEF IInv, TypeOK
<1>5. QED
  BY <1>1, <1>2, <1>3, <1>4

\* One heartbeat tick: calls, lost calls, replies and the degraded count.
LEMMA BeatStep ==
    ASSUME IInv, NEW i \in Instance, ReadReply(i) \/ FinishBeat(i) \/ Calls(i)
    PROVE  IInv'
<1>0. NodeInv(node[i], i) /\ TypeOK
  BY DEF IInv
<1>1. CASE ReadReply(i)
  <2> DEFINE n == IF beat[i].reply < i /\ node[i].role = "leader"
                  THEN Follow(node[i], beat[i].reply) ELSE node[i]
  <2>1. beat[i].reply \in Instance
    BY <1>0, <1>1 DEF ReadReply, TypeOK, Beat
  <2>2. NodeInv(n, i)
    BY <1>0, <2>1, FollowKeeps
  <2>3. /\ up[i] = "up" /\ node' = [node EXCEPT ![i] = n]
        /\ beat' = [beat EXCEPT ![i].reply = None]
        /\ UNCHANGED <<up, due, faults>>
    BY <1>0, <1>1 DEF ReadReply, TypeOK
  <2> HIDE DEF n
  <2>4. beat' \in [Instance -> Beat]
    <3>1. beat \in [Instance -> Beat]
      BY <1>0 DEF TypeOK
    <3>2. [beat[i] EXCEPT !.reply = None] \in Beat
      BY <3>1 DEF Beat
    <3>3. beat' = [beat EXCEPT ![i] = [beat[i] EXCEPT !.reply = None]]
      BY <2>3
    <3> QED
      BY <3>1, <3>2, <3>3
  <2>5. QED
    BY <1>0, <2>2, <2>3, <2>4, OneNode DEF IInv, TypeOK
<1>2. CASE FinishBeat(i)
  <2>0. PICK probeOk \in BOOLEAN :
          /\ probeOk \/ faults < MaxFaults
          /\ faults' = IF probeOk THEN faults ELSE faults + 1
          /\ node' = [node EXCEPT ![i] =
                IF beat[i].isLeader /\ MaxDegraded > 0
                THEN Degrade(@, DegradedTick(i, probeOk)) ELSE @]
    BY <1>2 DEF FinishBeat
  <2> DEFINE n == IF beat[i].isLeader /\ MaxDegraded > 0
                  THEN Degrade(node[i], DegradedTick(i, probeOk)) ELSE node[i]
  <2>1. NodeInv(n, i)
    BY <1>0, DegradeKeeps
  <2>2. /\ up[i] = "up" /\ node' = [node EXCEPT ![i] = n]
        /\ beat' = [beat EXCEPT ![i] = Quiet]
        /\ UNCHANGED <<up, due>>
    BY <1>0, <1>2, <2>0 DEF FinishBeat, TypeOK
  <2>4. faults' \in 0 .. MaxFaults
    BY <1>0, <2>0, CountersTyped DEF TypeOK
  <2> HIDE DEF n
  <2>3. Quiet \in Beat
    BY DEF Quiet, Beat, None
  <2>5. QED
    BY <1>0, <2>1, <2>2, <2>3, <2>4, OneNode DEF IInv, TypeOK
<1>3. ASSUME NEW j \in Peers(i), Call(i, j)
      PROVE  IInv'
  <2> DEFINE n == Heartbeat(node[j], j, i, beat[i].isLeader)
  <2>1. j \in Instance /\ NodeInv(node[j], j)
    BY DEF IInv, Peers
  <2>2. NodeInv(n, j)
    BY <2>1, HeartbeatKeeps
  <2>3. Reply(node[j], i, beat[i].isLeader) \in Instance \cup {None}
    BY <2>1 DEF Reply, NodeInv, Node
  <2>4. /\ up[j] = "up" /\ node' = [node EXCEPT ![j] = n]
        /\ beat' = [beat EXCEPT ![i].todo = @ \ {j},
                                ![i].reply = Reply(node[j], i, beat[i].isLeader)]
        /\ UNCHANGED <<up, due, faults>>
    BY <1>0, <1>3, <2>1 DEF Call, TypeOK
  <2> HIDE DEF n
  <2>5. beat' \in [Instance -> Beat]
    <3>1. beat[i] \in Beat
      BY <1>0 DEF TypeOK
    <3>2. [beat[i] EXCEPT !.todo = @ \ {j},
                          !.reply = Reply(node[j], i, beat[i].isLeader)] \in Beat
      BY <2>3, <3>1 DEF Beat
    <3>3. beat' = [beat EXCEPT ![i] =
                      [beat[i] EXCEPT !.todo = @ \ {j},
                             !.reply = Reply(node[j], i, beat[i].isLeader)]]
      BY <1>0, <1>3 DEF Call, TypeOK
    <3>4. QED
      BY <1>0, <3>2, <3>3 DEF TypeOK
  <2>6. QED
    BY <1>0, <2>1, <2>2, <2>4, <2>5, OneNode DEF IInv, TypeOK
<1>4. ASSUME NEW j \in Peers(i), CallFails(i, j)
      PROVE  IInv'
  <2> DEFINE n == Heartbeat(node[j], j, i, beat[i].isLeader)
  <2>1. j \in Instance /\ NodeInv(node[j], j)
    BY DEF IInv, Peers
  <2>2. NodeInv(n, j)
    BY <2>1, HeartbeatKeeps
  <2>3. UNCHANGED <<up, due>> /\ faults' \in 0 .. MaxFaults
    BY <1>0, <1>4, CountersTyped DEF CallFails, TypeOK
  <2>4. UNCHANGED node \/ (up[j] = "up" /\ node' = [node EXCEPT ![j] = n])
    <3>1. up[j] = "up" \/ UNCHANGED node
      BY <1>4 DEF CallFails
    <3>2. UNCHANGED node \/ node' = [node EXCEPT ![j] =
                                Heartbeat(@, j, i, beat[i].isLeader)]
      BY <1>4 DEF CallFails
    <3>3. QED
      BY <1>0, <2>1, <3>1, <3>2 DEF TypeOK
  <2> HIDE DEF n
  <2>5. beat' \in [Instance -> Beat]
    <3>1. beat[i] \in Beat
      BY <1>0 DEF TypeOK
    <3>2. [beat[i] EXCEPT !.todo = @ \ {j}, !.failures = @ + 1] \in Beat
      <4>1. beat[i].failures + 1 \in Nat
        BY <3>1 DEF Beat
      <4>2. QED
        BY <3>1, <4>1 DEF Beat
    <3>3. beat' = [beat EXCEPT ![i] =
                      [beat[i] EXCEPT !.todo = @ \ {j}, !.failures = @ + 1]]
      BY <1>0, <1>4 DEF CallFails, TypeOK
    <3>4. QED
      BY <1>0, <3>2, <3>3 DEF TypeOK
  <2>6. CASE UNCHANGED node
    BY <1>0, <2>3, <2>5, <2>6 DEF IInv, TypeOK, NewIsFresh
  <2>7. CASE up[j] = "up" /\ node' = [node EXCEPT ![j] = n]
    BY <1>0, <2>1, <2>2, <2>3, <2>5, <2>7, OneNode DEF IInv, TypeOK
  <2>8. QED
    BY <2>4, <2>6, <2>7
<1>5. QED
  BY <1>1, <1>2, <1>3, <1>4 DEF Calls

\* The keeper loop: it waits only inside Run() and LockCtx(), and takes a live
\* context only from an instance that holds the lock.
LEMMA KeepersKeep ==
    ASSUME IInv, NEW i \in Instance, Keepers(i)
    PROVE  IInv'
<1>0. NodeInv(node[i], i) /\ TypeOK /\ node[i] \in Node
  BY DEF IInv, TypeOK
<1>1. ASSUME NEW n, NEW from, NodeInv(n, i), KeeperStep(i, from, n)
      PROVE  IInv'
  BY <1>0, <1>1, OneNode DEF KeeperStep, IInv, TypeOK
<1>2. CASE EnterRun(i)
  <2> DEFINE n == [node[i] EXCEPT !.at = "run", !.latched = Latch(node[i])]
  <2>1. node[i].at = "idle"
    BY <1>2 DEF EnterRun, KeeperStep
  <2>2. NodeInv(n, i)
    BY <1>0, <2>1 DEF NodeInv, Node, Latch
  <2>3. QED
    BY <1>1, <1>2, <2>2 DEF EnterRun
<1>3. CASE RunReturns(i)
  <2> DEFINE n == [node[i] EXCEPT !.at = "lockctx", !.latched = "none"]
  <2>1. node[i].at = "run"
    BY <1>3 DEF RunReturns, KeeperStep
  <2>2. NodeInv(n, i)
    BY <1>0, <2>1 DEF NodeInv, Node
  <2>3. QED
    BY <1>1, <1>3, <2>2 DEF RunReturns
<1>4. CASE EnterLockCtx(i)
  <2> DEFINE n == [node[i] EXCEPT !.at = "lockwait", !.latched = Latch(node[i])]
  <2>1. node[i].at = "lockctx"
    BY <1>4 DEF EnterLockCtx, KeeperStep
  <2>2. NodeInv(n, i)
    BY <1>0, <2>1 DEF NodeInv, Node, Latch
  <2>3. QED
    BY <1>1, <1>4, <2>2 DEF EnterLockCtx
<1>5. CASE LockCtxReturns(i)
  <2> DEFINE n == [node[i] EXCEPT !.at = "work", !.latched = "none",
                      !.ctx = IF node[i].lock THEN "live" ELSE "cancelled"]
  <2>1. NodeInv(n, i)
    BY <1>0 DEF NodeInv, Node
  <2>2. QED
    BY <1>1, <1>5, <2>1 DEF LockCtxReturns
<1>6. CASE KeepersStopped(i)
  <2>1. node[i].at = "work"
    BY <1>6 DEF KeepersStopped, KeeperStep
  <2>2. QED
    BY <1>0, <1>1, <1>6, <2>1, ReleaseKeeps DEF KeepersStopped
<1>7. QED
  BY <1>2, <1>3, <1>4, <1>5, <1>6 DEF Keepers

\* A crash forgets everything about an instance.
LEMMA CrashStep ==
    ASSUME IInv, NEW i \in Instance, Crash(i)
    PROVE  IInv'
<1>1. NodeInv(NewNode, i) /\ NewNode \in Node /\ Quiet \in Beat
  BY NewNodeKeeps DEF NodeInv, Quiet, Beat, None
<1>2. TypeOK'
  BY <1>1 DEF Crash, IInv, TypeOK
<1>3. ASSUME NEW j \in Instance
      PROVE  NodeInv(node'[j], j) /\ (up'[j] = "new" => node'[j] = NewNode)
  BY <1>1 DEF Crash, IInv, TypeOK, NewIsFresh
<1>4. QED
  BY <1>2, <1>3 DEF IInv, NewIsFresh

\* Time only ages what the instances last heard.
LEMMA TickStep ==
    ASSUME IInv, Tick
    PROVE  IInv'
<1>1. ASSUME NEW n \in Node, n.age \in 0 .. MissedThreshold, NEW j, NodeInv(n, j)
      PROVE  NodeInv([n EXCEPT !.age = @ + 1], j)
  BY <1>1 DEF NodeInv, Node, Never
<1>2. ASSUME NEW j \in Instance
      PROVE  NodeInv(node'[j], j) /\ (up'[j] = "new" => node'[j] = NewNode)
  <2>1. NodeInv(node[j], j) /\ node[j] \in Node
    BY DEF IInv, TypeOK
  <2>2. NodeInv(node'[j], j)
    BY <1>1, <2>1 DEF Tick
  <2>3. NewNode.age \notin 0 .. MissedThreshold
    BY DEF NewNode, Never
  <2>4. QED
    BY <2>2, <2>3 DEF Tick, IInv, NewIsFresh
<1>3. TypeOK'
  <2>1. node' \in [Instance -> Node]
    BY <1>2 DEF Tick, NodeInv
  <2>2. due' \in [Instance -> SUBSET {"beat", "check", "elect", "elect now"}]
    BY DEF Tick
  <2>3. QED
    BY <2>1, <2>2 DEF Tick, IInv, TypeOK
<1>4. QED
  BY <1>2, <1>3 DEF IInv, NewIsFresh

\* Every step of every instance preserves the invariant.
LEMMA NextIInv == IInv /\ [Next]_vars => IInv'
<1> SUFFICES ASSUME IInv, [Next]_vars PROVE IInv'
  OBVIOUS
<1>1. ASSUME NEW i \in Instance, Loop(i) PROVE IInv'
  BY <1>1, BootStep, TimerStep, BeatStep DEF Loop
<1>2. ASSUME NEW i \in Instance, Calls(i) PROVE IInv'
  BY <1>2, BeatStep
<1>3. ASSUME NEW i \in Instance, Keepers(i) PROVE IInv'
  BY <1>3, KeepersKeep
<1>4. ASSUME NEW i \in Instance, Yield(i) PROVE IInv'
  BY <1>4, TimerStep
<1>5. ASSUME NEW i \in Instance, Crash(i) PROVE IInv'
  BY <1>5, CrashStep
<1>6. CASE Tick
  BY <1>6, TickStep
<1>7. CASE UNCHANGED vars
  BY <1>7 DEF vars, IInv, TypeOK, NewIsFresh
<1>8. QED
  BY <1>1, <1>2, <1>3, <1>4, <1>5, <1>6, <1>7 DEF Next

----------------------------------------------------------------------------
(* The theorems                                                            *)

\* The inductive invariant holds in every reachable state.
THEOREM Inductive == Spec => []IInv
  BY InitIInv, NextIInv, PTL DEF Spec

\* Every field keeps its type, the heartbeats in flight included.
THEOREM TypeCorrect == Spec => []TypeOK
<1>1. IInv => TypeOK
  BY DEF IInv
<1>2. QED
  BY <1>1, Inductive, PTL

\* The keepers of an instance run under a live context only while it leads.
THEOREM KeepersStopWithLeadership == Spec => []KeepersRunOnlyForLeader
<1>1. IInv => KeepersRunOnlyForLeader
  BY DEF IInv, NodeInv, KeepersRunOnlyForLeader
<1>2. QED
  BY <1>1, Inductive, PTL

\* Nobody ever waits on a gate that was replaced before it was closed.
THEOREM NobodyOrphaned == Spec => []NoOrphanWaiter
<1>1. IInv => NoOrphanWaiter
  BY DEF IInv, NodeInv, NoOrphanWaiter
<1>2. QED
  BY <1>1, Inductive, PTL

\* A closed gate always comes with a lock to hand out, and an open one never.
THEOREM GateAlwaysMatchesLock == Spec => []GateMatchesLock
<1>1. IInv => GateMatchesLock
  BY DEF IInv, NodeInv, GateMatchesLock
<1>2. QED
  BY <1>1, Inductive, PTL

=============================================================================

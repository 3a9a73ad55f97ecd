----------------------------- MODULE ChainWatcher -----------------------------
(***************************************************************************)
(* The indexer's watcher walks the chain in ranges and dispatches every    *)
(* event to its handler; the instant lane (ObserveTx) and the reindexgov   *)
(* command dispatch events of their own at any time.  Calls fail, the      *)
(* process dies, RPC endpoints lag, and the chain may be reorganised.      *)
(* Events of the chain come from a legal history of the contracts, at most *)
(* one to a block.                                                         *)
(***************************************************************************)
EXTENDS EventRows

CONSTANTS
    Histories,     \* the sequences of events the contracts may emit
    ReorgSafety,   \* the profile's finality depth
    Chunk,         \* blocks asked for in one getLogs call
    EndpointLags,  \* how many blocks an endpoint's head may be behind
    ReorgDepths,   \* how many blocks a reorganisation may replace
    MaxHeight,     \* bound: blocks mined
    Budgets        \* bound: reorganisations, faults and observations of a behaviour

\* Mutation: the watcher reads up to a block nearer the tip than endpoints agree on.
headLagShort == 1

headLag == 2

ASSUME WatcherAssumption ==
    /\ \A hist \in Histories : hist \in Seq(Events)
                             /\ \A i \in DOMAIN hist :
                                   /\ hist[i].tx = i
                                   /\ hist[i].type = "BidPlaced" => hist[i].who \in Holders
    /\ IsFiniteSet(Holders)
    /\ ReorgSafety \in Nat /\ ReorgSafety >= headLag
    /\ Chunk \in Nat \ {0} /\ EndpointLags \subseteq Nat
    /\ ReorgDepths \subseteq Nat \ {0} /\ MaxHeight \in Nat \ {0}
    /\ \A b \in Budgets : {b.reorgs, b.faults, b.observed} \subseteq Nat

VARIABLES
    history,     \* the events the contracts emit, constant
    chain,       \* per height, the block's fork and the event in it (0 for none)
    forks,       \* the forks seen so far
    wpc,         \* where the watcher is in its tick
    lastBlock, lastBlockParent, target, from, todo, failed,   \* its locals
    cursor,      \* indexer_state.indexed_block
    checkpoint,  \* the collections' last_scanned_block
    tables,      \* what the handlers wrote
    observing,   \* the transaction whose receipt an observer holds
    observed,    \* observedSet
    budget,      \* what is left of the behaviour's budget
    dispatched, notices, missed, inTurn   \* history variables

chainVars == <<history, chain, forks>>
localVars == <<wpc, lastBlock, lastBlockParent, target, from, todo, failed>>
observerVars == <<observing, observed>>
vars == <<chainVars, localVars, cursor, checkpoint, tables, observerVars, budget,
          dispatched, notices, missed, inTurn>>

None == 0
NoHash == 0
Top == Len(chain)
EventsAt(h) == {chain[h].ev} \ {None}
Mined == {chain[h].ev : h \in DOMAIN chain} \ {None}
HeightOf(i) == CHOOSE h \in DOMAIN chain : chain[h].ev = i
IsMove(i) == history[i].type = "TransferSingle"

\* The identity of the block before height h; the genesis block is of fork 1.
ParentHash(h) == IF h = 1 THEN 1 ELSE chain[h - 1].fork

Init ==
    /\ history \in Histories
    /\ chain = <<>> /\ forks = 1
    /\ wpc = "down" /\ lastBlock = 0 /\ lastBlockParent = NoHash
    /\ target = 0 /\ from = 0 /\ todo = {} /\ failed = FALSE
    /\ cursor = 0 /\ checkpoint = 0 /\ tables = NoRows
    /\ observing = None /\ observed = {} /\ budget \in Budgets
    /\ dispatched = {} /\ missed = {} /\ inTurn = 1
    /\ notices = [i \in 1 .. Len(history) |-> 0]

Spend(what) == budget[what] > 0 /\ budget' = [budget EXCEPT ![what] = @ - 1]
Fault == Spend("faults")
NoFault == UNCHANGED budget

\* The blocks below inTurn had their handlers run in the order of the chain, and since
\* then nobody ran one of theirs again, or of a block replaced among them.
LowerTurn(h) == inTurn' = IF h < inTurn THEN h ELSE inTurn

----------------------------------------------------------------------------
(* The chain.                                                              *)

Extend(n, forkOf, evs) == [i \in 1 .. n |-> [fork |-> forkOf, ev |-> evs[i]]]

\* Every event stands on a block after all the events before it.
InOrder(blocks) ==
    \A h \in DOMAIN blocks :
        blocks[h].ev # None => {blocks[g].ev : g \in 1 .. h - 1} \ {None} = 1 .. blocks[h].ev - 1

\* The next block holds the contracts' next event, or none.
Mine ==
    /\ Top < MaxHeight
    /\ \E ev \in 0 .. Len(history) : chain' = Append(chain, [fork |-> forks, ev |-> ev])
    /\ InOrder(chain')
    /\ UNCHANGED <<history, forks, localVars, cursor, checkpoint, tables,
                   observerVars, budget, dispatched, notices, missed, inTurn>>

\* Blocks the watcher has read may be replaced only when it is deeper than headLag.
Reorg(depth) ==
    /\ Spend("reorgs") /\ depth <= Top
    /\ forks' = forks + 1
    /\ \E evs \in [1 .. depth -> 0 .. Len(history)] :
          /\ chain' = SubSeq(chain, 1, Top - depth) \o Extend(depth, forks + 1, evs)
    /\ InOrder(chain')
    /\ LowerTurn(Top - depth + 1)
    /\ missed' = IF depth <= headLag THEN missed
                 ELSE missed \cup (Top - depth + 1 .. Top - headLag)
    /\ UNCHANGED <<history, localVars, cursor, checkpoint, tables, observerVars,
                   dispatched, notices>>

----------------------------------------------------------------------------
(* A dispatch by anyone: the watcher, an observer or the command.          *)

\* The notice may fail to be written; the row stays.  Two notices stand for more.
Handle(i) ==
    /\ tables' = Dispatch(tables, history[i])
    /\ dispatched' = dispatched \cup {i}
    /\ IF Notifies(tables, history[i])
       THEN \/ notices' = [notices EXCEPT ![i] = IF @ < 2 THEN @ + 1 ELSE 2] /\ NoFault
            \/ UNCHANGED notices /\ Fault
       ELSE UNCHANGED notices /\ NoFault

\* Mutation: a failure is remembered into the next range.
StopRemembering ==
    /\ wpc' = "idle" /\ target' = 0 /\ from' = 0 /\ todo' = {} /\ UNCHANGED failed

Stop == /\ wpc' = "idle" /\ target' = 0 /\ from' = 0 /\ todo' = {} /\ failed' = FALSE

----------------------------------------------------------------------------
(* The watcher.                                                            *)

\* Each of the three reads may fail: the code goes on without its answer.
Start ==
    /\ wpc = "down"
    /\ \E block, point \in BOOLEAN, header \in BOOLEAN :
          LET base == IF block THEN cursor ELSE 0
              begin == IF point /\ checkpoint > 0 /\ checkpoint < base THEN checkpoint
                       ELSE base
          IN  /\ IF block /\ point /\ header THEN NoFault ELSE Fault
              /\ lastBlock' = begin
              /\ lastBlockParent' = IF begin > 0 /\ header THEN ParentHash(begin) ELSE NoHash
    /\ Stop
    /\ UNCHANGED <<chainVars, cursor, checkpoint, tables, observerVars, dispatched,
                   notices, missed, inTurn>>

Broken == lastBlock > 0 /\ lastBlockParent # NoHash /\ ParentHash(lastBlock) # lastBlockParent

\* A tick that finds another parent goes back, whether the head moved or not.
Rewind ==
    /\ wpc = "idle" /\ Top > ReorgSafety /\ Broken
    /\ lastBlock' = IF lastBlock > ReorgSafety THEN lastBlock - ReorgSafety ELSE 0
    /\ lastBlockParent' = NoHash
    /\ \/ cursor' = lastBlock' /\ NoFault
       \/ UNCHANGED cursor /\ Fault
    /\ missed' = {h \in missed : h <= lastBlock' \/ h <= cursor'}
    /\ UNCHANGED <<chainVars, wpc, target, from, todo, failed, checkpoint, tables,
                   observerVars, dispatched, notices, inTurn>>

\* A header that cannot be read leaves the parent unchecked.
StartRange ==
    /\ wpc = "idle"
    /\ \E lag \in EndpointLags :
          /\ Top - lag > ReorgSafety
          /\ Top - lag - headLag > lastBlock
          /\ target' = Top - lag - headLag
    /\ IF Broken THEN Fault ELSE NoFault
    /\ wpc' = "filter" /\ from' = lastBlock + 1
    /\ UNCHANGED <<chainVars, lastBlock, lastBlockParent, todo, failed, cursor,
                   checkpoint, tables, observerVars, dispatched, notices, missed, inTurn>>

RangeEnd == IF from + Chunk - 1 > target THEN target ELSE from + Chunk - 1

\* getLogs of an endpoint that is behind answers without the blocks it lacks.
FilterLogs(lag, moves) ==
    LET answered == {h \in from .. RangeEnd : h <= Top - lag}
    IN  {ev \in {chain[h].ev : h \in answered} \ {None} : IsMove(ev) = moves}

\* Events are numbered in the order of the chain, and dispatched in it.
NextLog == CHOOSE i \in todo : \A j \in todo : i <= j

FilterCore ==
    /\ wpc = "filter"
    /\ \/ \E lag \in EndpointLags : todo' = FilterLogs(lag, FALSE)
          /\ wpc' = "core" /\ UNCHANGED <<target, from, failed>> /\ NoFault
       \/ Stop /\ Fault
    /\ UNCHANGED <<chainVars, lastBlock, lastBlockParent, cursor, checkpoint, tables,
                   observerVars, dispatched, notices, missed, inTurn>>

\* A header that cannot be read ends the range; a failed dispatch is remembered
\* and the next log is tried.
DispatchCore ==
    /\ wpc = "core" /\ todo # {}
    /\ LET i == NextLog IN
       \/ /\ ~Refused(tables, history[i]) /\ Handle(i) /\ LowerTurn(from)
          /\ todo' = todo \ {i} /\ UNCHANGED <<wpc, target, from, failed>>
       \/ /\ todo' = todo \ {i} /\ failed' = TRUE
          /\ IF Refused(tables, history[i]) THEN NoFault ELSE Fault
          /\ UNCHANGED <<wpc, target, from, tables, dispatched, notices, inTurn>>
       \/ Stop /\ Fault /\ UNCHANGED <<tables, dispatched, notices, inTurn>>
    /\ UNCHANGED <<chainVars, lastBlock, lastBlockParent, cursor, checkpoint,
                   observerVars, missed>>

FilterMoves ==
    /\ wpc = "core" /\ todo = {}
    /\ \/ /\ ~failed
          /\ \E lag \in EndpointLags : todo' = FilterLogs(lag, TRUE)
          /\ wpc' = "moves" /\ UNCHANGED <<target, from, failed>> /\ NoFault
       \/ failed /\ Stop /\ NoFault
       \/ ~failed /\ Stop /\ Fault
    /\ UNCHANGED <<chainVars, lastBlock, lastBlockParent, cursor, checkpoint, tables,
                   observerVars, dispatched, notices, missed, inTurn>>

DispatchMove ==
    /\ wpc = "moves" /\ todo # {}
    /\ \/ /\ Handle(NextLog)
          /\ todo' = todo \ {NextLog} /\ UNCHANGED <<wpc, target, from, failed>>
       \/ Stop /\ Fault /\ UNCHANGED <<tables, dispatched, notices>>
    /\ UNCHANGED <<chainVars, lastBlock, lastBlockParent, cursor, checkpoint,
                   observerVars, missed, inTurn>>

SetCollectionCheckpoints ==
    /\ wpc = "moves" /\ todo = {}
    /\ wpc' = "cursor"
    /\ inTurn' = IF from <= inTurn /\ inTurn <= RangeEnd /\ missed \cap (from .. RangeEnd) = {}
                 THEN RangeEnd + 1 ELSE inTurn
    /\ \/ checkpoint' = RangeEnd /\ NoFault
       \/ UNCHANGED checkpoint /\ Fault
    /\ UNCHANGED <<chainVars, lastBlock, lastBlockParent, target, from, todo, failed,
                   cursor, tables, observerVars, dispatched, notices, missed>>

SetIndexedBlock ==
    /\ wpc = "cursor"
    /\ \/ cursor' = RangeEnd /\ NoFault
       \/ UNCHANGED cursor /\ Fault
    /\ IF RangeEnd < target
       THEN wpc' = "filter" /\ from' = RangeEnd + 1
       ELSE wpc' = "tip" /\ UNCHANGED from
    /\ UNCHANGED <<chainVars, lastBlock, lastBlockParent, target, todo, failed,
                   checkpoint, tables, observerVars, dispatched, notices, missed, inTurn>>

FinishRange ==
    /\ wpc = "tip"
    /\ lastBlock' = target
    /\ \/ lastBlockParent' = ParentHash(target) /\ NoFault
       \/ lastBlockParent' = NoHash /\ Fault
    /\ Stop
    /\ UNCHANGED <<chainVars, cursor, checkpoint, tables, observerVars, dispatched,
                   notices, missed, inTurn>>

Crash ==
    /\ wpc # "down" /\ Fault
    /\ wpc' = "down" /\ lastBlock' = 0 /\ lastBlockParent' = NoHash
    /\ target' = 0 /\ from' = 0 /\ todo' = {} /\ failed' = FALSE
    /\ observing' = None /\ observed' = {}
    /\ UNCHANGED <<chainVars, cursor, checkpoint, tables, dispatched, notices, missed,
                   inTurn>>

----------------------------------------------------------------------------
(* The instant lane and the command reindexgov.                            *)

Relevant(i) == history[i].type # "KeeperSet"

ObserveReceipt(i) ==
    /\ wpc # "down" /\ observing = None
    /\ i \in Mined \ observed /\ Relevant(i)
    /\ observing' = i /\ Spend("observed")
    /\ UNCHANGED <<chainVars, localVars, cursor, checkpoint, tables, observed,
                   dispatched, notices, missed, inTurn>>

\* An event the watcher has behind it, or of the blocks it is at, is handled out of turn.
OutOfTurn(i) ==
    IF i \notin Mined THEN UNCHANGED inTurn
    ELSE LowerTurn(IF HeightOf(i) \in from .. RangeEnd THEN from - 1 ELSE HeightOf(i))

ObserveDispatch ==
    /\ observing # None
    /\ \/ /\ ~Refused(tables, history[observing])
          /\ Handle(observing)
          /\ observed' = observed \cup {observing}
          /\ OutOfTurn(observing)
       \/ /\ Refused(tables, history[observing])
          /\ UNCHANGED <<tables, dispatched, notices, observed, inTurn, budget>>
    /\ observing' = None
    /\ UNCHANGED <<chainVars, localVars, cursor, checkpoint, missed>>

ReindexGovernance(i) ==
    /\ i \in Mined /\ history[i].type = "KeeperSet" /\ HeightOf(i) <= Top - headLag
    /\ i \notin tables.trail
    /\ Handle(i)
    /\ UNCHANGED <<chainVars, localVars, cursor, checkpoint, observerVars, missed, inTurn>>

----------------------------------------------------------------------------
WatcherStep == \/ Start \/ Rewind \/ StartRange \/ FilterCore \/ DispatchCore
               \/ FilterMoves \/ DispatchMove \/ SetCollectionCheckpoints
               \/ SetIndexedBlock \/ FinishRange

Next ==
    \/ Mine \/ \E depth \in ReorgDepths : Reorg(depth)
    \/ WatcherStep \/ Crash
    \/ \E i \in Mined : ObserveReceipt(i) \/ ReindexGovernance(i)
    \/ ObserveDispatch

Spec == Init /\ [][Next]_vars

\* The watcher's loop runs and a dead process is started again.
FairSpec == Spec /\ WF_vars(WatcherStep)

----------------------------------------------------------------------------
(* Properties.                                                             *)

TypeOK ==
    /\ history \in Histories /\ chain \in Seq([fork : 1 .. forks, ev : 0 .. Len(history)])
    /\ wpc \in {"down", "idle", "filter", "core", "moves", "cursor", "tip"}
    /\ {lastBlock, target, from, cursor, checkpoint} \subseteq 0 .. MaxHeight
    /\ lastBlockParent \in 0 .. forks /\ todo \subseteq 1 .. Len(history)
    /\ failed \in BOOLEAN /\ inTurn \in 0 .. MaxHeight + 1
    /\ tables \in Tables
    /\ observing \in 0 .. Len(history) /\ observed \subseteq 1 .. Len(history)
    /\ missed \subseteq 1 .. MaxHeight
    /\ dispatched \subseteq 1 .. Len(history) /\ notices \in [1 .. Len(history) -> 0 .. 2]

\* No block the watcher believes indexed, in memory or after a restart, holds an
\* event no handler has run for, whatever call failed and wherever it died; blocks
\* replaced deeper than headLag are exempt until a rewind goes below them.
CursorLosesNothing ==
    \A h \in DOMAIN chain :
        (h <= lastBlock \/ h <= cursor) /\ h \notin missed => EventsAt(h) \subseteq dispatched

Settled == wpc = "idle" /\ lastBlock < inTurn
Ahead == \E i \in dispatched : i \notin Mined \/ HeightOf(i) > lastBlock

\* The rows that one run of the handlers over the chain up to a height leaves.
Below(h) == {chain[g].ev : g \in 1 .. h} \ {None}
Once(h) == RowsAfter([i \in Below(h) |-> history[i]])

\* When the watcher rests on blocks handled in turn, and nobody is ahead of it, the
\* auction, its bids, the pending offer, the sales and the trail are what one run of the
\* handlers over the chain leaves, however often events were handled again on the way.
RowsMatchChain ==
    Settled /\ ~Ahead =>
        LET once == Once(lastBlock)
        IN  /\ tables.auction.status = once.auction.status /\ tables.bids = once.bids
            /\ tables.auction.leader = once.auction.leader
            /\ tables.auction.high = once.auction.high
            /\ once.auction.status = "active" => tables.auction = once.auction
            /\ tables.offer.pending = once.offer.pending
            /\ tables.sales = once.sales /\ tables.trail = once.trail

\* The units of the ERC-1155 are what one run of the handlers over the chain leaves.
\* runner.go:717 calls every handler an idempotent upsert, so that a replay is safe.
UnitsMatchChain ==
    Settled /\ ~Ahead => tables.units = Once(lastBlock).units

\* A governance event alerts at most once, however many dispatch it.
AlertsAtMostOnce ==
    \A i \in DOMAIN notices : history[i].type = "KeeperSet" => notices[i] <= 1

\* The watcher catches up: unless a reorganisation hid a block from it, no event
\* buried deeper than headLag stays without its handler.
Behind == /\ missed = {} /\ Top > ReorgSafety
          /\ \E h \in DOMAIN chain : h <= Top - headLag /\ ~(EventsAt(h) \subseteq dispatched)
EveryEventIndexed == Behind ~> ~Behind
==============================================================================

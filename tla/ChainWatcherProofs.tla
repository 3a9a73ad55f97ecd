------------------------- MODULE ChainWatcherProofs -------------------------
(***************************************************************************)
(* Proofs about ChainWatcher for every set of histories, every finality    *)
(* depth, chunk, endpoint lag within headLag and depth of reorganisation,  *)
(* any number of blocks and any budget of faults and observations.         *)
(***************************************************************************)
EXTENDS ChainWatcher, SequenceTheorems, FiniteSetTheorems, WellFoundedInduction, TLAPS

----------------------------------------------------------------------------
(* The inductive invariant                                                 *)

InRange == wpc \in {"filter", "core", "moves", "cursor"}

\* Every variable but the tables, whose shape is all the proofs need.
Typed ==
    /\ history \in Histories /\ forks \in Nat \ {0}
    /\ chain \in Seq([fork : 1 .. forks, ev : 0 .. Len(history)])
    /\ Top <= MaxHeight
    /\ wpc \in {"down", "idle", "filter", "core", "moves", "cursor", "tip"}
    /\ lastBlock \in Nat /\ target \in Nat /\ from \in Nat
    /\ cursor \in Nat /\ checkpoint \in Nat
    /\ lastBlockParent \in 0 .. forks /\ todo \subseteq 1 .. Len(history)
    /\ failed \in BOOLEAN /\ inTurn \in 0 .. Top + 1
    /\ observing \in 0 .. Len(history) /\ observed \subseteq 1 .. Len(history)
    /\ missed \subseteq 1 .. MaxHeight
    /\ dispatched \subseteq 1 .. Len(history)
    /\ notices \in [1 .. Len(history) -> 0 .. 2]
    /\ DOMAIN tables = DOMAIN NoRows

\* Deep enough that only a reorganisation deeper than headLag replaces it.
Buried(h) == h = 0 \/ h + headLag <= Top

\* The watcher stands on buried blocks, and its range is not empty.
Position ==
    /\ Buried(lastBlock) /\ Buried(target) /\ Buried(cursor) /\ Buried(checkpoint)
    /\ InRange \/ wpc = "tip" => from \in 1 .. target
    /\ wpc \in {"down", "idle"} => from = 0 /\ target = 0

\* Nothing is left to do for a block.
Covered(h) == h \in missed \/ EventsAt(h) \subseteq dispatched

\* What is left to do for a block is in the watcher's hands.
Queued(h) == h \in missed \/ EventsAt(h) \subseteq dispatched \cup todo

\* The same in the first of the two phases, but for the moves.
QueuedButMoves(h) ==
    h \in missed \/ \A ev \in EventsAt(h) : ~IsMove(ev) => ev \in dispatched \cup todo

Walk ==
    /\ \A h \in DOMAIN chain : h <= lastBlock \/ h <= cursor => Covered(h)
    /\ InRange => \A h \in DOMAIN chain : h < from => Covered(h)
    /\ wpc = "core" /\ ~failed => \A h \in from .. RangeEnd : QueuedButMoves(h)
    /\ wpc = "moves" => \A h \in from .. RangeEnd : Queued(h)
    /\ wpc = "cursor" => \A h \in from .. RangeEnd : Covered(h)
    /\ wpc = "tip" => \A h \in DOMAIN chain : h <= target => Covered(h)

\* A governance event was announced once, and then its row is there.
Announced ==
    \A i \in DOMAIN notices :
        history[i].type = "KeeperSet" /\ notices[i] > 0
            => notices[i] = 1 /\ history[i].tx \in tables.trail

IInv == Typed /\ Position /\ Walk /\ Announced

----------------------------------------------------------------------------
USE WatcherAssumption

\* A history is a sequence of events.
LEMMA HistoryType ==
    ASSUME Typed
    PROVE  /\ history \in Seq(Events) /\ Len(history) \in Nat
           /\ \A i \in 1 .. Len(history) : history[i] \in Events
  BY DEF Typed

\* No handler adds or drops a table, and only the governance handler writes the
\* trail, which only grows.
LEMMA DispatchShape ==
    ASSUME NEW t, DOMAIN t = DOMAIN NoRows, NEW e \in Events
    PROVE  /\ DOMAIN Dispatch(t, e) = DOMAIN NoRows
           /\ Dispatch(t, e).trail = IF e.type = "KeeperSet" THEN t.trail \cup {e.tx}
                                                             ELSE t.trail
<1>1. e.type \in EventTypes
  BY DEF Events
<1>2. /\ "auction" \in DOMAIN t /\ "bids" \in DOMAIN t /\ "offer" \in DOMAIN t
      /\ "sales" \in DOMAIN t /\ "units" \in DOMAIN t /\ "trail" \in DOMAIN t
  BY DEF NoRows
<1>3. CASE e.type = "AuctionCreated"
  BY <1>2, <1>3 DEF Dispatch, OnAuctionCreated
<1>4. CASE e.type = "BidPlaced"
  BY <1>2, <1>4 DEF Dispatch, OnBidPlaced
<1>5. CASE e.type = "AuctionExtended"
  BY <1>2, <1>5 DEF Dispatch, OnAuctionExtended
<1>6. CASE e.type = "AuctionSettled"
  BY <1>2, <1>6 DEF Dispatch, OnAuctionSettled, SetAuctionStatus
<1>7. CASE e.type = "AuctionCancelled"
  BY <1>2, <1>7 DEF Dispatch, OnAuctionCancelled, SetAuctionStatus
<1>8. CASE e.type = "OfferMade"
  BY <1>2, <1>8 DEF Dispatch, OnOfferMade
<1>9. CASE e.type = "OfferAccepted"
  BY <1>2, <1>9 DEF Dispatch, OnOfferAccepted, CloseOffer
<1>10. CASE e.type = "OfferRefunded"
  BY <1>2, <1>10 DEF Dispatch, OnOfferRefunded, CloseOffer
<1>11. CASE e.type = "TransferSingle"
  BY <1>2, <1>11 DEF Dispatch, OnTransferSingle
<1>12. CASE e.type = "KeeperSet"
  BY <1>2, <1>12 DEF Dispatch, OnGovernance
<1> QED
  BY <1>1, <1>3, <1>4, <1>5, <1>6, <1>7, <1>8, <1>9, <1>10, <1>11, <1>12
     DEF EventTypes, AuctionEvents, OfferEvents

\* Whoever dispatches an event: a governance event is announced only while its
\* row is missing, and the same dispatch writes the row.
LEMMA HandleStep ==
    ASSUME Typed, Announced, NEW i \in 1 .. Len(history), Handle(i),
           UNCHANGED history
    PROVE  /\ DOMAIN tables' = DOMAIN NoRows
           /\ dispatched' = dispatched \cup {i}
           /\ notices' \in [1 .. Len(history) -> 0 .. 2]
           /\ Announced'
<1>1. history[i] \in Events
  BY HistoryType
<1>2. /\ tables' = Dispatch(tables, history[i])
      /\ dispatched' = dispatched \cup {i}
      /\ notices \in [1 .. Len(history) -> 0 .. 2]
      /\ \/ notices' = notices
         \/ /\ Notifies(tables, history[i])
            /\ notices' = [notices EXCEPT ![i] = IF notices[i] < 2 THEN notices[i] + 1 ELSE 2]
  BY DEF Handle, Typed
<1>3. /\ DOMAIN tables' = DOMAIN NoRows
      /\ tables'.trail = IF history[i].type = "KeeperSet"
                         THEN tables.trail \cup {history[i].tx} ELSE tables.trail
  BY <1>1, <1>2, DispatchShape DEF Typed
<1>4. notices' \in [1 .. Len(history) -> 0 .. 2]
  BY <1>2
<1>5. ASSUME NEW j \in 1 .. Len(history), history[j].type = "KeeperSet", notices'[j] > 0
      PROVE  notices'[j] = 1 /\ history[j].tx \in tables'.trail
  <2>1. notices[j] > 0 => notices[j] = 1 /\ history[j].tx \in tables.trail
    BY <1>2, <1>5 DEF Announced
  <2>2. CASE notices'[j] = notices[j]
    BY <1>3, <1>5, <2>1, <2>2
  <2>3. CASE notices'[j] # notices[j]
    <3>1. /\ j = i /\ Notifies(tables, history[j])
          /\ notices'[j] = IF notices[j] < 2 THEN notices[j] + 1 ELSE 2
      BY <1>2, <2>3
    <3>2. history[j].tx \notin tables.trail
      BY <1>5, <3>1 DEF Notifies
    <3>3. notices[j] = 0
      BY <1>2, <2>1, <3>2
    <3> QED
      BY <1>3, <1>5, <3>1, <3>3
  <2> QED
    BY <2>2, <2>3
<1> QED
  BY <1>2, <1>3, <1>4, <1>5 DEF Announced

----------------------------------------------------------------------------
(* The chain's own steps                                                   *)

LEMMA ChainType ==
    ASSUME Typed
    PROVE  /\ Top \in Nat /\ DOMAIN chain = 1 .. Top
           /\ \A h \in 1 .. Top : /\ chain[h] \in [fork : 1 .. forks, ev : 0 .. Len(history)]
                                 /\ EventsAt(h) \subseteq 1 .. Len(history)
           /\ Mined \subseteq 1 .. Len(history)
           /\ \A h \in 1 .. Top + 1 : ParentHash(h) \in 1 .. forks
<1>1. Top \in Nat /\ DOMAIN chain = 1 .. Top
  BY DEF Typed, Top
<1>2. \A h \in 1 .. Top : chain[h] \in [fork : 1 .. forks, ev : 0 .. Len(history)]
  <2> DEFINE Blocks == [fork : 1 .. forks, ev : 0 .. Len(history)]
  <2>1. chain \in Seq(Blocks)
    BY DEF Typed
  <2> HIDE DEF Blocks
  <2>2. \A h \in 1 .. Len(chain) : chain[h] \in Blocks
    BY <2>1, ElementOfSeq
  <2> QED
    BY <2>2 DEF Top, Blocks
<1>3. Len(history) \in Nat
  BY HistoryType
<1>4. \A h \in 1 .. Top : EventsAt(h) \subseteq 1 .. Len(history)
  BY <1>2, <1>3 DEF EventsAt, None
<1>5. Mined \subseteq 1 .. Len(history)
  BY <1>1, <1>2, <1>3 DEF Mined, None
<1>6. ASSUME NEW h \in 1 .. Top + 1
      PROVE  ParentHash(h) \in 1 .. forks
  <2>1. CASE h = 1
    BY <2>1 DEF ParentHash, Typed
  <2>2. CASE h # 1
    <3>1. h - 1 \in 1 .. Top
      BY <1>1, <2>2
    <3> QED
      BY <1>2, <2>2, <3>1 DEF ParentHash
  <2> QED
    BY <2>1, <2>2
<1> QED
  BY <1>1, <1>2, <1>4, <1>5, <1>6

LEMMA ChainTypeNext ==
    ASSUME Typed'
    PROVE  Top' \in Nat /\ DOMAIN chain' = 1 .. Top'
<1>1. chain' \in Seq([fork : 1 .. forks', ev : 0 .. Len(history')])
  BY DEF Typed
<1> QED
  BY <1>1, LenProperties DEF Top

LEMMA PlacesType ==
    ASSUME Typed
    PROVE  /\ Top \in Nat /\ DOMAIN chain = 1 .. Top
           /\ from \in Nat /\ target \in Nat /\ lastBlock \in Nat /\ cursor \in Nat
           /\ inTurn \in Nat /\ inTurn <= Top + 1
<1>1. Top \in Nat /\ DOMAIN chain = 1 .. Top
  BY ChainType
<1>2. inTurn \in 0 .. Top + 1
  BY DEF Typed
<1>3. inTurn \in Nat /\ inTurn <= Top + 1
  BY ONLY <1>1, <1>2
<1> QED
  BY <1>1, <1>3 DEF Typed

LEMMA LowerTurnType ==
    ASSUME Typed, NEW h \in Nat, LowerTurn(h)
    PROVE  inTurn' \in 0 .. Top + 1 /\ inTurn' <= inTurn /\ inTurn' <= h
  BY ChainType DEF Typed, LowerTurn

\* What a step of the chain leaves as it was: a buried block is the same block, or
\* one that the watcher cannot be blamed for.
ChainGrows ==
    /\ Top <= Top'
    /\ missed \subseteq missed'
    /\ \A h \in 1 .. Top : h + headLag <= Top => chain'[h] = chain[h] \/ h \in missed'

LEMMA MineGrows ==
    ASSUME Typed, Mine
    PROVE  ChainGrows /\ Typed'
<1>1. PICK ev \in 0 .. Len(history) : chain' = Append(chain, [fork |-> forks, ev |-> ev])
  BY DEF Mine
<1>4. Top' = Top + 1 /\ \A h \in 1 .. Top : chain'[h] = chain[h]
  BY <1>1 DEF Typed, Top
<1>5. chain' \in Seq([fork : 1 .. forks, ev : 0 .. Len(history)])
  <2>1. [fork |-> forks, ev |-> ev] \in [fork : 1 .. forks, ev : 0 .. Len(history)]
    BY DEF Typed
  <2> QED
    BY <1>1, <2>1 DEF Typed
<1>6. ChainGrows
  BY <1>4, ChainType DEF ChainGrows, Mine
<1>7. Top' <= MaxHeight /\ inTurn' \in 0 .. Top' + 1
  <2>1. Top \in Nat /\ Top < MaxHeight /\ inTurn' = inTurn /\ inTurn \in 0 .. Top + 1
    BY ChainType DEF Mine, Typed
  <2> QED
    BY ONLY <2>1, <1>4, WatcherAssumption
<1> QED
  BY <1>5, <1>6, <1>7 DEF Mine, Typed, localVars, observerVars

LEMMA FunctionIsSeq ==
    ASSUME NEW S, NEW n \in Nat, NEW f \in [1 .. n -> S]
    PROVE  f \in Seq(S) /\ Len(f) = n
  OBVIOUS

LEMMA ReorgGrows ==
    ASSUME Typed, NEW depth \in ReorgDepths, Reorg(depth)
    PROVE  /\ ChainGrows /\ Typed'
           /\ \A h \in 1 .. Top - depth : chain'[h] = chain[h]
<1> DEFINE Blocks(n) == [fork : 1 .. n, ev : 0 .. Len(history)]
<1>1. depth \in Nat \ {0} /\ depth <= Top /\ forks' = forks + 1 /\ forks \in Nat \ {0}
  BY DEF Reorg, Typed
<1>2. PICK evs \in [1 .. depth -> 0 .. Len(history)] :
          chain' = SubSeq(chain, 1, Top - depth) \o Extend(depth, forks + 1, evs)
  BY DEF Reorg
<1> DEFINE old == SubSeq(chain, 1, Top - depth)
           new == Extend(depth, forks + 1, evs)
<1>3. Top \in Nat /\ Top - depth \in 0 .. Top
  BY <1>1, ChainType
<1>4. chain \in Seq(Blocks(forks + 1))
  <2>1. Blocks(forks) \subseteq Blocks(forks + 1)
    BY <1>1
  <2>2. chain \in Seq(Blocks(forks))
    BY DEF Typed
  <2> HIDE DEF Blocks
  <2> QED
    BY <2>1, <2>2, SeqMonotonic
<1>5. /\ old \in Seq(Blocks(forks + 1)) /\ Len(old) = Top - depth
      /\ \A h \in 1 .. Top - depth : old[h] = chain[h]
  <2> HIDE DEF Blocks
  <2>1. \A h \in 1 .. Top - depth : chain[h] \in Blocks(forks + 1)
    BY <1>1, <1>3, <1>4, ElementOfSeq DEF Top
  <2> HIDE DEF old
  <2>2. /\ old \in Seq(Blocks(forks + 1))
        /\ Len(old) = IF 1 <= Top - depth THEN Top - depth - 1 + 1 ELSE 0
        /\ \A h \in 1 .. Top - depth - 1 + 1 : old[h] = chain[1 + h - 1]
    BY <1>3, <2>1, SubSeqProperties DEF old
  <2> QED
    BY <1>3, <2>2
<1>6. new \in Seq(Blocks(forks + 1)) /\ Len(new) = depth
  <2>1. \A i \in 1 .. depth : [fork |-> forks + 1, ev |-> evs[i]] \in Blocks(forks + 1)
    BY <1>1, <1>2
  <2>2. new \in [1 .. depth -> Blocks(forks + 1)]
    BY <2>1 DEF Extend
  <2> HIDE DEF new, Blocks
  <2> QED
    BY <1>1, <2>2, FunctionIsSeq
<1> HIDE DEF old, new, Blocks
<1>7. chain' = old \o new
  BY <1>2 DEF old, new
<1>8. /\ chain' \in Seq(Blocks(forks + 1)) /\ Len(chain') = Top
      /\ \A h \in 1 .. Top - depth : chain'[h] = chain[h]
  <2>1. /\ chain' \in Seq(Blocks(forks + 1)) /\ Len(chain') = Len(old) + Len(new)
        /\ \A h \in 1 .. Len(old) + Len(new) :
              chain'[h] = IF h <= Len(old) THEN old[h] ELSE new[h - Len(old)]
    <3>1. /\ old \o new \in Seq(Blocks(forks + 1)) /\ Len(old \o new) = Len(old) + Len(new)
          /\ \A h \in 1 .. Len(old) + Len(new) :
                (old \o new)[h] = IF h <= Len(old) THEN old[h] ELSE new[h - Len(old)]
      <4>1. old \in Seq(Blocks(forks + 1)) /\ new \in Seq(Blocks(forks + 1))
        BY <1>5, <1>6
      <4> QED
        BY ONLY <4>1, ConcatProperties, SMTT(30)
    <3> QED
      BY <1>7, <3>1
  <2>2. Len(old) + Len(new) = Top
    BY <1>1, <1>3, <1>5, <1>6
  <2>3. ASSUME NEW h \in 1 .. Top - depth
        PROVE  chain'[h] = chain[h]
    <3>1. h \in 1 .. Len(old) + Len(new) /\ h <= Len(old)
      BY <1>1, <1>3, <1>5, <2>2
    <3> QED
      BY <1>5, <2>1, <3>1
  <2> QED
    BY <2>1, <2>2, <2>3
<1>9. missed' = IF depth <= headLag THEN missed
                ELSE missed \cup (Top - depth + 1 .. Top - headLag)
  BY DEF Reorg
<1>10. ChainGrows
  <2>1. Top' = Top
    BY <1>8 DEF Top
  <2>2. ASSUME NEW h \in 1 .. Top, h + headLag <= Top, h > Top - depth
        PROVE  h \in missed'
    BY <1>1, <1>3, <1>9, <2>2 DEF headLag
  <2>3. \A h \in 1 .. Top : h + headLag <= Top => chain'[h] = chain[h] \/ h \in missed'
    <3>1. \A h \in 1 .. Top : h \in 1 .. Top - depth \/ h > Top - depth
      BY <1>1, <1>3
    <3> QED
      BY <1>8, <2>2, <3>1
  <2>4. missed \subseteq missed' /\ Top <= Top'
    BY <1>3, <1>9, <2>1
  <2> QED
    BY <2>3, <2>4 DEF ChainGrows
<1>11. Top' <= MaxHeight
  BY <1>8 DEF Top, Typed
<1>12. missed' \subseteq 1 .. MaxHeight
  BY <1>1, <1>3, <1>9 DEF Typed, headLag
<1>13. chain' \in Seq([fork : 1 .. forks', ev : 0 .. Len(history')])
  BY <1>1, <1>8 DEF Blocks, Reorg
<1>14. lastBlockParent \in 0 .. forks'
  BY <1>1 DEF Typed
<1>15. UNCHANGED <<history, wpc, lastBlock, target, from, cursor, checkpoint, lastBlockParent,
                   todo, failed, observing, observed, dispatched, notices, tables>>
  BY DEF Reorg, localVars, observerVars
<1>16. forks' \in Nat \ {0} /\ inTurn' \in 0 .. Top' + 1
  <2>1. Top' = Top
    BY <1>8 DEF Top
  <2>2. LowerTurn(Top - depth + 1) /\ Top - depth + 1 \in Nat
    BY <1>1, <1>3 DEF Reorg
  <2> QED
    BY <1>1, <1>3, <2>1, <2>2, LowerTurnType
<1> HIDE DEF Blocks
<1>17. Typed'
  BY <1>11, <1>12, <1>13, <1>14, <1>15, <1>16 DEF Typed
<1> QED
  BY <1>8, <1>10, <1>17

\* The chunk the watcher is in lies in its range, and the range is buried.
LEMMA RangeIsBuried ==
    ASSUME Typed, Position
    PROVE  /\ InRange => RangeEnd \in from .. target /\ target + headLag <= Top
           /\ wpc = "tip" => target + headLag <= Top
           /\ InRange => from \in 1 .. target
<1>1. Chunk \in Nat \ {0} /\ from \in Nat /\ target \in Nat
  BY DEF Typed
<1>2. Buried(target) /\ (InRange \/ wpc = "tip" => from \in 1 .. target)
  BY DEF Position
<1>3. InRange => target + headLag <= Top
  BY <1>1, <1>2 DEF Buried
<1>4. wpc = "tip" => target + headLag <= Top
  BY <1>1, <1>2 DEF Buried
<1> QED
  BY <1>1, <1>2, <1>3, <1>4 DEF RangeEnd

\* A buried block stays so, and what a step of the chain leaves of it is enough.
LEMMA BuriedStays ==
    ASSUME Typed, Typed', ChainGrows, NEW h \in Nat, Buried(h)
    PROVE  /\ Buried(h)'
           /\ \A g \in DOMAIN chain' : g <= h =>
                 g \in DOMAIN chain /\ (chain'[g] = chain[g] \/ g \in missed')
<1>1. Top \in Nat /\ Top' \in Nat /\ DOMAIN chain = 1 .. Top /\ DOMAIN chain' = 1 .. Top'
  <2>1. Top \in Nat /\ DOMAIN chain = 1 .. Top
    BY ChainType
  <2>2. Top' \in Nat /\ DOMAIN chain' = 1 .. Top'
    BY ChainTypeNext
  <2> QED
    BY <2>1, <2>2
<1>2. Top <= Top'
  BY DEF ChainGrows
<1>3. Buried(h)'
  BY <1>1, <1>2 DEF Buried, headLag
<1>4. ASSUME NEW g \in DOMAIN chain', g <= h
      PROVE  g \in 1 .. Top /\ g + headLag <= Top
  BY <1>1, <1>4 DEF Buried, headLag
<1> QED
  BY <1>1, <1>3, <1>4 DEF ChainGrows

LEMMA ChainStep ==
    ASSUME Typed, Position, Walk, Announced, Typed', ChainGrows,
           UNCHANGED <<history, localVars, cursor, checkpoint, tables, dispatched, notices>>
    PROVE  Position' /\ Walk' /\ Announced'
<1> USE DEF localVars
<1>1. Position'
  BY BuriedStays DEF Position, InRange, Typed
<1>2. Announced'
  BY DEF Announced
<1>3. RangeEnd' = RangeEnd /\ (InRange' <=> InRange)
  BY DEF RangeEnd, InRange
<1>4. ASSUME NEW g \in DOMAIN chain', NEW b \in Nat, Buried(b), g <= b
      PROVE  /\ g \in DOMAIN chain
             /\ Covered(g) => Covered(g)'
             /\ Queued(g) => Queued(g)'
             /\ QueuedButMoves(g) => QueuedButMoves(g)'
  <2>1. g \in DOMAIN chain /\ (chain'[g] = chain[g] \/ g \in missed')
    BY <1>4, BuriedStays
  <2>2. missed \subseteq missed'
    BY DEF ChainGrows
  <2>3. EventsAt(g)' = EventsAt(g) \/ g \in missed'
    BY <2>1 DEF EventsAt
  <2> QED
    BY <2>1, <2>2, <2>3 DEF Covered, Queued, QueuedButMoves, IsMove
<1>5. /\ lastBlock \in Nat /\ cursor \in Nat /\ target \in Nat
      /\ Buried(lastBlock) /\ Buried(cursor) /\ Buried(target)
  BY DEF Typed, Position
<1>6. DOMAIN chain' \subseteq Nat /\ from \in Nat
  BY ChainTypeNext, PlacesType
<1>7. InRange => /\ from \in 1 .. target
                 /\ RangeEnd \in from .. target /\ from .. RangeEnd \subseteq DOMAIN chain'
  <2>1. DOMAIN chain' = 1 .. Top' /\ Top <= Top' /\ Top \in Nat /\ Top' \in Nat
    BY DEF Typed, Top, ChainGrows
  <2> QED
    BY <2>1, <1>5, <1>6, RangeIsBuried DEF headLag
<1>8. (\A h \in DOMAIN chain : h <= lastBlock \/ h <= cursor => Covered(h))'
  BY <1>4, <1>5 DEF Walk
<1>9. (InRange => \A h \in DOMAIN chain : h < from => Covered(h))'
  <2> SUFFICES ASSUME InRange, NEW h \in DOMAIN chain', h < from
               PROVE  Covered(h)'
    BY <1>3
  <2>1. h <= target
    BY <1>5, <1>6, <1>7
  <2> QED
    BY <1>4, <1>5, <2>1 DEF Walk
<1>10. ASSUME InRange, NEW h \in from .. RangeEnd
       PROVE  h \in DOMAIN chain' /\ h <= target
  BY <1>5, <1>7, <1>10
<1>11. (wpc = "core" /\ ~failed => \A h \in from .. RangeEnd : QueuedButMoves(h))'
  BY <1>3, <1>4, <1>5, <1>10 DEF Walk, InRange
<1>12. (wpc = "moves" => \A h \in from .. RangeEnd : Queued(h))'
  BY <1>3, <1>4, <1>5, <1>10 DEF Walk, InRange
<1>13. (wpc = "cursor" => \A h \in from .. RangeEnd : Covered(h))'
  BY <1>3, <1>4, <1>5, <1>10 DEF Walk, InRange
<1>14. (wpc = "tip" => \A h \in DOMAIN chain : h <= target => Covered(h))'
  BY <1>4, <1>5 DEF Walk
<1>15. Walk'
  BY <1>8, <1>9, <1>11, <1>12, <1>13, <1>14 DEF Walk
<1> QED
  BY <1>1, <1>2, <1>15

----------------------------------------------------------------------------
(* The watcher's steps                                                     *)

\* No endpoint is further behind than the blocks the watcher stays off the tip.
EndpointsKeepUp == EndpointLags \subseteq 0 .. headLag

LEMMA InitIInv ==
    ASSUME Init
    PROVE  IInv
<1> USE DEF Init
<1>1. history \in Histories /\ Len(history) \in Nat
  <2>1. history \in Seq(Events)
    BY DEF Init
  <2> QED
    BY <2>1, LenProperties
<1>2. Typed
  <2>1. chain \in Seq([fork : 1 .. forks, ev : 0 .. Len(history)]) /\ Top = 0
    BY EmptySeq DEF Top
  <2>2. notices \in [1 .. Len(history) -> 0 .. 2]
    BY DEF Init
  <2>3. /\ forks \in Nat \ {0} /\ Top <= MaxHeight /\ wpc = "down"
        /\ lastBlock \in Nat /\ target \in Nat /\ from \in Nat /\ cursor \in Nat
        /\ checkpoint \in Nat /\ lastBlockParent \in 0 .. forks
    BY <2>1 DEF NoHash
  <2>4. /\ todo \subseteq 1 .. Len(history) /\ observing \in 0 .. Len(history)
        /\ observed \subseteq 1 .. Len(history) /\ missed \subseteq 1 .. MaxHeight
        /\ dispatched \subseteq 1 .. Len(history)
    BY <1>1 DEF None
  <2>5. failed \in BOOLEAN /\ inTurn \in 0 .. Top + 1 /\ DOMAIN tables = DOMAIN NoRows
    <3>1. inTurn = 1 /\ Top = 0
      BY <2>1
    <3>2. inTurn \in 0 .. Top + 1
      BY ONLY <3>1
    <3> QED
      BY <3>2
  <2> HIDE DEF Init
  <2> QED
    BY <1>1, <2>1, <2>2, <2>3, <2>4, <2>5 DEF Typed
<1>3. Position
  BY DEF Position, Buried, InRange
<1>4. Walk
  BY DEF Walk, InRange
<1>5. Announced
  BY <1>1 DEF Announced
<1> QED
  BY <1>2, <1>3, <1>4, <1>5 DEF IInv

LEMMA StartStep ==
    ASSUME IInv, Start
    PROVE  IInv'
<1> USE DEF IInv
<1>1. PICK begin \in {0, cursor, checkpoint} :
          /\ begin <= cursor /\ lastBlock' = begin
          /\ lastBlockParent' \in {NoHash} \cup (IF begin > 0 THEN {ParentHash(begin)} ELSE {})
  <2>1. cursor \in Nat /\ checkpoint \in Nat
    BY DEF Typed
  <2>2. PICK block \in BOOLEAN, point \in BOOLEAN, header \in BOOLEAN :
            LET base == IF block THEN cursor ELSE 0
                begin == IF point /\ checkpoint > 0 /\ checkpoint < base THEN checkpoint
                         ELSE base
            IN  /\ lastBlock' = begin
                /\ lastBlockParent' = IF begin > 0 /\ header THEN ParentHash(begin) ELSE NoHash
    BY DEF Start
  <2> QED
    BY <2>1, <2>2
<1>2. /\ wpc' = "idle" /\ target' = 0 /\ from' = 0 /\ todo' = {} /\ failed' = FALSE
      /\ UNCHANGED <<history, chain, forks, cursor, checkpoint, tables, observing, observed,
                     dispatched, notices, missed, inTurn>>
  BY DEF Start, Stop, chainVars, observerVars
<1>3. Buried(begin) /\ begin \in Nat
  BY <1>1 DEF Position, Buried, Typed
<1>4. lastBlockParent' \in 0 .. forks
  <2>1. begin > 0 => begin \in 1 .. Top + 1
    BY <1>3, ChainType DEF Buried, headLag
  <2> QED
    BY <1>1, <2>1, ChainType DEF NoHash, Typed
<1>5. Typed'
  BY <1>2, <1>1, <1>3, <1>4 DEF Typed, Top
<1>6. Position'
  BY <1>1, <1>2, <1>3 DEF Position, Buried, InRange, Top
<1>7. Walk'
  <2>1. ASSUME NEW h \in DOMAIN chain, h <= begin \/ h <= cursor
        PROVE  Covered(h)
    <3>1. h <= cursor
      BY <1>1, <1>3, <2>1 DEF Typed
    <3> QED
      BY <3>1 DEF Walk
  <2> QED
    BY <1>1, <1>2, <2>1 DEF Walk, InRange, Covered, EventsAt
<1>8. Announced'
  BY <1>2 DEF Announced
<1> QED
  BY <1>5, <1>6, <1>7, <1>8

LEMMA RewindStep ==
    ASSUME IInv, Rewind
    PROVE  IInv'
<1> USE DEF IInv
<1>1. /\ lastBlock \in Nat /\ cursor \in Nat /\ lastBlock' \in Nat /\ lastBlock' <= lastBlock
      /\ cursor' = lastBlock' \/ cursor' = cursor
      /\ cursor' \in Nat
      /\ missed' = {h \in missed : h <= lastBlock' \/ h <= cursor'}
      /\ wpc = "idle" /\ lastBlockParent' = NoHash
      /\ UNCHANGED <<history, chain, forks, wpc, target, from, todo, failed, checkpoint,
                     tables, observing, observed, dispatched, notices, inTurn>>
  BY DEF Rewind, Typed, chainVars, observerVars
<1>2. Typed'
  <2>1. missed' \subseteq missed
    BY <1>1
  <2>2. lastBlockParent' \in 0 .. forks'
    BY <1>1 DEF Typed, NoHash
  <2> HIDE DEF IInv
  <2> QED
    BY <1>1, <2>1, <2>2 DEF Typed, Top, IInv
<1>3. Position'
  <2>1. Buried(lastBlock) /\ Top \in Nat
    BY ChainType DEF Position
  <2>2. Buried(lastBlock')
    <3>1. lastBlock = 0 \/ lastBlock + 2 <= Top
      BY <2>1 DEF Buried, headLag
    <3>2. lastBlock \in Nat /\ lastBlock' \in Nat /\ lastBlock' <= lastBlock
      BY <1>1
    <3>3. lastBlock' = 0 \/ lastBlock' + 2 <= Top
      <4>1. \A a, b, t \in Nat : (a = 0 \/ a + 2 <= t) /\ b <= a => b = 0 \/ b + 2 <= t
        OBVIOUS
      <4> QED
        BY <2>1, <3>1, <3>2, <4>1
    <3> QED
      BY <3>3 DEF Buried, headLag
  <2> QED
    BY <1>1, <2>2 DEF Position, Buried, InRange, Top
<1>4. Walk'
  <2>1. ASSUME NEW h \in DOMAIN chain, h <= lastBlock' \/ h <= cursor'
        PROVE  Covered(h)'
    <3>1. h <= lastBlock \/ h <= cursor
      BY <1>1, <2>1, ChainType
    <3>2. Covered(h)
      BY <3>1 DEF Walk
    <3> QED
      BY <1>1, <2>1, <3>2 DEF Covered, EventsAt
  <2> QED
    BY <1>1, <2>1 DEF Walk, InRange
<1>5. Announced'
  BY <1>1 DEF Announced
<1> QED
  BY <1>2, <1>3, <1>4, <1>5

LEMMA StartRangeStep ==
    ASSUME IInv, StartRange, EndpointsKeepUp
    PROVE  IInv'
<1> USE DEF IInv
<1>1. PICK lag \in EndpointLags :
          Top - lag - headLag > lastBlock /\ target' = Top - lag - headLag
  BY DEF StartRange
<1>2. lag \in 0 .. headLag /\ Top \in Nat /\ lastBlock \in Nat
  BY ChainType DEF EndpointsKeepUp, Typed
<1>3. /\ wpc = "idle" /\ wpc' = "filter" /\ from' = lastBlock + 1
      /\ UNCHANGED <<history, chain, forks, lastBlock, lastBlockParent, todo, failed, cursor,
                     checkpoint, tables, observing, observed, dispatched, notices, missed, inTurn>>
  BY DEF StartRange, chainVars, observerVars
<1>4. target' \in Nat /\ from' \in 1 .. target' /\ target' + headLag <= Top
  BY <1>1, <1>2, <1>3 DEF headLag
<1>5. Typed'
  BY <1>3, <1>4 DEF Typed, Top
<1>6. Position'
  BY <1>3, <1>4 DEF Position, Buried, InRange, Top
<1>7. Walk'
  <2>1. ASSUME NEW h \in DOMAIN chain, h < lastBlock + 1
        PROVE  Covered(h)
    BY <2>1, <1>2, ChainType DEF Walk
  <2> QED
    BY <1>3, <2>1 DEF Walk, InRange, Covered, EventsAt
<1>8. Announced'
  BY <1>3 DEF Announced
<1> QED
  BY <1>5, <1>6, <1>7, <1>8

\* What the calls of a range bring: all that is asked for, for its blocks are
\* buried deeper than any endpoint is behind.
LEMMA FilterLogsComplete ==
    ASSUME Typed, Position, InRange, EndpointsKeepUp, NEW lag \in EndpointLags,
           NEW moves \in BOOLEAN
    PROVE  /\ FilterLogs(lag, moves) \subseteq 1 .. Len(history)
           /\ \A h \in from .. RangeEnd :
                 \A ev \in EventsAt(h) : IsMove(ev) = moves => ev \in FilterLogs(lag, moves)
<1>1. /\ RangeEnd \in from .. target /\ target + headLag <= Top /\ from \in 1 .. target
      /\ Top \in Nat /\ target \in Nat /\ lag \in 0 .. headLag
  BY RangeIsBuried, ChainType DEF EndpointsKeepUp, Typed
<1>2. \A h \in from .. RangeEnd : h \in 1 .. Top /\ h <= Top - lag
  BY <1>1 DEF headLag
<1>3. FilterLogs(lag, moves) \subseteq 1 .. Len(history)
  BY <1>2, ChainType DEF FilterLogs, EventsAt
<1>4. ASSUME NEW h \in from .. RangeEnd, NEW ev \in EventsAt(h), IsMove(ev) = moves
      PROVE  ev \in FilterLogs(lag, moves)
  BY <1>2, <1>4 DEF FilterLogs, EventsAt
<1> QED
  BY <1>3, <1>4

\* A step of the watcher that gives up its range.
LEMMA StopStep ==
    ASSUME IInv, Stop,
           UNCHANGED <<chainVars, lastBlock, lastBlockParent, cursor, checkpoint, tables,
                       observerVars, dispatched, notices, missed, inTurn>>
    PROVE  IInv'
<1> USE DEF IInv, Stop, chainVars, observerVars
<1>1. Typed'
  BY DEF Typed, Top
<1>2. Position'
  BY DEF Position, Buried, InRange, Top
<1>3. Walk'
  BY DEF Walk, InRange, Covered, EventsAt
<1>4. Announced'
  BY DEF Announced
<1> QED
  BY <1>1, <1>2, <1>3, <1>4

LEMMA FilterCoreStep ==
    ASSUME IInv, FilterCore, EndpointsKeepUp
    PROVE  IInv'
<1>1. CASE Stop
  BY <1>1, StopStep DEF FilterCore
<1>2. CASE ~Stop
  <2> USE DEF IInv
  <2>1. PICK lag \in EndpointLags : todo' = FilterLogs(lag, FALSE)
    BY <1>2 DEF FilterCore
  <2>2. /\ wpc = "filter" /\ wpc' = "core"
        /\ UNCHANGED <<history, chain, forks, lastBlock, lastBlockParent, target, from, failed,
                       cursor, checkpoint, tables, observing, observed, dispatched, notices,
                       missed, inTurn>>
    BY <1>2 DEF FilterCore, chainVars, observerVars
  <2>3. /\ todo' \subseteq 1 .. Len(history)
        /\ \A h \in from .. RangeEnd : \A ev \in EventsAt(h) : ~IsMove(ev) => ev \in todo'
    <3>1. \A ev : IsMove(ev) \in BOOLEAN
      BY DEF IsMove
    <3> QED
      BY <2>1, <2>2, <3>1, FilterLogsComplete DEF InRange
  <2>4. Typed'
    BY <2>2, <2>3 DEF Typed, Top
  <2>5. Position'
    BY <2>2 DEF Position, Buried, InRange, Top
  <2>6. Walk'
    <3>1. RangeEnd' = RangeEnd /\ \A h : EventsAt(h)' = EventsAt(h)
      BY <2>2 DEF RangeEnd, EventsAt
    <3>2. \A h \in from .. RangeEnd : QueuedButMoves(h)'
      BY <2>2, <2>3, <3>1 DEF QueuedButMoves, IsMove
    <3> QED
      BY <2>2, <3>1, <3>2 DEF Walk, InRange, Covered
  <2>7. Announced'
    BY <2>2 DEF Announced
  <2> QED
    BY <2>4, <2>5, <2>6, <2>7
<1> QED
  BY <1>1, <1>2

LEMMA FilterMovesStep ==
    ASSUME IInv, FilterMoves, EndpointsKeepUp
    PROVE  IInv'
<1>1. CASE Stop
  BY <1>1, StopStep DEF FilterMoves
<1>2. CASE ~Stop
  <2> USE DEF IInv
  <2>1. PICK lag \in EndpointLags : todo' = FilterLogs(lag, TRUE)
    BY <1>2 DEF FilterMoves
  <2>2. /\ wpc = "core" /\ todo = {} /\ ~failed /\ wpc' = "moves"
        /\ UNCHANGED <<history, chain, forks, lastBlock, lastBlockParent, target, from, failed,
                       cursor, checkpoint, tables, observing, observed, dispatched, notices,
                       missed, inTurn>>
    BY <1>2 DEF FilterMoves, chainVars, observerVars
  <2>3. /\ todo' \subseteq 1 .. Len(history)
        /\ \A h \in from .. RangeEnd : \A ev \in EventsAt(h) : IsMove(ev) => ev \in todo'
    <3>1. \A ev : IsMove(ev) \in BOOLEAN
      BY DEF IsMove
    <3> QED
      BY <2>1, <2>2, <3>1, FilterLogsComplete DEF InRange
  <2>4. Typed'
    BY <2>2, <2>3 DEF Typed, Top
  <2>5. Position'
    BY <2>2 DEF Position, Buried, InRange, Top
  <2>6. Walk'
    <3>1. RangeEnd' = RangeEnd /\ \A h : EventsAt(h)' = EventsAt(h)
      BY <2>2 DEF RangeEnd, EventsAt
    <3>2. \A h \in from .. RangeEnd : QueuedButMoves(h)
      BY <2>2 DEF Walk
    <3>3. \A h \in from .. RangeEnd : Queued(h)'
      BY <2>2, <2>3, <3>1, <3>2 DEF QueuedButMoves, Queued
    <3> QED
      BY <2>2, <3>1, <3>3 DEF Walk, InRange, Covered
  <2>7. Announced'
    BY <2>2 DEF Announced
  <2> QED
    BY <2>4, <2>5, <2>6, <2>7
<1> QED
  BY <1>1, <1>2

\* The event the watcher dispatches is one of those it has to.
LEMMA NextLogIsQueued ==
    ASSUME Typed, todo # {}
    PROVE  NextLog \in todo /\ \A i \in todo : NextLog <= i
<1>1. todo \subseteq Nat
  BY HistoryType DEF Typed
<1>2. PICK i \in todo : \A j \in todo : ~(<<j, i>> \in OpToRel(<, Nat))
  BY <1>1, NatLessThanWellFounded, WFMin
<1>3. OpToRel(<, Nat) = {pair \in Nat \X Nat : pair[1] < pair[2]}
  BY Zenon DEF OpToRel
<1>4. \A j \in todo : i <= j
  <2> SUFFICES ASSUME NEW j \in todo, j < i
               PROVE  FALSE
    BY <1>1
  <2>1. <<j, i>> \in Nat \X Nat /\ <<j, i>>[1] < <<j, i>>[2]
    BY <1>1
  <2>2. <<j, i>> \in OpToRel(<, Nat)
    BY <1>3, <2>1
  <2> QED
    BY <1>2, <2>2
<1> QED
  BY <1>4 DEF NextLog

\* A dispatch, whoever makes it, takes nothing away from what is done.
LEMMA HandleKeeps ==
    ASSUME IInv, NEW i \in 1 .. Len(history), Handle(i),
           UNCHANGED <<chainVars, wpc, lastBlock, lastBlockParent, target, from, failed,
                       cursor, checkpoint, missed>>,
           todo' = todo \/ (wpc \in {"core", "moves"} /\ todo' = todo \ {i}),
           observing' \in 0 .. Len(history), observed' \subseteq 1 .. Len(history),
           inTurn' \in 0 .. Top + 1
    PROVE  IInv'
<1> USE DEF IInv, chainVars
<1>1. /\ DOMAIN tables' = DOMAIN NoRows
      /\ dispatched' = dispatched \cup {i}
      /\ notices' \in [1 .. Len(history) -> 0 .. 2]
      /\ Announced'
  BY HandleStep
<1>2. Typed'
  BY <1>1 DEF Typed, Top
<1>3. Position'
  BY DEF Position, Buried, InRange, Top
<1>4. Walk'
  <2>1. RangeEnd' = RangeEnd /\ \A h : EventsAt(h)' = EventsAt(h)
    BY DEF RangeEnd, EventsAt
  <2>2. dispatched \cup todo \subseteq dispatched' \cup todo'
    BY <1>1
  <2>3. ASSUME NEW h
        PROVE  /\ Covered(h) => Covered(h)'
               /\ Queued(h) => Queued(h)'
               /\ QueuedButMoves(h) => QueuedButMoves(h)'
    BY <1>1, <2>1, <2>2 DEF Covered, Queued, QueuedButMoves, IsMove
  <2> QED
    BY <2>1, <2>3 DEF Walk, InRange
<1> QED
  BY <1>1, <1>2, <1>3, <1>4

LEMMA DispatchCoreStep ==
    ASSUME IInv, DispatchCore
    PROVE  IInv'
<1>1. NextLog \in todo /\ NextLog \in 1 .. Len(history)
  BY NextLogIsQueued DEF DispatchCore, IInv, Typed
<1>2. /\ wpc = "core"
      /\ UNCHANGED <<chainVars, lastBlock, lastBlockParent, cursor, checkpoint, observerVars,
                     missed>>
      /\ \/ /\ Handle(NextLog) /\ LowerTurn(from) /\ todo' = todo \ {NextLog}
            /\ UNCHANGED <<wpc, target, from, failed>>
         \/ /\ todo' = todo \ {NextLog} /\ failed' = TRUE
            /\ UNCHANGED <<wpc, target, from, tables, dispatched, notices, inTurn>>
         \/ Stop /\ UNCHANGED <<tables, dispatched, notices, inTurn>>
  BY DEF DispatchCore
<1>3. CASE /\ Handle(NextLog) /\ LowerTurn(from) /\ todo' = todo \ {NextLog}
           /\ UNCHANGED <<wpc, target, from, failed>>
  <2>1. /\ observing' \in 0 .. Len(history) /\ observed' \subseteq 1 .. Len(history)
        /\ inTurn' \in 0 .. Top + 1
    BY <1>2, <1>3, LowerTurnType DEF IInv, Typed, observerVars
  <2> QED
    BY <1>1, <1>2, <1>3, <2>1, HandleKeeps
<1>4. CASE /\ todo' = todo \ {NextLog} /\ failed' = TRUE
           /\ UNCHANGED <<wpc, target, from, tables, dispatched, notices, inTurn>>
  <2> USE <1>2, <1>4 DEF IInv, chainVars, observerVars
  <2>1. Typed'
    BY DEF Typed, Top
  <2>2. Position'
    BY DEF Position, Buried, InRange, Top
  <2>3. Walk'
    BY DEF Walk, InRange, Covered, EventsAt
  <2>4. Announced'
    BY DEF Announced
  <2> QED
    BY <2>1, <2>2, <2>3, <2>4
<1>5. CASE Stop /\ UNCHANGED <<tables, dispatched, notices, inTurn>>
  BY <1>2, <1>5, StopStep
<1> QED
  BY <1>2, <1>3, <1>4, <1>5

LEMMA DispatchMoveStep ==
    ASSUME IInv, DispatchMove
    PROVE  IInv'
<1>1. NextLog \in todo /\ NextLog \in 1 .. Len(history)
  BY NextLogIsQueued DEF DispatchMove, IInv, Typed
<1>2. /\ wpc = "moves"
      /\ UNCHANGED <<chainVars, lastBlock, lastBlockParent, cursor, checkpoint, observerVars,
                     missed, inTurn>>
      /\ \/ Handle(NextLog) /\ todo' = todo \ {NextLog} /\ UNCHANGED <<wpc, target, from, failed>>
         \/ Stop /\ UNCHANGED <<tables, dispatched, notices>>
  BY DEF DispatchMove
<1>3. CASE Handle(NextLog) /\ todo' = todo \ {NextLog} /\ UNCHANGED <<wpc, target, from, failed>>
  <2>1. /\ observing' \in 0 .. Len(history) /\ observed' \subseteq 1 .. Len(history)
        /\ inTurn' \in 0 .. Top + 1
    BY <1>2 DEF IInv, Typed, observerVars
  <2> QED
    BY <1>1, <1>2, <1>3, <2>1, HandleKeeps
<1>4. CASE Stop /\ UNCHANGED <<tables, dispatched, notices>>
  BY <1>2, <1>4, StopStep
<1> QED
  BY <1>2, <1>3, <1>4

\* The checkpoint of the collections advances when nothing of the range is left.
LEMMA CheckpointStep ==
    ASSUME IInv, SetCollectionCheckpoints
    PROVE  IInv'
<1> USE DEF IInv
<1>1. /\ wpc = "moves" /\ todo = {} /\ wpc' = "cursor"
      /\ checkpoint' = RangeEnd \/ checkpoint' = checkpoint
      /\ UNCHANGED <<history, chain, forks, lastBlock, lastBlockParent, target, from, todo,
                     failed, cursor, tables, observing, observed, dispatched, notices, missed>>
      /\ inTurn' \in {inTurn, RangeEnd + 1}
  BY DEF SetCollectionCheckpoints, chainVars, observerVars
<1>2. /\ RangeEnd \in from .. target /\ target + headLag <= Top /\ Top \in Nat
      /\ from \in 1 .. target /\ target \in Nat
  BY <1>1, RangeIsBuried, ChainType DEF InRange, Typed
<1>3. checkpoint' \in Nat /\ Buried(checkpoint')
  BY <1>1, <1>2 DEF Buried, Position, Typed, headLag
<1>4. Typed'
  <2>1. inTurn' \in 0 .. Top + 1
    BY <1>1, <1>2 DEF Typed, headLag
  <2> QED
    BY <1>1, <1>3, <2>1 DEF Typed, Top
<1>5. Position'
  BY <1>1, <1>3 DEF Position, Buried, InRange, Top
<1>6. Walk'
  <2>1. RangeEnd' = RangeEnd /\ \A h : EventsAt(h)' = EventsAt(h)
    BY <1>1 DEF RangeEnd, EventsAt
  <2>2. \A h \in from .. RangeEnd : Covered(h)
    BY <1>1 DEF Walk, Queued, Covered
  <2> QED
    BY <1>1, <2>1, <2>2 DEF Walk, InRange, Covered
<1>7. Announced'
  BY <1>1 DEF Announced
<1> QED
  BY <1>4, <1>5, <1>6, <1>7

\* So does the cursor, and the next chunk or the end of the range follows.
LEMMA CursorStep ==
    ASSUME IInv, SetIndexedBlock
    PROVE  IInv'
<1> USE DEF IInv
<1>1. /\ wpc = "cursor"
      /\ cursor' = RangeEnd \/ cursor' = cursor
      /\ \/ RangeEnd < target /\ wpc' = "filter" /\ from' = RangeEnd + 1
         \/ ~(RangeEnd < target) /\ wpc' = "tip" /\ from' = from
      /\ UNCHANGED <<history, chain, forks, lastBlock, lastBlockParent, target, todo,
                     failed, checkpoint, tables, observing, observed, dispatched, notices, missed,
                     inTurn>>
  BY DEF SetIndexedBlock, chainVars, observerVars
<1>2. PICK end \in Nat : end = RangeEnd
  BY <1>1, RangeIsBuried DEF InRange, Typed
<1>3. /\ end \in from .. target /\ target + headLag <= Top /\ Top \in Nat
      /\ from \in 1 .. target /\ target \in Nat /\ from \in Nat
      /\ lastBlock \in Nat /\ cursor \in Nat
  BY <1>1, <1>2, RangeIsBuried, ChainType DEF InRange, Typed
<1>4. cursor' \in Nat /\ Buried(cursor')
  BY <1>1, <1>2, <1>3 DEF Buried, Position, headLag
<1>5. from' \in Nat /\ (wpc' = "filter" => from' \in 1 .. target) /\ wpc' \in {"filter", "tip"}
  BY <1>1, <1>2, <1>3
<1>6. Typed'
  BY <1>1, <1>4, <1>5 DEF Typed, Top
<1>7. Position'
  BY <1>1, <1>3, <1>4, <1>5 DEF Position, Buried, InRange, Top
<1>8. Walk'
  <2>1. ASSUME NEW h \in DOMAIN chain, h <= end
        PROVE  Covered(h)
    <3>1. h \in Nat
      BY ChainType
    <3>2. h < from \/ h \in from .. end
      BY <1>3, <2>1, <3>1
    <3>3. CASE h < from
      BY <1>1, <3>3 DEF Walk, InRange
    <3>4. CASE h \in from .. end
      BY <1>1, <1>2, <3>4 DEF Walk
    <3> QED
      BY <3>2, <3>3, <3>4
  <2>2. \A h : Covered(h)' <=> Covered(h)
    BY <1>1 DEF Covered, EventsAt
  <2>3. ASSUME NEW h \in DOMAIN chain, h <= lastBlock \/ h <= cursor'
        PROVE  Covered(h)
    BY <1>1, <1>2, <2>1, <2>3 DEF Walk
  <2>4. ASSUME wpc' = "filter", NEW h \in DOMAIN chain, h < from'
        PROVE  Covered(h)
    <3>1. h \in Nat /\ from' = end + 1
      BY <1>1, <1>2, <2>4, ChainType
    <3> QED
      BY <2>1, <2>4, <3>1
  <2>5. ASSUME wpc' = "tip", NEW h \in DOMAIN chain, h <= target
        PROVE  Covered(h)
    <3>1. end = target
      BY <1>1, <1>2, <1>3, <2>5
    <3> QED
      BY <2>1, <2>5, <3>1
  <2> QED
    BY <1>1, <1>5, <2>2, <2>3, <2>4, <2>5 DEF Walk, InRange
<1>9. Announced'
  BY <1>1 DEF Announced
<1> QED
  BY <1>6, <1>7, <1>8, <1>9

LEMMA FinishStep ==
    ASSUME IInv, FinishRange
    PROVE  IInv'
<1> USE DEF IInv
<1>1. /\ wpc = "tip" /\ lastBlock' = target
      /\ lastBlockParent' \in {ParentHash(target), NoHash}
      /\ wpc' = "idle" /\ target' = 0 /\ from' = 0 /\ todo' = {} /\ failed' = FALSE
      /\ UNCHANGED <<history, chain, forks, cursor, checkpoint, tables, observing, observed,
                     dispatched, notices, missed, inTurn>>
  BY DEF FinishRange, Stop, chainVars, observerVars
<1>2. target \in Nat /\ target # 0 /\ Buried(target) /\ target + headLag <= Top /\ Top \in Nat
  <2>1. target \in Nat /\ target + headLag <= Top /\ Top \in Nat
    BY <1>1, RangeIsBuried, ChainType DEF Typed
  <2>2. Buried(target) /\ from \in 1 .. target
    BY <1>1 DEF Position
  <2> QED
    BY <2>1, <2>2
<1>3. lastBlockParent' \in 0 .. forks
  <2>1. target \in 1 .. Top + 1
    BY <1>2 DEF headLag
  <2>2. ParentHash(target) \in 1 .. forks /\ forks \in Nat
    BY <2>1, ChainType DEF Typed
  <2> QED
    BY <1>1, <2>2 DEF NoHash
<1>4. Typed'
  BY <1>1, <1>2, <1>3 DEF Typed, Top
<1>5. Position'
  BY <1>1, <1>2 DEF Position, Buried, InRange, Top
<1>6. Walk'
  BY <1>1 DEF Walk, InRange, Covered, EventsAt
<1>7. Announced'
  BY <1>1 DEF Announced
<1> QED
  BY <1>4, <1>5, <1>6, <1>7

\* A crash forgets the watcher's place, not the cursor it starts from again.
LEMMA CrashStep ==
    ASSUME IInv, Crash
    PROVE  IInv'
<1> USE DEF IInv
<1>1. /\ wpc' = "down" /\ lastBlock' = 0 /\ lastBlockParent' = NoHash
      /\ target' = 0 /\ from' = 0 /\ todo' = {} /\ failed' = FALSE
      /\ observing' = None /\ observed' = {} /\ inTurn' \in 0 .. Top + 1
      /\ UNCHANGED <<history, chain, forks, cursor, checkpoint, tables, dispatched, notices,
                     missed>>
  BY DEF Crash, chainVars, Typed
<1>2. Typed'
  <2>1. lastBlockParent' \in 0 .. forks' /\ observing' \in 0 .. Len(history')
    BY <1>1, HistoryType DEF NoHash, None, Typed
  <2> QED
    BY <1>1, <2>1 DEF Typed, Top
<1>3. Position'
  BY <1>1 DEF Position, Buried, InRange, Top
<1>4. Walk'
  <2>1. ASSUME NEW h \in DOMAIN chain, h <= 0
        PROVE  Covered(h)
    BY <2>1, ChainType
  <2> QED
    BY <1>1, <2>1 DEF Walk, InRange, Covered, EventsAt
<1>5. Announced'
  BY <1>1 DEF Announced
<1> QED
  BY <1>2, <1>3, <1>4, <1>5

----------------------------------------------------------------------------
(* The observers and the command                                           *)

LEMMA ObserveReceiptStep ==
    ASSUME IInv, NEW i \in Mined, ObserveReceipt(i)
    PROVE  IInv'
<1> USE DEF IInv
<1>1. /\ observing' = i /\ i \in 1 .. Len(history)
      /\ UNCHANGED <<history, chain, forks, wpc, lastBlock, lastBlockParent, target, from, todo,
                     failed, cursor, checkpoint, tables, observed, dispatched, notices, missed,
                     inTurn>>
  BY ChainType DEF ObserveReceipt, chainVars, localVars
<1>2. Typed'
  <2>1. observing' \in 0 .. Len(history)
    BY <1>1, HistoryType
  <2> QED
    BY <1>1, <2>1 DEF Typed, Top
<1>3. Position'
  BY <1>1 DEF Position, Buried, InRange, Top
<1>4. Walk'
  <2>1. RangeEnd' = RangeEnd /\ \A h : EventsAt(h)' = EventsAt(h)
    BY <1>1 DEF RangeEnd, EventsAt
  <2> QED
    BY <1>1, <2>1 DEF Walk, InRange, Covered, Queued, QueuedButMoves, IsMove
<1>5. Announced'
  BY <1>1 DEF Announced
<1> QED
  BY <1>2, <1>3, <1>4, <1>5

\* The height of an event that is on the chain.
LEMMA HeightType ==
    ASSUME NEW i \in Mined
    PROVE  HeightOf(i) \in DOMAIN chain /\ chain[HeightOf(i)].ev = i
<1>1. \E h \in DOMAIN chain : chain[h].ev = i
  BY DEF Mined
<1> QED
  BY <1>1, Zenon DEF HeightOf

LEMMA OutOfTurnLowers ==
    ASSUME Typed, Position, NEW i \in Mined, OutOfTurn(i)
    PROVE  \E h \in Nat : /\ LowerTurn(h) /\ h <= HeightOf(i)
                          /\ HeightOf(i) \in from .. RangeEnd => h < from
<1>1. HeightOf(i) \in 1 .. Top /\ from \in Nat /\ Top \in Nat
  BY HeightType, ChainType DEF Typed
<1>2. CASE HeightOf(i) \in from .. RangeEnd
  <2>1. from # 0
    <3>1. CASE wpc \in {"down", "idle"}
      BY <1>1, <1>2, <3>1 DEF Position, RangeEnd
    <3>2. CASE wpc \notin {"down", "idle"}
      BY <1>1, <3>2 DEF Position, InRange, Typed
    <3> QED
      BY <3>1, <3>2
  <2> QED
    BY <1>1, <1>2, <2>1 DEF OutOfTurn
<1>3. CASE HeightOf(i) \notin from .. RangeEnd
  BY <1>1, <1>3 DEF OutOfTurn
<1> QED
  BY <1>2, <1>3

LEMMA ObserveDispatchStep ==
    ASSUME IInv, ObserveDispatch
    PROVE  IInv'
<1>1. /\ observing \in 1 .. Len(history) /\ observing' \in 0 .. Len(history)
      /\ UNCHANGED <<chainVars, localVars, cursor, checkpoint, missed>>
  BY HistoryType DEF ObserveDispatch, IInv, Typed, None
<1>2. CASE Handle(observing) /\ OutOfTurn(observing) /\ observed' = observed \cup {observing}
  <2>1. observed' \subseteq 1 .. Len(history) /\ inTurn' \in 0 .. Top + 1
    <3>1. CASE observing \notin Mined
      BY <1>1, <1>2, <3>1 DEF OutOfTurn, IInv, Typed
    <3>2. CASE observing \in Mined
      BY <1>1, <1>2, <3>2, OutOfTurnLowers, LowerTurnType DEF IInv, Typed
    <3> QED
      BY <3>1, <3>2
  <2> QED
    BY <1>1, <1>2, <2>1, HandleKeeps DEF localVars
<1>3. CASE UNCHANGED <<tables, dispatched, notices, observed, inTurn, budget>>
  <2> USE <1>1, <1>3 DEF IInv, chainVars, localVars
  <2>1. Typed'
    BY DEF Typed, Top
  <2>2. Position'
    BY DEF Position, Buried, InRange, Top
  <2>3. Walk'
    <3>1. RangeEnd' = RangeEnd /\ \A h : EventsAt(h)' = EventsAt(h)
      BY DEF RangeEnd, EventsAt
    <3> QED
      BY <3>1 DEF Walk, InRange, Covered, Queued, QueuedButMoves, IsMove
  <2>4. Announced'
    BY DEF Announced
  <2> QED
    BY <2>1, <2>2, <2>3, <2>4
<1> QED
  BY <1>2, <1>3 DEF ObserveDispatch

LEMMA ReindexStep ==
    ASSUME IInv, NEW i \in Mined, ReindexGovernance(i)
    PROVE  IInv'
<1>1. /\ i \in 1 .. Len(history) /\ Handle(i)
      /\ UNCHANGED <<chainVars, localVars, cursor, checkpoint, observerVars, missed, inTurn>>
  BY ChainType DEF ReindexGovernance, IInv
<1>2. /\ observing' \in 0 .. Len(history) /\ observed' \subseteq 1 .. Len(history)
      /\ inTurn' \in 0 .. Top + 1
  BY <1>1 DEF IInv, Typed, observerVars
<1> QED
  BY <1>1, <1>2, HandleKeeps DEF localVars

----------------------------------------------------------------------------
(* The invariant and what follows from it                                  *)

LEMMA NextIInv ==
    ASSUME IInv, [Next]_vars, EndpointsKeepUp
    PROVE  IInv'
<1>1. CASE Mine
  <2>1. ChainGrows /\ Typed'
    BY <1>1, MineGrows DEF IInv
  <2>2. UNCHANGED <<history, localVars, cursor, checkpoint, tables, dispatched, notices>>
    BY <1>1 DEF Mine
  <2> QED
    BY <2>1, <2>2, ChainStep DEF IInv
<1>2. ASSUME NEW depth \in ReorgDepths, Reorg(depth)
      PROVE  IInv'
  <2>1. ChainGrows /\ Typed'
    BY <1>2, ReorgGrows DEF IInv
  <2>2. UNCHANGED <<history, localVars, cursor, checkpoint, tables, dispatched, notices>>
    BY <1>2 DEF Reorg
  <2> QED
    BY <2>1, <2>2, ChainStep DEF IInv
<1>3. CASE WatcherStep
  BY <1>3, StartStep, RewindStep, StartRangeStep, FilterCoreStep, DispatchCoreStep,
     FilterMovesStep, DispatchMoveStep, CheckpointStep, CursorStep, FinishStep
     DEF WatcherStep
<1>4. CASE Crash
  BY <1>4, CrashStep
<1>5. ASSUME NEW i \in Mined, ObserveReceipt(i) \/ ReindexGovernance(i)
      PROVE  IInv'
  BY <1>5, ObserveReceiptStep, ReindexStep
<1>6. CASE ObserveDispatch
  BY <1>6, ObserveDispatchStep
<1>7. CASE UNCHANGED vars
  <2> USE <1>7 DEF IInv, vars, chainVars, localVars, observerVars
  <2>1. Typed'
    BY DEF Typed, Top
  <2>2. Position'
    BY DEF Position, Buried, InRange, Top
  <2>3. Walk'
    <3>1. RangeEnd' = RangeEnd /\ \A h : EventsAt(h)' = EventsAt(h)
      BY DEF RangeEnd, EventsAt
    <3> QED
      BY <3>1 DEF Walk, InRange, Covered, Queued, QueuedButMoves, IsMove
  <2>4. Announced'
    BY DEF Announced
  <2> QED
    BY <2>1, <2>2, <2>3, <2>4
<1> QED
  BY <1>1, <1>2, <1>3, <1>4, <1>5, <1>6, <1>7 DEF Next

\* The watcher, its cursor and its checkpoint stand on buried blocks, and what is
\* below them, or ahead in the range, is dispatched, queued or excused.
LEMMA Inductive ==
    ASSUME EndpointsKeepUp
    PROVE  Spec => []IInv
<1>1. Init => IInv
  BY InitIInv
<1>2. IInv /\ [Next]_vars => IInv'
  BY NextIInv
<1> QED
  BY <1>1, <1>2, PTL DEF Spec

\* processRange and its callers: however a range ends, whoever dispatches, wherever
\* the process dies and whatever the chain replaces, no block at or below the
\* watcher's place or the stored cursor holds an event no handler ran for, but for
\* the blocks replaced deeper than headLag.
THEOREM LosesNothing ==
    ASSUME EndpointsKeepUp
    PROVE  Spec => []CursorLosesNothing
<1>1. IInv => CursorLosesNothing
  BY DEF IInv, Walk, Covered, CursorLosesNothing
<1> QED
  BY <1>1, Inductive, PTL

\* OnGovernance, whether the watcher or the command calls it: the owner hears of a
\* governance event once at most.
THEOREM AlertsOnce ==
    ASSUME EndpointsKeepUp
    PROVE  Spec => []AlertsAtMostOnce
<1>1. IInv => AlertsAtMostOnce
  <2> SUFFICES ASSUME IInv, NEW i \in DOMAIN notices, history[i].type = "KeeperSet"
               PROVE  notices[i] <= 1
    BY DEF AlertsAtMostOnce
  <2>1. notices[i] \in 0 .. 2
    BY DEF IInv, Typed
  <2> QED
    BY <2>1 DEF IInv, Announced
<1> QED
  BY <1>1, Inductive, PTL

\* The watcher stays off the tip: where it stands, and what it stored, can be
\* replaced only by a reorganisation deeper than headLag.
StandsOnBuriedBlocks == Buried(lastBlock) /\ Buried(cursor) /\ Buried(checkpoint)

THEOREM StaysOffTheTip ==
    ASSUME EndpointsKeepUp
    PROVE  Spec => []StandsOnBuriedBlocks
<1>1. IInv => StandsOnBuriedBlocks
  BY DEF IInv, Position, StandsOnBuriedBlocks
<1> QED
  BY <1>1, Inductive, PTL

----------------------------------------------------------------------------
(* The rows: a fold over a finite set of bids                              *)

Pick(s) == CHOOSE x \in s : TRUE

\* Induction with a set in the place of a predicate: a set of naturals that holds
\* every number whose predecessors it holds is all of them.
LEMMA NatInductionSet ==
    ASSUME NEW P \in SUBSET Nat,
           \A n \in Nat : (\A m \in Nat : m < n => m \in P) => n \in P
    PROVE  P = Nat
<1>1. SUFFICES ASSUME Nat \ P # {} PROVE FALSE
  OBVIOUS
<1>2. PICK n \in Nat \ P : \A m \in Nat \ P : ~ (<<m, n>> \in OpToRel(<, Nat))
  <2>1. Nat \ P \subseteq Nat
    OBVIOUS
  <2> QED
    BY <1>1, <2>1, NatLessThanWellFounded, WFMin, Zenon
<1>3. \A m \in Nat : m < n => <<m, n>> \in OpToRel(<, Nat)
  BY Zenon DEF OpToRel
<1>4. \A m \in Nat : m < n => m \in P
  BY <1>2, <1>3, Zenon
<1> QED
  BY <1>2, <1>4

\* A family that holds every finite set whose rest, without the element the
\* library's folds take out first, it holds, has all subsets of a finite set.
LEMMA SubsetInduction ==
    ASSUME NEW S, IsFiniteSet(S), NEW Q \in SUBSET SUBSET S,
           \A s \in SUBSET S : (s # {} => s \ {Pick(s)} \in Q) => s \in Q
    PROVE  Q = SUBSET S
<1> DEFINE P == {n \in Nat : \A s \in SUBSET S : Cardinality(s) = n => s \in Q}
<1>1. \A s \in SUBSET S : /\ Cardinality(s) \in Nat
                          /\ s # {} => Cardinality(s \ {Pick(s)}) < Cardinality(s)
  <2> TAKE s \in SUBSET S
  <2>1. IsFiniteSet(s) /\ Cardinality(s) \in Nat
    BY FS_Subset, FS_CardinalityType
  <2>2. s # {} => Pick(s) \in s
    BY DEF Pick
  <2>3. s # {} => Cardinality(s) # 0 /\ Cardinality(s \ {Pick(s)}) = Cardinality(s) - 1
    BY <2>1, <2>2, FS_EmptySet, FS_RemoveElement
  <2> QED
    BY <2>1, <2>3
<1>2. ASSUME NEW n \in Nat, \A m \in Nat : m < n => m \in P
      PROVE  n \in P
  <2> SUFFICES ASSUME NEW s \in SUBSET S, Cardinality(s) = n, s # {}
               PROVE  s \ {Pick(s)} \in Q
    OBVIOUS
  <2>1. s \ {Pick(s)} \in SUBSET S
    OBVIOUS
  <2>2. Cardinality(s \ {Pick(s)}) \in P
    BY <1>1, <1>2, <2>1
  <2> QED
    BY <2>1, <2>2
<1>3. P = Nat
  <2> HIDE DEF P
  <2>1. P \in SUBSET Nat
    BY DEF P
  <2> QED
    BY <1>2, <2>1, NatInductionSet
<1> QED
  BY <1>1, <1>3

BidsOf(bids, h) == {b \in bids : b.who = h}

\* The recursive function behind the library's fold exists.
LEMMA TotalUnfold ==
    ASSUME NEW bids, IsFiniteSet(bids), NEW h
    PROVE  \E it :
              /\ it[{}] = 0
              /\ \A s \in SUBSET BidsOf(bids, h) :
                    s # {} => it[s] = Pick(s).amount + it[s \ {Pick(s)}]
              /\ Total(bids, h) = it[BidsOf(bids, h)]
<1> USE DEF BidsOf
<1> DEFINE S == {b \in bids : b.who = h}
           Rest(s) == s \ {Pick(s)}
           Value(f, s) == IF s = {} THEN 0 ELSE Pick(s).amount + f[Rest(s)]
           D(n) == {s \in SUBSET S : Cardinality(s) <= n}
           Unfolds(f, d) == f = [s \in d |-> Value(f, s)]
           it == CHOOSE f : Unfolds(f, SUBSET S)
<1>1. Total(bids, h) = it[S]
  BY Zenon DEF Total, FoldSet, MapThenFoldSet, Pick
<1>2. \A s \in SUBSET S :
         /\ Cardinality(s) \in Nat
         /\ Cardinality(s) = 0 => s = {}
         /\ s # {} => Rest(s) \in SUBSET S /\ Cardinality(Rest(s)) = Cardinality(s) - 1
  <2> TAKE s \in SUBSET S
  <2>1. IsFiniteSet(s) /\ Cardinality(s) \in Nat
    BY FS_Subset, FS_CardinalityType
  <2>2. s # {} => Pick(s) \in s
    BY DEF Pick
  <2> QED
    BY <2>1, <2>2, FS_EmptySet, FS_RemoveElement
<1>3. \E f : Unfolds(f, SUBSET S)
  <2> DEFINE P == {n \in Nat : \E f : Unfolds(f, D(n))}
  <2>1. ASSUME NEW n \in Nat, \A m \in Nat : m < n => m \in P
        PROVE  n \in P
    <3>1. CASE n = 0
      <4> DEFINE f == [s \in D(0) |-> 0]
      <4>1. ASSUME NEW s \in D(0) PROVE s = {}
        <5>1. s \in SUBSET S /\ Cardinality(s) <= 0
          OBVIOUS
        <5>2. Cardinality(s) \in Nat
          BY <1>2, <5>1
        <5>3. Cardinality(s) = 0
          BY <5>1, <5>2
        <5> QED
          BY <1>2, <5>1, <5>3
      <4>2. Unfolds(f, D(0))
        BY <4>1
      <4> QED
        BY <3>1, <4>2
    <3>2. CASE n # 0
      <4>0. n - 1 \in Nat /\ n - 1 < n
        BY <3>2
      <4>1. PICK f : Unfolds(f, D(n - 1))
        BY <2>1, <4>0
      <4> DEFINE k == [s \in D(n) |-> Value(f, s)]
      <4>2. ASSUME NEW s \in D(n - 1) PROVE s \in D(n) /\ k[s] = f[s]
        <5>1. s \in SUBSET S /\ Cardinality(s) <= n - 1 /\ Cardinality(s) \in Nat
          BY <1>2
        <5>2. s \in D(n)
          BY <4>0, <5>1
        <5>3. k[s] = Value(f, s)
          BY <5>2
        <5>4. f[s] = Value(f, s)
          BY <4>1
        <5> QED
          BY <5>2, <5>3, <5>4
      <4>3. ASSUME NEW s \in D(n), s # {} PROVE Rest(s) \in D(n - 1)
        <5>1. s \in SUBSET S /\ Cardinality(s) <= n
          OBVIOUS
        <5>2. Rest(s) \in SUBSET S /\ Cardinality(Rest(s)) = Cardinality(s) - 1
          BY <1>2, <4>3, <5>1
        <5>3. Cardinality(s) \in Nat
          BY <1>2, <5>1
        <5> QED
          BY <5>1, <5>2, <5>3
      <4>4. \A s \in D(n) : Value(f, s) = Value(k, s)
        BY <4>2, <4>3
      <4>5. Unfolds(k, D(n))
        BY <4>4
      <4> QED
        BY <4>5, Zenon
    <3> QED
      BY <3>1, <3>2
  <2>2. P = Nat
    <3> HIDE DEF P
    <3>1. P \in SUBSET Nat
      BY DEF P
    <3> QED
      BY <3>1, <2>1, NatInductionSet
  <2>3. D(Cardinality(S)) = SUBSET S
    <3>1. IsFiniteSet(S)
      BY FS_Subset
    <3> QED
      BY <3>1, FS_Subset
  <2>4. Cardinality(S) \in P
    BY <1>2, <2>2
  <2> QED
    BY <2>3, <2>4, Zenon
<1>4. Unfolds(it, SUBSET S)
  BY <1>3, Zenon
<1> HIDE DEF it
<1>5. it[{}] = 0
  BY <1>4
<1>6. \A s \in SUBSET S : s # {} => it[s] = Pick(s).amount + it[Rest(s)]
  BY <1>4
<1> QED
  BY <1>1, <1>5, <1>6

\* What a bidder has bid together is an amount.
LEMMA TotalType ==
    ASSUME NEW bids, IsFiniteSet(bids), \A b \in bids : b.amount \in Nat, NEW h
    PROVE  Total(bids, h) \in Nat
<1> DEFINE S == BidsOf(bids, h)
<1>1. PICK it :
         /\ it[{}] = 0
         /\ \A s \in SUBSET S : s # {} => it[s] = Pick(s).amount + it[s \ {Pick(s)}]
         /\ Total(bids, h) = it[S]
  BY TotalUnfold
<1>2. IsFiniteSet(S) /\ \A b \in S : b.amount \in Nat
  BY FS_Subset DEF BidsOf
<1> DEFINE Q == {s \in SUBSET S : it[s] \in Nat}
<1>3. ASSUME NEW s \in SUBSET S, s # {} => s \ {Pick(s)} \in Q
      PROVE  s \in Q
  <2>1. CASE s = {}
    BY <1>1, <2>1
  <2>2. CASE s # {}
    <3>1. Pick(s) \in s
      BY <2>2 DEF Pick
    <3>2. Pick(s).amount \in Nat /\ it[s \ {Pick(s)}] \in Nat
      BY <1>2, <1>3, <2>2, <3>1
    <3>3. it[s] = Pick(s).amount + it[s \ {Pick(s)}]
      BY <1>1, <2>2, Zenon
    <3> QED
      BY <3>2, <3>3
  <2> QED
    BY <2>1, <2>2
<1>4. Q = SUBSET S
  <2> HIDE DEF Q, S
  <2>1. Q \in SUBSET SUBSET S
    BY DEF Q
  <2> QED
    BY <1>2, <1>3, <2>1, SubsetInduction
<1> QED
  BY <1>1, <1>4

\* Of finitely many bidders one has bid the most.
LEMMA LeaderType ==
    ASSUME NEW bids, IsFiniteSet(bids), \A b \in bids : b.amount \in Nat, Holders # {}
    PROVE  LeaderOf(bids) \in Holders
<1> DEFINE Q == {s \in SUBSET Holders :
                    s = {} \/ \E h \in s : \A g \in s : Total(bids, g) <= Total(bids, h)}
<1>1. \A h : Total(bids, h) \in Nat
  BY TotalType
<1>2. ASSUME NEW s \in SUBSET Holders, s # {} => s \ {Pick(s)} \in Q
      PROVE  s \in Q
  <2> SUFFICES ASSUME s # {}
               PROVE  \E h \in s : \A g \in s : Total(bids, g) <= Total(bids, h)
    OBVIOUS
  <2>1. Pick(s) \in s
    BY DEF Pick
  <2>2. CASE s = {Pick(s)}
    BY <1>1, <2>1, <2>2
  <2>3. CASE s # {Pick(s)}
    <3>1. PICK h \in s \ {Pick(s)} :
             \A g \in s \ {Pick(s)} : Total(bids, g) <= Total(bids, h)
      BY <1>2, <2>1, <2>3
    <3>2. CASE Total(bids, Pick(s)) <= Total(bids, h)
      BY <3>1, <3>2
    <3>3. CASE Total(bids, h) <= Total(bids, Pick(s))
      BY <1>1, <2>1, <3>1, <3>3
    <3> QED
      BY <1>1, <3>2, <3>3
  <2> QED
    BY <2>2, <2>3
<1>3. Q = SUBSET Holders
  <2> HIDE DEF Q
  <2>1. Q \in SUBSET SUBSET Holders
    BY DEF Q
  <2> QED
    BY <1>2, <2>1, SubsetInduction
<1>4. \E h \in Holders : \A g \in Holders : Total(bids, g) <= Total(bids, h)
  BY <1>3
<1> QED
  BY <1>4, Zenon DEF LeaderOf

----------------------------------------------------------------------------
(* The type invariant                                                      *)

RowsTyped(t) == t \in Tables /\ IsFiniteSet(t.bids)

\* A record of well-formed rows has the fields of Tables and no other.
LEMMA RowsParts ==
    ASSUME NEW t, RowsTyped(t)
    PROVE  /\ t.auction \in [status : {"none", "active", "settled", "cancelled"},
                             leader : Holders \cup {Nobody}, high : Nat, endsAt : Nat]
           /\ t.bids \in SUBSET [tx : Nat, who : Holders, amount : Nat]
           /\ t.offer \in [pending : Nat, closed : Nat]
           /\ t.sales \in SUBSET Nat /\ t.units \in [Holders -> Nat]
           /\ t.trail \in SUBSET Nat
           /\ t = [auction |-> t.auction, bids |-> t.bids, offer |-> t.offer,
                   sales |-> t.sales, units |-> t.units, trail |-> t.trail]
  BY DEF RowsTyped, Tables

\* Every handler leaves well-formed rows, in particular no negative units.
LEMMA DispatchType ==
    ASSUME NEW t, RowsTyped(t), NEW e \in Events,
           e.type = "BidPlaced" => e.who \in Holders
    PROVE  RowsTyped(Dispatch(t, e))
<1> USE DEF RowsTyped
<1>1. /\ e.type \in EventTypes /\ e.tx \in Nat /\ e.amount \in Nat
      /\ e.who \in Holders \cup {Nobody} /\ e.to \in Holders \cup {Nobody}
  BY DEF Events
<1>3. CASE e.type = "AuctionCreated"
  BY <1>1, <1>3 DEF Dispatch, OnAuctionCreated, Tables
<1>4. CASE e.type = "BidPlaced"
  <2> DEFINE rows == IF \E b \in t.bids : b.tx = e.tx THEN t.bids
                     ELSE t.bids \cup {[tx |-> e.tx, who |-> e.who, amount |-> e.amount]}
  <2>1. rows \in SUBSET [tx : Nat, who : Holders, amount : Nat]
    BY <1>1, <1>4 DEF Tables
  <2>2. IsFiniteSet(rows)
    <3>1. IsFiniteSet(t.bids)
      OBVIOUS
    <3>2. IsFiniteSet(t.bids \cup {[tx |-> e.tx, who |-> e.who, amount |-> e.amount]})
      BY ONLY <3>1, FS_AddElement
    <3> QED
      BY <3>1, <3>2
  <2>3. Dispatch(t, e) = [t EXCEPT !.bids = rows,
                                   !.auction.leader = LeaderOf(rows),
                                   !.auction.high = Total(rows, LeaderOf(rows))]
    BY <1>4 DEF Dispatch, OnBidPlaced
  <2> HIDE DEF rows
  <2>4. \A b \in rows : b.amount \in Nat
    BY <2>1
  <2>5. LeaderOf(rows) \in Holders /\ Total(rows, LeaderOf(rows)) \in Nat
    BY <1>4, <2>2, <2>4, LeaderType, TotalType
  <2>6. Dispatch(t, e) = [auction |-> [t.auction EXCEPT !.leader = LeaderOf(rows),
                                                       !.high = Total(rows, LeaderOf(rows))],
                          bids |-> rows, offer |-> t.offer, sales |-> t.sales,
                          units |-> t.units, trail |-> t.trail]
    <3>1. PICK leader, high : leader = LeaderOf(rows) /\ high = Total(rows, LeaderOf(rows))
      OBVIOUS
    <3>2. Dispatch(t, e) = [t EXCEPT !.bids = rows, !.auction.leader = leader, !.auction.high = high]
      BY <2>3, <3>1
    <3>3. t \in Tables
      OBVIOUS
    <3>4. Dispatch(t, e) = [auction |-> [t.auction EXCEPT !.leader = leader, !.high = high],
                            bids |-> rows, offer |-> t.offer, sales |-> t.sales,
                            units |-> t.units, trail |-> t.trail]
      BY ONLY <3>2, <3>3 DEF Tables
    <3> QED
      BY <3>1, <3>4
  <2>7. [t.auction EXCEPT !.leader = LeaderOf(rows), !.high = Total(rows, LeaderOf(rows))]
           \in [status : {"none", "active", "settled", "cancelled"},
               leader : Holders \cup {Nobody}, high : Nat, endsAt : Nat]
    <3>1. t.auction \in [status : {"none", "active", "settled", "cancelled"},
                         leader : Holders \cup {Nobody}, high : Nat, endsAt : Nat]
      BY RowsParts
    <3> QED
      BY ONLY <2>5, <3>1
  <2> QED
    BY <2>1, <2>2, <2>6, <2>7, RowsParts DEF Tables
<1>5. CASE e.type = "AuctionExtended"
  BY <1>1, <1>5 DEF Dispatch, OnAuctionExtended, Tables
<1>6. CASE e.type = "AuctionSettled"
  BY <1>6 DEF Dispatch, OnAuctionSettled, SetAuctionStatus, Tables
<1>7. CASE e.type = "AuctionCancelled"
  BY <1>7 DEF Dispatch, OnAuctionCancelled, SetAuctionStatus, Tables
<1>8. CASE e.type = "OfferMade"
  BY <1>1, <1>8 DEF Dispatch, OnOfferMade, Tables
<1>2. RowsTyped(CloseOffer(t))
  <2>1. CASE t.offer.pending = 0
    BY <2>1 DEF CloseOffer
  <2>2. CASE t.offer.pending # 0
    <3>1. CloseOffer(t) = [auction |-> t.auction, bids |-> t.bids,
                           offer |-> [pending |-> 0, closed |-> t.offer.closed + 1],
                           sales |-> t.sales, units |-> t.units, trail |-> t.trail]
      <4>1. t \in Tables
        OBVIOUS
      <4>2. CloseOffer(t) = [t EXCEPT !.offer = [pending |-> 0, closed |-> t.offer.closed + 1]]
        BY <2>2, <4>1 DEF CloseOffer, Tables
      <4> QED
        BY ONLY <4>1, <4>2 DEF Tables
    <3>2. t.offer.closed + 1 \in Nat
      BY RowsParts
    <3> QED
      BY <3>1, <3>2, RowsParts DEF Tables
  <2> QED
    BY <2>1, <2>2
<1>9. CASE e.type = "OfferAccepted"
  <2>1. Dispatch(t, e) = [CloseOffer(t) EXCEPT !.sales = @ \cup {e.tx}]
    BY <1>9 DEF Dispatch, OnOfferAccepted
  <2>2. CloseOffer(t) \in Tables /\ IsFiniteSet(CloseOffer(t).bids)
    BY <1>2
  <2> HIDE DEF RowsTyped
  <2>3. PICK u : u = CloseOffer(t)
    OBVIOUS
  <2>4. Dispatch(t, e) = [auction |-> u.auction, bids |-> u.bids, offer |-> u.offer,
                          sales |-> u.sales \cup {e.tx}, units |-> u.units, trail |-> u.trail]
    <3>1. u \in Tables /\ Dispatch(t, e) = [u EXCEPT !.sales = u.sales \cup {e.tx}]
      BY <2>1, <2>2, <2>3
    <3> QED
      BY ONLY <3>1 DEF Tables
  <2>5. u \in Tables /\ e.tx \in Nat /\ IsFiniteSet(u.bids)
    BY <1>1, <2>2, <2>3
  <2> QED
    BY ONLY <2>4, <2>5 DEF RowsTyped, Tables
<1>10. CASE e.type = "OfferRefunded"
  BY <1>2, <1>10 DEF Dispatch, OnOfferRefunded
<1>11. CASE e.type = "TransferSingle"
  <2>1. \A u \in [Holders -> Nat] : Credit(u, e.to, e.amount) \in [Holders -> Nat]
    BY <1>1 DEF Credit
  <2>2. \A u \in [Holders -> Nat] : Debit(u, e.who, e.amount) \in [Holders -> Nat]
    BY <1>1 DEF Debit
  <2>3. Dispatch(t, e) = [t EXCEPT !.units = Debit(Credit(t.units, e.to, e.amount), e.who, e.amount)]
    BY <1>11 DEF Dispatch, OnTransferSingle, Tables
  <2>4. Debit(Credit(t.units, e.to, e.amount), e.who, e.amount) \in [Holders -> Nat]
    BY <2>1, <2>2, RowsParts
  <2> QED
    BY <2>3, <2>4 DEF Tables
<1>12. CASE e.type = "KeeperSet"
  BY <1>1, <1>12 DEF Dispatch, OnGovernance, Tables
<1> QED
  BY <1>1, <1>3, <1>4, <1>5, <1>6, <1>7, <1>8, <1>9, <1>10, <1>11, <1>12
     DEF EventTypes, AuctionEvents, OfferEvents

\* What the type invariant needs besides IInv: the rows, and the range is in order.
Shaped == RowsTyped(tables) /\ from <= target

LEMMA ShapedInit ==
    ASSUME Init
    PROVE  Shaped
<1>1. RowsTyped(NoRows)
  BY FS_EmptySet DEF RowsTyped, NoRows, Tables
<1> QED
  BY <1>1 DEF Init, Shaped

LEMMA ShapedHandle ==
    ASSUME IInv, Shaped, NEW i \in 1 .. Len(history), Handle(i)
    PROVE  RowsTyped(tables)'
<1>1. history[i] \in Events /\ (history[i].type = "BidPlaced" => history[i].who \in Holders)
  <2>1. history \in Histories /\ DOMAIN history = 1 .. Len(history)
    BY HistoryType DEF IInv, Typed
  <2> QED
    BY <2>1, HistoryType DEF IInv
<1>2. tables' = Dispatch(tables, history[i])
  BY DEF Handle
<1> QED
  BY <1>1, <1>2, DispatchType DEF Shaped, RowsTyped

LEMMA ShapedNext ==
    ASSUME IInv, IInv', Shaped, [Next]_vars
    PROVE  Shaped'
<1> USE DEF IInv
<1>1. from \in Nat /\ target \in Nat /\ from' \in Nat /\ target' \in Nat
  BY DEF Typed
<1>2. from' <= target'
  <2>1. CASE InRange'
    BY <1>1, <2>1 DEF Position
  <2>2. CASE from' = 0
    BY <1>1, <2>2
  <2>3. CASE from' = from /\ target' = target
    BY <2>3 DEF Shaped
  <2>4. InRange' \/ from' = 0 \/ (from' = from /\ target' = target)
    BY DEF Next, Mine, Reorg, WatcherStep, Start, Rewind, StartRange, FilterCore, DispatchCore,
           FilterMoves, DispatchMove, SetCollectionCheckpoints, SetIndexedBlock, FinishRange,
           Crash, ObserveReceipt, ObserveDispatch, ReindexGovernance, Stop, InRange, vars,
           localVars
  <2> QED
    BY <2>1, <2>2, <2>3, <2>4
<1>3. RowsTyped(tables')
  <2>1. CASE tables' = tables
    BY <2>1 DEF Shaped
  <2>2. CASE \E i \in 1 .. Len(history) : Handle(i)
    BY <2>2, ShapedHandle DEF RowsTyped
  <2>3. ASSUME DispatchCore \/ DispatchMove
        PROVE  tables' = tables \/ (Handle(NextLog) /\ NextLog \in 1 .. Len(history))
    <3>1. NextLog \in 1 .. Len(history)
      BY <2>3, NextLogIsQueued DEF DispatchCore, DispatchMove, Typed
    <3> QED
      BY <2>3, <3>1 DEF DispatchCore, DispatchMove
  <2>4. ASSUME ObserveDispatch
        PROVE  tables' = tables \/ (Handle(observing) /\ observing \in 1 .. Len(history))
    <3>1. observing \in 0 .. Len(history) /\ observing # 0 /\ Len(history) \in Nat
      BY <2>4, HistoryType DEF ObserveDispatch, Typed, None
    <3> QED
      BY <2>4, <3>1 DEF ObserveDispatch
  <2>5. ASSUME NEW i \in Mined, ReindexGovernance(i)
        PROVE  Handle(i) /\ i \in 1 .. Len(history)
    BY <2>5, ChainType DEF ReindexGovernance
  <2>6. \/ tables' = tables \/ DispatchCore \/ DispatchMove \/ ObserveDispatch
        \/ \E i \in Mined : ReindexGovernance(i)
    BY DEF Next, Mine, Reorg, WatcherStep, Start, Rewind, StartRange, FilterCore,
           FilterMoves, SetCollectionCheckpoints, SetIndexedBlock, FinishRange,
           Crash, ObserveReceipt, vars
  <2> QED
    BY <2>1, <2>2, <2>3, <2>4, <2>5, <2>6
<1> QED
  BY <1>2, <1>3 DEF Shaped

\* The watcher's variables keep their types: its places are heights of the chain, and
\* the rows the handlers write hold amounts, units that never fall below zero, and a
\* leader that has bid.
THEOREM TypeCorrect ==
    ASSUME EndpointsKeepUp
    PROVE  Spec => []TypeOK
<1>1. Init => Shaped
  BY ShapedInit
<1>2. IInv /\ IInv' /\ Shaped /\ [Next]_vars => Shaped'
  BY ShapedNext
<1>3. IInv /\ Shaped => TypeOK
  <2> SUFFICES ASSUME IInv, Shaped
               PROVE  TypeOK
    OBVIOUS
  <2> USE DEF IInv
  <2>1. Top \in Nat /\ Top <= MaxHeight
    BY ChainType DEF Typed
  <2>2. {lastBlock, target, cursor, checkpoint} \subseteq 0 .. MaxHeight
    <3>1. \A h \in Nat : Buried(h) => h \in 0 .. MaxHeight
      BY <2>1 DEF Buried, headLag
    <3>2. \A h \in {lastBlock, target, cursor, checkpoint} : h \in Nat /\ Buried(h)
      BY DEF Position, Typed
    <3> QED
      BY <3>1, <3>2
  <2>3. from \in 0 .. MaxHeight
    BY <2>2 DEF Shaped, Typed
  <2>4. tables \in Tables
    BY DEF Shaped, RowsTyped
  <2>5. inTurn \in 0 .. MaxHeight + 1
    BY <2>1 DEF Typed
  <2> QED
    BY <2>2, <2>3, <2>4, <2>5 DEF Typed, TypeOK
<1> QED
  BY <1>1, <1>2, <1>3, Inductive, PTL DEF Spec

----------------------------------------------------------------------------
(* What the rows owe to the events handled, in whatever order              *)

Kind(hist, types) == {i \in 1 .. Len(hist) : hist[i].type \in types}
RowTypes == AuctionEvents \cup OfferEvents
StatusTypes == {"AuctionCreated", "AuctionSettled", "AuctionCancelled"}
LeaderTypes == {"AuctionCreated", "BidPlaced"}

\* j may have been the last of the events of S to be handled, if those of F were
\* handled in order and any other of done at any time.
LastMayBe(j, done, F, S) == j \in done \cap S /\ (j \in F => \A k \in F \cap S : k <= j)

\* A closed offer has none pending; an offer made has its amount.
PendingAfter(e) == IF e.type = "OfferMade" THEN e.amount ELSE 0

OfferFits(hist, t, done, F) ==
    \/ done \cap Kind(hist, OfferEvents) = {} /\ t.offer.pending = 0
    \/ \E j \in done : /\ LastMayBe(j, done, F, Kind(hist, OfferEvents))
                       /\ t.offer.pending = PendingAfter(hist[j])

StatusAfter(e) == CASE e.type = "AuctionCreated" -> "active"
                    [] e.type = "AuctionSettled" -> "settled"
                    [] OTHER -> "cancelled"

\* Without its creation an auction has no row for a status.
StatusFits(hist, t, done, F) ==
    \/ done \cap Kind(hist, {"AuctionCreated"}) = {} /\ t.auction.status = "none"
    \/ /\ done \cap Kind(hist, {"AuctionCreated"}) # {}
       /\ \E j \in done : /\ LastMayBe(j, done, F, Kind(hist, StatusTypes))
                          /\ t.auction.status = StatusAfter(hist[j])

BidRow(hist, i) == [tx |-> i, who |-> hist[i].who, amount |-> hist[i].amount]
BidRows(hist, done) == {BidRow(hist, i) : i \in done \cap Kind(hist, {"BidPlaced"})}

\* The leader was computed from bids among which are those handled in order.
LedBy(hist, t, done, F) ==
    \E D \in SUBSET done :
        /\ F \cap Kind(hist, {"BidPlaced"}) \subseteq D
        /\ t.auction.leader = LeaderOf(BidRows(hist, D))
        /\ t.auction.high = Total(BidRows(hist, D), LeaderOf(BidRows(hist, D)))

LedByNobody(t) == t.auction.leader = Nobody /\ t.auction.high = 0

LeaderFits(hist, t, done, F) ==
    \/ done \cap Kind(hist, LeaderTypes) = {} /\ LedByNobody(t)
    \/ \E j \in done : /\ LastMayBe(j, done, F, Kind(hist, LeaderTypes))
                       /\ IF hist[j].type = "AuctionCreated" THEN LedByNobody(t)
                          ELSE LedBy(hist, t, done, F)

\* The events that set the end of the auction created by c.
EndsOf(hist, c) == {c} \cup {k \in Kind(hist, {"AuctionExtended"}) : k > c}

\* An auction handled in order and not ended since is active until its last extension.
EndsFits(hist, t, done, F) ==
    \A c \in F \cap Kind(hist, {"AuctionCreated"}) :
        (\A k \in done \cap Kind(hist, StatusTypes) : k <= c) =>
            /\ t.auction.status = "active"
            /\ \E j \in done : /\ LastMayBe(j, done, F, EndsOf(hist, c))
                               /\ t.auction.endsAt = hist[j].amount

Fits(hist, t, done, F) ==
    /\ OfferFits(hist, t, done, F) /\ StatusFits(hist, t, done, F)
    /\ LeaderFits(hist, t, done, F) /\ EndsFits(hist, t, done, F)

\* Bids, sales and the trail only grow, one row to an event.
SetsFit(hist, t, done) ==
    /\ t.bids = BidRows(hist, done)
    /\ t.sales = done \cap Kind(hist, {"OfferAccepted"})
    /\ t.trail = done \cap Kind(hist, {"KeeperSet"})

LEMMA HistType ==
    ASSUME NEW hist \in Histories
    PROVE  /\ hist \in Seq(Events) /\ Len(hist) \in Nat
           /\ \A i \in 1 .. Len(hist) :
                 /\ hist[i] \in Events /\ hist[i].tx = i /\ hist[i].amount \in Nat
                 /\ hist[i].type \in EventTypes
                 /\ hist[i].type = "BidPlaced" => hist[i].who \in Holders
<1>1. hist \in Seq(Events) /\ Len(hist) \in Nat /\ DOMAIN hist = 1 .. Len(hist)
  BY WatcherAssumption
<1>2. \A i \in 1 .. Len(hist) : hist[i] \in Events
  BY <1>1
<1>3. \A i \in 1 .. Len(hist) :
         hist[i].tx = i /\ (hist[i].type = "BidPlaced" => hist[i].who \in Holders)
  BY <1>1, WatcherAssumption
<1>4. \A e \in Events : e.amount \in Nat /\ e.type \in EventTypes
  BY DEF Events
<1> QED
  BY <1>1, <1>2, <1>3, <1>4

\* What a handler writes into which column.
Effect(t, e, u) ==
    /\ u.sales = IF e.type = "OfferAccepted" THEN t.sales \cup {e.tx} ELSE t.sales
    /\ u.trail = IF e.type = "KeeperSet" THEN t.trail \cup {e.tx} ELSE t.trail
    /\ u.bids = IF e.type = "BidPlaced" /\ ~\E b \in t.bids : b.tx = e.tx
                THEN t.bids \cup {[tx |-> e.tx, who |-> e.who, amount |-> e.amount]} ELSE t.bids
    /\ u.offer.pending = IF e.type \in OfferEvents THEN PendingAfter(e) ELSE t.offer.pending
    /\ u.auction.status = IF e.type = "AuctionCreated"
                             \/ (e.type \in StatusTypes /\ t.auction.status # "none")
                          THEN StatusAfter(e) ELSE t.auction.status
    /\ e.type = "AuctionCreated" => LedByNobody(u)
    /\ e.type = "BidPlaced" => /\ u.auction.leader = LeaderOf(u.bids)
                               /\ u.auction.high = Total(u.bids, LeaderOf(u.bids))
    /\ e.type \notin LeaderTypes => /\ u.auction.leader = t.auction.leader
                                    /\ u.auction.high = t.auction.high
    /\ u.auction.endsAt = IF e.type = "AuctionCreated"
                             \/ (e.type = "AuctionExtended" /\ t.auction.status = "active")
                          THEN e.amount ELSE t.auction.endsAt
    /\ e.type \notin RowTypes => u.auction = t.auction

LEMMA DispatchEffect ==
    ASSUME NEW t \in Tables, NEW e \in Events
    PROVE  Effect(t, e, Dispatch(t, e))
<1> USE DEF Effect, PendingAfter, StatusAfter, StatusTypes, LeaderTypes, LedByNobody, OfferEvents,
            RowTypes, AuctionEvents
<1>1. e.type \in EventTypes /\ e.tx \in Nat /\ e.amount \in Nat
  BY DEF Events
<1>2. t.offer.pending \in Nat /\ t.auction.status \in {"none", "active", "settled", "cancelled"}
  BY DEF Tables
<1>3. CASE e.type = "AuctionCreated"
  <2>1. PICK u : u = [t EXCEPT !.auction = [status |-> "active", leader |-> Nobody, high |-> 0,
                                            endsAt |-> e.amount]]
    OBVIOUS
  <2>2. u = Dispatch(t, e)
    BY <1>3, <2>1 DEF Dispatch, OnAuctionCreated
  <2>3. /\ u.auction = [status |-> "active", leader |-> Nobody, high |-> 0, endsAt |-> e.amount]
        /\ u.sales = t.sales /\ u.trail = t.trail /\ u.offer = t.offer /\ u.bids = t.bids
    <3>1. t \in Tables
      OBVIOUS
    <3> QED
      BY ONLY <2>1, <3>1 DEF Tables
  <2>4. /\ u.auction.status = "active" /\ u.auction.endsAt = e.amount
        /\ u.auction.leader = Nobody /\ u.auction.high = 0
    BY <2>3
  <2>5. StatusAfter(e) = "active"
    BY <1>3
  <2> QED
    BY <1>3, <2>2, <2>3, <2>4, <2>5
<1>4. CASE e.type = "BidPlaced"
  <2> DEFINE rows == IF \E b \in t.bids : b.tx = e.tx THEN t.bids
                     ELSE t.bids \cup {[tx |-> e.tx, who |-> e.who, amount |-> e.amount]}
  <2>1. Dispatch(t, e) = [t EXCEPT !.bids = rows,
                                   !.auction.leader = LeaderOf(rows),
                                   !.auction.high = Total(rows, LeaderOf(rows))]
    BY <1>4 DEF Dispatch, OnBidPlaced
  <2>2. PICK new, leader, high : /\ new = rows /\ leader = LeaderOf(rows)
                                 /\ high = Total(rows, LeaderOf(rows))
    OBVIOUS
  <2>3. PICK u : u = [t EXCEPT !.bids = new, !.auction.leader = leader, !.auction.high = high]
    OBVIOUS
  <2>4. u = Dispatch(t, e)
    BY <2>1, <2>2, <2>3
  <2>5. /\ u.bids = new /\ u.auction.leader = leader /\ u.auction.high = high
        /\ u.sales = t.sales /\ u.trail = t.trail /\ u.offer = t.offer
        /\ u.auction.status = t.auction.status /\ u.auction.endsAt = t.auction.endsAt
    <3>1. t \in Tables
      OBVIOUS
    <3> QED
      BY ONLY <2>3, <3>1 DEF Tables
  <2>6. u.auction.leader = LeaderOf(u.bids) /\ u.auction.high = Total(u.bids, LeaderOf(u.bids))
    BY <2>2, <2>5
  <2> QED
    BY <1>4, <2>2, <2>4, <2>5, <2>6
<1>5. CASE e.type = "AuctionExtended"
  BY <1>5 DEF Dispatch, OnAuctionExtended, Tables
<1>6. CASE e.type = "AuctionSettled"
  BY <1>6 DEF Dispatch, OnAuctionSettled, SetAuctionStatus, Tables
<1>7. CASE e.type = "AuctionCancelled"
  BY <1>7 DEF Dispatch, OnAuctionCancelled, SetAuctionStatus, Tables
<1>8. CASE e.type = "OfferMade"
  BY <1>8 DEF Dispatch, OnOfferMade, Tables
<1>9. CASE e.type = "OfferAccepted"
  BY <1>2, <1>9 DEF Dispatch, OnOfferAccepted, CloseOffer, Tables
<1>10. CASE e.type = "OfferRefunded"
  BY <1>2, <1>10 DEF Dispatch, OnOfferRefunded, CloseOffer, Tables
<1>11. CASE e.type = "TransferSingle"
  BY <1>11 DEF Dispatch, OnTransferSingle, Tables
<1>12. CASE e.type = "KeeperSet"
  BY <1>12 DEF Dispatch, OnGovernance, Tables
<1> QED
  BY <1>1, <1>3, <1>4, <1>5, <1>6, <1>7, <1>8, <1>9, <1>10, <1>11, <1>12 DEF EventTypes

\* What is known of the last event handled stays known when F loses events, gains some
\* that do not matter, or others are handled out of turn.
LEMMA LastKept ==
    ASSUME NEW j, NEW done, NEW F, NEW S, LastMayBe(j, done, F, S),
           NEW done2, done \subseteq done2, NEW F2, F2 \cap S \subseteq F
    PROVE  LastMayBe(j, done2, F2, S)
  BY DEF LastMayBe

LEMMA LastIs ==
    ASSUME NEW i \in Nat, NEW done, NEW F, \A k \in F : k <= i, NEW S, i \in S
    PROVE  LastMayBe(i, done \cup {i}, F \cup {i}, S)
  BY DEF LastMayBe

\* An event without a row in auctions or offers, or of no concern to them, leaves them
\* as they fit.
LEMMA FitsKept ==
    ASSUME NEW hist \in Histories, NEW t, NEW done, NEW F, Fits(hist, t, done, F),
           NEW u, u.auction = t.auction, u.offer.pending = t.offer.pending,
           NEW done2, done \subseteq done2, done2 \cap Kind(hist, RowTypes) \subseteq done,
           NEW F2, F2 \cap Kind(hist, RowTypes) \subseteq F
    PROVE  Fits(hist, u, done2, F2)
<1> DEFINE Rows(types) == Kind(hist, types)
<1>1. \A types : types \subseteq RowTypes => Rows(types) \subseteq Rows(RowTypes)
  BY DEF Kind
<1>2. /\ OfferEvents \subseteq RowTypes /\ StatusTypes \subseteq RowTypes
      /\ LeaderTypes \subseteq RowTypes /\ {"AuctionCreated"} \subseteq RowTypes
      /\ {"BidPlaced"} \subseteq RowTypes /\ {"AuctionExtended"} \subseteq RowTypes
  BY DEF RowTypes, AuctionEvents, OfferEvents, StatusTypes, LeaderTypes
<1>3. \A types : types \subseteq RowTypes =>
         done2 \cap Rows(types) = done \cap Rows(types) /\ F2 \cap Rows(types) \subseteq F
  BY <1>1
<1>4. \A types, j : types \subseteq RowTypes /\ LastMayBe(j, done, F, Rows(types))
                     => LastMayBe(j, done2, F2, Rows(types))
  BY <1>3, LastKept
<1>5. OfferFits(hist, u, done2, F2)
  BY <1>2, <1>3, <1>4 DEF OfferFits, Fits
<1>6. StatusFits(hist, u, done2, F2)
  BY <1>2, <1>3, <1>4 DEF StatusFits, Fits
<1>7. LeaderFits(hist, u, done2, F2)
  <2>1. LedBy(hist, t, done, F) => LedBy(hist, u, done2, F2)
    BY <1>2, <1>3 DEF LedBy
  <2>2. LedByNobody(t) => LedByNobody(u)
    BY DEF LedByNobody
  <2> QED
    BY <1>2, <1>3, <1>4, <2>1, <2>2 DEF LeaderFits, Fits
<1>8. EndsFits(hist, u, done2, F2)
  <2> SUFFICES ASSUME NEW c \in F2 \cap Rows({"AuctionCreated"}),
                      \A k \in done2 \cap Rows(StatusTypes) : k <= c
               PROVE  /\ u.auction.status = "active"
                      /\ \E j \in done2 : /\ LastMayBe(j, done2, F2, EndsOf(hist, c))
                                          /\ u.auction.endsAt = hist[j].amount
    BY DEF EndsFits
  <2>1. c \in F \cap Rows({"AuctionCreated"})
    BY <1>2, <1>3
  <2>2. \A k \in done \cap Rows(StatusTypes) : k <= c
    BY <1>2, <1>3
  <2>3. /\ t.auction.status = "active"
        /\ \E j \in done : /\ LastMayBe(j, done, F, EndsOf(hist, c))
                           /\ t.auction.endsAt = hist[j].amount
    BY <2>1, <2>2 DEF Fits, EndsFits
  <2>4. F2 \cap EndsOf(hist, c) \subseteq F
    BY <1>2, <1>3, <2>1 DEF EndsOf
  <2> QED
    BY <2>3, <2>4, LastKept
<1> QED
  BY <1>5, <1>6, <1>7, <1>8 DEF Fits

----------------------------------------------------------------------------
(* An event handled after all those of F                                   *)

LEMMA OfferWritten ==
    ASSUME NEW hist \in Histories, NEW t, NEW i \in 1 .. Len(hist), NEW u, Effect(t, hist[i], u),
           NEW done, NEW F \in SUBSET done, \A k \in F : k <= i, OfferFits(hist, t, done, F)
    PROVE  OfferFits(hist, u, done \cup {i}, F \cup {i})
<1> DEFINE S == Kind(hist, OfferEvents)
<1>0. i \in Nat /\ (i \in S <=> hist[i].type \in OfferEvents)
  BY DEF Kind
<1>1. CASE i \in S
  <2>1. u.offer.pending = PendingAfter(hist[i])
    BY <1>0, <1>1 DEF Effect
  <2>2. LastMayBe(i, done \cup {i}, F \cup {i}, S)
    BY <1>0, <1>1, LastIs
  <2> QED
    BY <2>1, <2>2 DEF OfferFits
<1>2. CASE i \notin S
  <2>1. u.offer.pending = t.offer.pending
    BY <1>0, <1>2 DEF Effect
  <2>2. \A j : LastMayBe(j, done, F, S) => LastMayBe(j, done \cup {i}, F \cup {i}, S)
    BY <1>2, LastKept
  <2> QED
    BY <1>2, <2>1, <2>2 DEF OfferFits
<1> QED
  BY <1>1, <1>2

LEMMA StatusWritten ==
    ASSUME NEW hist \in Histories, NEW t, NEW i \in 1 .. Len(hist), NEW u, Effect(t, hist[i], u),
           NEW done \in SUBSET (1 .. Len(hist)), NEW F \in SUBSET done, \A k \in F : k <= i,
           StatusFits(hist, t, done, F)
    PROVE  StatusFits(hist, u, done \cup {i}, F \cup {i})
<1> DEFINE S == Kind(hist, StatusTypes)
           C == Kind(hist, {"AuctionCreated"})
<1>0. /\ i \in Nat /\ (i \in S <=> hist[i].type \in StatusTypes)
      /\ i \in C <=> hist[i].type = "AuctionCreated"
      /\ C \subseteq S
  BY DEF Kind, StatusTypes
<1>1. CASE i \in S /\ (i \in C \/ t.auction.status # "none")
  <2>1. u.auction.status = StatusAfter(hist[i])
    <3>1. hist[i].type = "AuctionCreated"
             \/ (hist[i].type \in StatusTypes /\ t.auction.status # "none")
      BY <1>0, <1>1
    <3> QED
      BY <3>1 DEF Effect
  <2>2. LastMayBe(i, done \cup {i}, F \cup {i}, S)
    BY <1>0, <1>1, LastIs
  <2>3. (done \cup {i}) \cap C # {}
    BY <1>1 DEF StatusFits
  <2> QED
    BY <2>1, <2>2, <2>3 DEF StatusFits
<1>2. CASE ~(i \in S /\ (i \in C \/ t.auction.status # "none"))
  <2>1. u.auction.status = t.auction.status
    BY <1>0, <1>2 DEF Effect
  <2>2. i \notin C
    BY <1>0, <1>2
  <2>3. CASE i \in S
    <3>1. t.auction.status = "none"
      BY <1>2, <2>3
    <3>2. \A e : StatusAfter(e) # "none"
      BY DEF StatusAfter
    <3>3. done \cap C = {}
      BY <3>1, <3>2 DEF StatusFits
    <3> QED
      BY <2>1, <2>2, <3>1, <3>3 DEF StatusFits
  <2>4. CASE i \notin S
    <3>1. \A j : LastMayBe(j, done, F, S) => LastMayBe(j, done \cup {i}, F \cup {i}, S)
      BY <2>4, LastKept
    <3> QED
      BY <2>1, <2>2, <3>1 DEF StatusFits
  <2> QED
    BY <2>3, <2>4
<1> QED
  BY <1>1, <1>2

\* What the rows of bids are after an event: one more for a bid, if it is new.
LEMMA BidsWritten ==
    ASSUME NEW hist \in Histories, NEW t, NEW i \in 1 .. Len(hist), NEW u, Effect(t, hist[i], u),
           NEW done \in SUBSET (1 .. Len(hist)), SetsFit(hist, t, done)
    PROVE  SetsFit(hist, u, done \cup {i})
<1>0. /\ hist[i].tx = i /\ t.bids = BidRows(hist, done)
      /\ t.sales = done \cap Kind(hist, {"OfferAccepted"})
      /\ t.trail = done \cap Kind(hist, {"KeeperSet"})
  BY HistType DEF SetsFit
<1>1. u.sales = (done \cup {i}) \cap Kind(hist, {"OfferAccepted"})
  <2>1. u.sales = IF hist[i].type = "OfferAccepted" THEN t.sales \cup {i} ELSE t.sales
    BY <1>0 DEF Effect
  <2> QED
    BY <1>0, <2>1 DEF Kind
<1>2. u.trail = (done \cup {i}) \cap Kind(hist, {"KeeperSet"})
  <2>1. u.trail = IF hist[i].type = "KeeperSet" THEN t.trail \cup {i} ELSE t.trail
    BY <1>0 DEF Effect
  <2> QED
    BY <1>0, <2>1 DEF Kind
<1>3. u.bids = BidRows(hist, done \cup {i})
  <2>1. u.bids = IF hist[i].type = "BidPlaced" /\ ~\E b \in t.bids : b.tx = i
                 THEN t.bids \cup {BidRow(hist, i)} ELSE t.bids
    BY <1>0 DEF Effect, BidRow
  <2>2. \A b \in t.bids : b.tx = i => b = BidRow(hist, i)
    BY <1>0 DEF BidRows, BidRow
  <2>3. CASE hist[i].type = "BidPlaced"
    <3>1. i \in Kind(hist, {"BidPlaced"})
      BY <2>3 DEF Kind
    <3>2. BidRows(hist, done \cup {i}) = t.bids \cup {BidRow(hist, i)}
      BY <1>0, <3>1 DEF BidRows
    <3>3. CASE \E b \in t.bids : b.tx = i
      <4>1. u.bids = t.bids /\ BidRow(hist, i) \in t.bids
        BY <2>1, <2>2, <3>3
      <4> QED
        BY <3>2, <4>1
    <3>4. CASE ~\E b \in t.bids : b.tx = i
      BY <2>1, <2>3, <3>2, <3>4
    <3> QED
      BY <3>3, <3>4
  <2>4. CASE hist[i].type # "BidPlaced"
    <3>1. i \notin Kind(hist, {"BidPlaced"})
      BY <2>4 DEF Kind
    <3> QED
      BY <1>0, <2>1, <2>4, <3>1 DEF BidRows
  <2> QED
    BY <2>3, <2>4
<1> QED
  BY <1>1, <1>2, <1>3 DEF SetsFit

LEMMA LeaderWritten ==
    ASSUME NEW hist \in Histories, NEW t, NEW i \in 1 .. Len(hist), NEW u, Effect(t, hist[i], u),
           NEW done \in SUBSET (1 .. Len(hist)), NEW F \in SUBSET done, \A k \in F : k <= i,
           LeaderFits(hist, t, done, F), SetsFit(hist, t, done)
    PROVE  LeaderFits(hist, u, done \cup {i}, F \cup {i})
<1> DEFINE S == Kind(hist, LeaderTypes)
           B == Kind(hist, {"BidPlaced"})
<1>0. /\ i \in Nat /\ (i \in S <=> hist[i].type \in LeaderTypes)
      /\ B \subseteq S
  BY DEF Kind, LeaderTypes
<1>1. CASE hist[i].type = "AuctionCreated"
  <2>1. LedByNobody(u)
    BY <1>1 DEF Effect
  <2>2. LastMayBe(i, done \cup {i}, F \cup {i}, S)
    BY <1>0, <1>1, LastIs DEF LeaderTypes
  <2> QED
    BY <1>1, <2>1, <2>2 DEF LeaderFits
<1>2. CASE hist[i].type = "BidPlaced"
  <2>1. u.bids = BidRows(hist, done \cup {i})
    <3>1. SetsFit(hist, u, done \cup {i})
      BY BidsWritten
    <3> QED
      BY <3>1 DEF SetsFit
  <2>2. u.auction.leader = LeaderOf(u.bids) /\ u.auction.high = Total(u.bids, LeaderOf(u.bids))
    BY <1>2 DEF Effect
  <2>3. LedBy(hist, u, done \cup {i}, F \cup {i})
    <3>1. done \cup {i} \in SUBSET (done \cup {i}) /\ (F \cup {i}) \cap B \subseteq done \cup {i}
      OBVIOUS
    <3> QED
      BY <2>1, <2>2, <3>1 DEF LedBy
  <2>4. LastMayBe(i, done \cup {i}, F \cup {i}, S)
    BY <1>0, <1>2, LastIs DEF LeaderTypes
  <2> QED
    BY <1>2, <2>3, <2>4 DEF LeaderFits
<1>3. CASE hist[i].type \notin LeaderTypes
  <2>1. u.auction.leader = t.auction.leader /\ u.auction.high = t.auction.high
    BY <1>3 DEF Effect
  <2>2. i \notin S /\ i \notin B
    BY <1>0, <1>3
  <2>3. \A j : LastMayBe(j, done, F, S) => LastMayBe(j, done \cup {i}, F \cup {i}, S)
    BY <2>2, LastKept
  <2>4. LedByNobody(t) => LedByNobody(u)
    BY <2>1 DEF LedByNobody
  <2>5. LedBy(hist, t, done, F) => LedBy(hist, u, done \cup {i}, F \cup {i})
    BY <2>1, <2>2 DEF LedBy
  <2> QED
    BY <2>2, <2>3, <2>4, <2>5 DEF LeaderFits
<1> QED
  BY <1>1, <1>2, <1>3 DEF LeaderTypes

LEMMA EndsWritten ==
    ASSUME NEW hist \in Histories, NEW t, NEW i \in 1 .. Len(hist), NEW u, Effect(t, hist[i], u),
           NEW done \in SUBSET (1 .. Len(hist)), NEW F \in SUBSET done, \A k \in F : k <= i,
           EndsFits(hist, t, done, F)
    PROVE  EndsFits(hist, u, done \cup {i}, F \cup {i})
<1> DEFINE S == Kind(hist, StatusTypes)
           C == Kind(hist, {"AuctionCreated"})
<1>0. /\ i \in Nat /\ (i \in S <=> hist[i].type \in StatusTypes)
      /\ i \in C <=> hist[i].type = "AuctionCreated"
      /\ C \subseteq S /\ C \subseteq Nat
  BY DEF Kind, StatusTypes
<1> SUFFICES ASSUME NEW c \in (F \cup {i}) \cap C, \A k \in (done \cup {i}) \cap S : k <= c
             PROVE  /\ u.auction.status = "active"
                    /\ \E j \in done \cup {i} :
                          /\ LastMayBe(j, done \cup {i}, F \cup {i}, EndsOf(hist, c))
                          /\ u.auction.endsAt = hist[j].amount
  BY DEF EndsFits
<1>1. CASE c = i
  <2>1. u.auction.status = "active" /\ u.auction.endsAt = hist[i].amount
    BY <1>0, <1>1 DEF Effect, StatusAfter
  <2>2. LastMayBe(i, done \cup {i}, F \cup {i}, EndsOf(hist, c))
    BY <1>0, <1>1, LastIs DEF EndsOf
  <2> QED
    BY <2>1, <2>2
<1>2. CASE c # i
  <2>1. c \in F /\ c < i
    BY <1>0, <1>2
  <2>2. i \notin S
    BY <1>0, <2>1
  <2>3. PICK j \in done : /\ LastMayBe(j, done, F, EndsOf(hist, c))
                          /\ t.auction.status = "active" /\ t.auction.endsAt = hist[j].amount
    BY <2>1 DEF EndsFits
  <2>4. u.auction.status = "active"
    BY <1>0, <2>2, <2>3 DEF Effect, StatusTypes
  <2>5. CASE hist[i].type = "AuctionExtended"
    <3>1. u.auction.endsAt = hist[i].amount
      BY <2>3, <2>5 DEF Effect
    <3>2. i \in EndsOf(hist, c)
      BY <2>1, <2>5 DEF EndsOf, Kind
    <3>3. LastMayBe(i, done \cup {i}, F \cup {i}, EndsOf(hist, c))
      BY <1>0, <3>2, LastIs
    <3> QED
      BY <2>4, <3>1, <3>3
  <2>6. CASE hist[i].type # "AuctionExtended"
    <3>1. u.auction.endsAt = t.auction.endsAt
      BY <1>0, <2>2, <2>6 DEF Effect, StatusTypes
    <3>2. i \notin EndsOf(hist, c)
      BY <1>2, <2>6 DEF EndsOf, Kind
    <3>3. LastMayBe(j, done \cup {i}, F \cup {i}, EndsOf(hist, c))
      BY <2>3, <3>2, LastKept
    <3> QED
      BY <2>3, <2>4, <3>1, <3>3
  <2> QED
    BY <2>5, <2>6
<1> QED
  BY <1>1, <1>2

\* A handler run after those of F, in the order of the history, fits with them.
LEMMA Written ==
    ASSUME NEW hist \in Histories, NEW t \in Tables, NEW i \in 1 .. Len(hist),
           NEW done \in SUBSET (1 .. Len(hist)), NEW F \in SUBSET done, \A k \in F : k <= i,
           SetsFit(hist, t, done), Fits(hist, t, done, F)
    PROVE  /\ SetsFit(hist, Dispatch(t, hist[i]), done \cup {i})
           /\ Fits(hist, Dispatch(t, hist[i]), done \cup {i}, F \cup {i})
<1>1. PICK u : u = Dispatch(t, hist[i])
  OBVIOUS
<1>2. Effect(t, hist[i], u)
  BY <1>1, HistType, DispatchEffect
<1>3. SetsFit(hist, u, done \cup {i})
  BY <1>2, BidsWritten
<1>4. Fits(hist, u, done \cup {i}, F \cup {i})
  BY <1>2, OfferWritten, StatusWritten, LeaderWritten, EndsWritten DEF Fits
<1> QED
  BY <1>1, <1>3, <1>4

----------------------------------------------------------------------------
(* What fits with events that were all handled in order is determined      *)

LEMMA LastIsOne ==
    ASSUME NEW D \in SUBSET Nat, NEW S, NEW j, LastMayBe(j, D, D, S), NEW k, LastMayBe(k, D, D, S)
    PROVE  j = k
  BY DEF LastMayBe

LEMMA FitIsOne ==
    ASSUME NEW hist \in Histories, NEW D \in SUBSET (1 .. Len(hist)),
           NEW t \in Tables, SetsFit(hist, t, D), Fits(hist, t, D, D),
           NEW u \in Tables, SetsFit(hist, u, D), Fits(hist, u, D, D)
    PROVE  /\ t.auction.status = u.auction.status /\ t.bids = u.bids
           /\ t.auction.leader = u.auction.leader /\ t.auction.high = u.auction.high
           /\ u.auction.status = "active" => t.auction = u.auction
           /\ t.offer.pending = u.offer.pending
           /\ t.sales = u.sales /\ t.trail = u.trail
<1>0. D \in SUBSET Nat
  BY HistType
<1>1. t.bids = u.bids /\ t.sales = u.sales /\ t.trail = u.trail
  BY DEF SetsFit
<1>2. t.offer.pending = u.offer.pending
  <2>1. \A j \in D : LastMayBe(j, D, D, Kind(hist, OfferEvents)) => D \cap Kind(hist, OfferEvents) # {}
    BY DEF LastMayBe
  <2> QED
    BY <1>0, <2>1, LastIsOne DEF Fits, OfferFits
<1>3. t.auction.status = u.auction.status
  BY <1>0, LastIsOne DEF Fits, StatusFits
<1>4. t.auction.leader = u.auction.leader /\ t.auction.high = u.auction.high
  <2> DEFINE S == Kind(hist, LeaderTypes)
             B == Kind(hist, {"BidPlaced"})
  <2>1. CASE D \cap S = {}
    BY <2>1 DEF Fits, LeaderFits, LastMayBe, LedByNobody
  <2>2. CASE D \cap S # {}
    <3>1. PICK j \in D : /\ LastMayBe(j, D, D, S)
                         /\ IF hist[j].type = "AuctionCreated" THEN LedByNobody(t)
                            ELSE LedBy(hist, t, D, D)
      BY <2>2 DEF Fits, LeaderFits
    <3>2. PICK k \in D : /\ LastMayBe(k, D, D, S)
                         /\ IF hist[k].type = "AuctionCreated" THEN LedByNobody(u)
                            ELSE LedBy(hist, u, D, D)
      BY <2>2 DEF Fits, LeaderFits
    <3>3. j = k
      BY <1>0, <3>1, <3>2, LastIsOne
    <3>4. CASE hist[j].type = "AuctionCreated"
      BY <3>1, <3>2, <3>3, <3>4 DEF LedByNobody
    <3>5. CASE hist[j].type # "AuctionCreated"
      <4>1. \A A \in SUBSET D : D \cap B \subseteq A => BidRows(hist, A) = BidRows(hist, D)
        BY DEF BidRows
      <4>2. ASSUME NEW v, LedBy(hist, v, D, D)
            PROVE  /\ v.auction.leader = LeaderOf(BidRows(hist, D))
                   /\ v.auction.high = Total(BidRows(hist, D), LeaderOf(BidRows(hist, D)))
        BY <4>1, <4>2 DEF LedBy
      <4> QED
        BY <3>1, <3>2, <3>3, <3>5, <4>2
    <3> QED
      BY <3>4, <3>5
  <2> QED
    BY <2>1, <2>2
<1>5. ASSUME u.auction.status = "active"
      PROVE  t.auction = u.auction
  <2> DEFINE S == Kind(hist, StatusTypes)
             C == Kind(hist, {"AuctionCreated"})
  <2>1. PICK c \in D : LastMayBe(c, D, D, S) /\ StatusAfter(hist[c]) = "active"
    BY <1>5 DEF Fits, StatusFits
  <2>2. c \in D \cap C /\ \A k \in D \cap S : k <= c
    <3>1. hist[c].type = "AuctionCreated"
      BY <2>1 DEF StatusAfter
    <3> QED
      BY <2>1, <3>1 DEF Kind, LastMayBe
  <2>3. PICK j \in D : LastMayBe(j, D, D, EndsOf(hist, c)) /\ t.auction.endsAt = hist[j].amount
    BY <2>2 DEF Fits, EndsFits
  <2>4. PICK k \in D : LastMayBe(k, D, D, EndsOf(hist, c)) /\ u.auction.endsAt = hist[k].amount
    BY <2>2 DEF Fits, EndsFits
  <2>5. t.auction.endsAt = u.auction.endsAt
    BY <1>0, <2>3, <2>4, LastIsOne
  <2>6. \A v \in Tables : v.auction = [status |-> v.auction.status, leader |-> v.auction.leader,
                                      high |-> v.auction.high, endsAt |-> v.auction.endsAt]
    BY DEF Tables
  <2> QED
    BY <1>3, <1>4, <2>5, <2>6
<1> QED
  BY <1>1, <1>2, <1>3, <1>4, <1>5

----------------------------------------------------------------------------
(* One run of the handlers                                                 *)

\* The recursive function behind RowsAfter exists.
LEMMA RowsUnfold ==
    ASSUME NEW hist \in Histories, NEW n \in 0 .. Len(hist)
    PROVE  \E after :
              /\ after[0] = NoRows
              /\ \A m \in 1 .. n : after[m] = Dispatch(after[m - 1], hist[m])
              /\ RowsAfter([i \in 1 .. n |-> hist[i]]) = after[n]
<1> DEFINE events == [i \in 1 .. n |-> hist[i]]
           Value(f, m) == IF m = 0 THEN NoRows ELSE Dispatch(f[m - 1], events[m])
           Unfolds(f, d) == f = [m \in d |-> Value(f, m)]
           after == CHOOSE f : Unfolds(f, 0 .. Len(events))
<1>0. n \in Nat /\ Len(events) = n
  BY HistType
<1>1. RowsAfter(events) = after[Len(events)]
  BY Zenon DEF RowsAfter
<1>2. \E f : Unfolds(f, 0 .. n)
  <2> DEFINE P == {m \in Nat : \E f : Unfolds(f, 0 .. m)}
  <2>1. ASSUME NEW m \in Nat, \A k \in Nat : k < m => k \in P
        PROVE  m \in P
    <3>1. CASE m = 0
      <4> DEFINE f == [k \in 0 .. 0 |-> NoRows]
      <4>1. Unfolds(f, 0 .. 0)
        OBVIOUS
      <4> QED
        BY <3>1, <4>1
    <3>2. CASE m # 0
      <4>0. m - 1 \in Nat /\ m - 1 < m
        BY <3>2
      <4>1. PICK f : Unfolds(f, 0 .. (m - 1))
        BY <2>1, <4>0
      <4> DEFINE g == [k \in 0 .. m |-> Value(f, k)]
      <4>2. ASSUME NEW k \in 0 .. (m - 1) PROVE k \in 0 .. m /\ g[k] = f[k]
        <5>1. k \in 0 .. m
          BY <4>0
        <5>2. g[k] = Value(f, k)
          BY <5>1
        <5>3. f[k] = Value(f, k)
          BY <4>1
        <5> QED
          BY <5>1, <5>2, <5>3
      <4>3. ASSUME NEW k \in 0 .. m PROVE Value(f, k) = Value(g, k)
        <5>1. k # 0 => k - 1 \in 0 .. (m - 1)
          BY <4>0
        <5> HIDE DEF g
        <5> QED
          BY <4>2, <5>1
      <4>4. Unfolds(g, 0 .. m)
        <5> HIDE DEF Value
        <5> QED
          BY <4>3
      <4> QED
        BY <4>4, Zenon
    <3> QED
      BY <3>1, <3>2
  <2>2. P = Nat
    <3> HIDE DEF P
    <3>1. P \in SUBSET Nat
      BY DEF P
    <3> QED
      BY <3>1, <2>1, NatInductionSet
  <2> QED
    BY <1>0, <2>2, Zenon
<1>3. Unfolds(after, 0 .. n)
  <2>1. after = CHOOSE f : Unfolds(f, 0 .. n)
    BY <1>0
  <2> HIDE DEF Unfolds, after
  <2> QED
    BY <1>2, <2>1, Zenon
<1> HIDE DEF after
<1>4. \A m \in 0 .. n : after[m] = Value(after, m)
  <2> HIDE DEF Value
  <2> QED
    BY <1>3
<1>5. after[0] = NoRows /\ \A m \in 1 .. n : after[m] = Dispatch(after[m - 1], hist[m])
  <2>1. \A m \in 1 .. n : m \in 0 .. n /\ m # 0 /\ events[m] = hist[m]
    BY <1>0
  <2>2. 0 \in 0 .. n
    BY <1>0
  <2> QED
    BY <1>4, <2>1, <2>2
<1>6. RowsAfter(events) = after[n]
  BY <1>0, <1>1
<1> QED
  BY <1>5, <1>6

LEMMA OnceFits ==
    ASSUME NEW hist \in Histories, NEW n \in 0 .. Len(hist),
           NEW t, t = RowsAfter([i \in 1 .. n |-> hist[i]])
    PROVE  RowsTyped(t) /\ SetsFit(hist, t, 1 .. n) /\ Fits(hist, t, 1 .. n, 1 .. n)
<1>1. PICK after : /\ after[0] = NoRows
                   /\ \A m \in 1 .. n : after[m] = Dispatch(after[m - 1], hist[m])
                   /\ RowsAfter([i \in 1 .. n |-> hist[i]]) = after[n]
  BY RowsUnfold
<1> DEFINE Right(m) == /\ RowsTyped(after[m]) /\ SetsFit(hist, after[m], 1 .. m)
                       /\ Fits(hist, after[m], 1 .. m, 1 .. m)
           P == {m \in Nat : m <= n => Right(m)}
<1>2. ASSUME NEW m \in Nat, \A k \in Nat : k < m => k \in P, m <= n
      PROVE  Right(m)
  <2>1. CASE m = 0
    <3>1. 1 .. 0 = {}
      OBVIOUS
    <3>2. RowsTyped(NoRows)
      BY FS_EmptySet DEF RowsTyped, NoRows, Tables
    <3>3. SetsFit(hist, NoRows, {})
      BY DEF SetsFit, NoRows, BidRows
    <3>4. Fits(hist, NoRows, {}, {})
      BY DEF Fits, OfferFits, StatusFits, LeaderFits, EndsFits, NoRows, LedByNobody
    <3> QED
      BY <1>1, <2>1, <3>1, <3>2, <3>3, <3>4
  <2>2. CASE m # 0
    <3>1. m - 1 \in Nat /\ m - 1 < m /\ m - 1 <= n /\ m \in 1 .. n /\ m \in 1 .. Len(hist)
      BY <1>2, <2>2, HistType
    <3>2. Right(m - 1)
      BY <1>2, <3>1
    <3>3. after[m] = Dispatch(after[m - 1], hist[m])
      BY <1>1, <3>1
    <3>4. /\ (1 .. m - 1) \cup {m} = 1 .. m /\ \A k \in 1 .. m - 1 : k <= m
          /\ 1 .. m - 1 \in SUBSET (1 .. Len(hist))
      BY <3>1, HistType
    <3>5. RowsTyped(after[m])
      BY <3>1, <3>2, <3>3, HistType, DispatchType
    <3>6. after[m - 1] \in Tables
      BY <3>2 DEF RowsTyped
    <3> HIDE DEF Right, P
    <3>7. SetsFit(hist, after[m - 1], 1 .. m - 1) /\ Fits(hist, after[m - 1], 1 .. m - 1, 1 .. m - 1)
      BY <3>2 DEF Right
    <3>8. /\ SetsFit(hist, after[m], (1 .. m - 1) \cup {m})
          /\ Fits(hist, after[m], (1 .. m - 1) \cup {m}, (1 .. m - 1) \cup {m})
      <4>1. PICK before, D : before = after[m - 1] /\ D = 1 .. m - 1
        OBVIOUS
      <4>2. /\ before \in Tables /\ D \in SUBSET (1 .. Len(hist)) /\ D \in SUBSET D
            /\ \A k \in D : k <= m
            /\ SetsFit(hist, before, D) /\ Fits(hist, before, D, D) /\ m \in 1 .. Len(hist)
        BY <3>1, <3>4, <3>6, <3>7, <4>1
      <4>3. /\ SetsFit(hist, Dispatch(before, hist[m]), D \cup {m})
            /\ Fits(hist, Dispatch(before, hist[m]), D \cup {m}, D \cup {m})
        BY <4>2, Written
      <4> QED
        BY <3>3, <4>1, <4>3
    <3> QED
      BY <3>4, <3>5, <3>8 DEF Right
  <2> QED
    BY <2>1, <2>2
<1>3. P = Nat
  <2> HIDE DEF Right
  <2>1. P \in SUBSET Nat
    OBVIOUS
  <2>2. \A m \in Nat : (\A k \in Nat : k < m => k \in P) => m \in P
    BY <1>2
  <2> HIDE DEF P
  <2> QED
    BY <2>1, <2>2, NatInductionSet
<1>4. n \in Nat /\ Right(n)
  <2>1. n \in Nat
    BY HistType
  <2> HIDE DEF Right
  <2> QED
    BY <1>3, <2>1
<1> QED
  BY <1>1, <1>4

----------------------------------------------------------------------------
(* The order of the chain                                                  *)

LEMMA BlockOrder ==
    ASSUME Typed, InOrder(chain), NEW g \in DOMAIN chain, NEW h \in DOMAIN chain, g < h,
           chain[h].ev # None
    PROVE  chain[g].ev < chain[h].ev
<1>1. /\ g \in Nat /\ h \in Nat /\ g >= 1
      /\ chain[g].ev \in Nat /\ chain[h].ev \in Nat \ {0}
  BY ChainType, HistoryType DEF None
<1>2. {chain[f].ev : f \in 1 .. h - 1} \ {None} = 1 .. chain[h].ev - 1
  BY DEF InOrder
<1>3. chain[g].ev = None \/ chain[g].ev \in 1 .. chain[h].ev - 1
  BY <1>1, <1>2
<1> QED
  BY <1>1, <1>3 DEF None

\* The events of the blocks up to a height are the first ones of the history.
LEMMA BelowIsPrefix ==
    ASSUME Typed, InOrder(chain), NEW h \in Nat, h <= Top
    PROVE  \E n \in 0 .. Len(history) : Below(h) = 1 .. n
<1> DEFINE P == {g \in Nat : g <= Top => \E n \in Nat : Below(g) = 1 .. n}
<1>1. ASSUME NEW g \in Nat, \A f \in Nat : f < g => f \in P, g <= Top
      PROVE  \E n \in Nat : Below(g) = 1 .. n
  <2>1. CASE g = 0
    <3>1. Below(g) = 1 .. 0
      BY <2>1 DEF Below
    <3> QED
      BY <3>1
  <2>2. CASE g # 0 /\ chain[g].ev = None
    <3>1. g - 1 \in Nat /\ g - 1 < g /\ g - 1 <= Top /\ 1 .. g = (1 .. g - 1) \cup {g}
      BY <1>1, <2>2, ChainType
    <3>2. Below(g) = Below(g - 1)
      BY <2>2, <3>1 DEF Below
    <3> QED
      BY <1>1, <3>1, <3>2
  <2>3. CASE g # 0 /\ chain[g].ev # None
    <3>1. g \in DOMAIN chain /\ chain[g].ev \in Nat \ {0} /\ 1 .. g = (1 .. g - 1) \cup {g}
      BY <1>1, <2>3, ChainType, HistoryType DEF None
    <3>2. {chain[f].ev : f \in 1 .. g - 1} \ {None} = 1 .. chain[g].ev - 1
      BY <2>3, <3>1 DEF InOrder
    <3>3. Below(g) = (1 .. chain[g].ev - 1) \cup {chain[g].ev}
      BY <2>3, <3>1, <3>2 DEF Below
    <3>4. (1 .. chain[g].ev - 1) \cup {chain[g].ev} = 1 .. chain[g].ev
      BY <3>1
    <3> QED
      BY <3>1, <3>3, <3>4
  <2> QED
    BY <2>1, <2>2, <2>3
<1>2. P = Nat
  <2>1. P \in SUBSET Nat /\ \A g \in Nat : (\A f \in Nat : f < g => f \in P) => g \in P
    BY <1>1
  <2> HIDE DEF P
  <2> QED
    BY <2>1, NatInductionSet
<1>3. PICK n \in Nat : Below(h) = 1 .. n
  BY <1>2
<1>4. Below(h) \subseteq 1 .. Len(history)
  BY ChainType DEF Below, EventsAt
<1>5. n <= Len(history)
  BY <1>3, <1>4, HistoryType
<1> QED
  BY <1>3, <1>5, HistoryType

LEMMA BelowType ==
    ASSUME Typed, NEW h \in Int, h <= Top
    PROVE  Below(h) \subseteq Mined /\ Below(h) \subseteq Nat \ {0}
<1>1. Below(h) \subseteq Mined
  BY ChainType DEF Below, Mined
<1> QED
  BY <1>1, ChainType

\* An event no block holds comes after all those that blocks hold.
LEMMA UnminedIsLater ==
    ASSUME Typed, InOrder(chain), NEW i \in 1 .. Len(history), i \notin Mined, NEW k \in Mined
    PROVE  k < i
<1>1. Top \in Nat /\ Mined = Below(Top)
  BY ChainType DEF Mined, Below
<1>2. PICK n \in Nat : Mined = 1 .. n
  BY <1>1, BelowIsPrefix, HistoryType
<1> QED
  BY <1>2, HistoryType

----------------------------------------------------------------------------
(* What the rows owe to the watcher                                        *)

ChunkEvents == {chain[h].ev : h \in from .. RangeEnd} \ {None}

\* The events handled of the range, in its first phase.
Handled == Below(from - 1) \cup {ev \in ChunkEvents : ~IsMove(ev) /\ ev \notin todo}

\* The watcher goes on from blocks handled in turn.
Counts == from <= inTurn /\ missed \cap (from .. RangeEnd) = {}

RowsInTurn ==
    /\ InOrder(chain)
    /\ SetsFit(history, tables, dispatched)
    /\ Below(inTurn - 1) \subseteq dispatched
    /\ Fits(history, tables, dispatched, Below(inTurn - 1))

QueueInOrder ==
    wpc = "core" => \A i \in todo, h \in DOMAIN chain : h < from /\ h < inTurn => chain[h].ev < i

CoreInTurn ==
    wpc = "core" /\ ~failed /\ Counts =>
        /\ \A i \in todo, k \in ChunkEvents : k \notin todo /\ ~IsMove(k) => k < i
        /\ Fits(history, tables, dispatched, Handled)

MovesInTurn ==
    wpc = "moves" => /\ \A i \in todo : IsMove(i)
                     /\ Counts => Fits(history, tables, dispatched, Below(RangeEnd))

Turn == RowsInTurn /\ QueueInOrder /\ CoreInTurn /\ MovesInTurn

LEMMA TurnInit ==
    ASSUME Init
    PROVE  Turn
<1> USE DEF Init
<1>1. DOMAIN chain = {} /\ inTurn = 1 /\ wpc = "down" /\ dispatched = {} /\ tables = NoRows
  OBVIOUS
<1>2. Below(inTurn - 1) = {}
  BY <1>1 DEF Below
<1>3. SetsFit(history, NoRows, {}) /\ Fits(history, NoRows, {}, {})
  BY DEF SetsFit, NoRows, BidRows, Fits, OfferFits, StatusFits, LeaderFits, EndsFits, LedByNobody
<1>4. RowsInTurn
  BY <1>1, <1>2, <1>3 DEF RowsInTurn, InOrder
<1> QED
  BY <1>1, <1>4 DEF Turn, QueueInOrder, CoreInTurn, MovesInTurn

\* A step that leaves the rows alone and the watcher outside of its two phases.
LEMMA TurnRests ==
    ASSUME Turn, UNCHANGED <<history, chain, tables, dispatched, inTurn>>,
           wpc' \notin {"core", "moves"}
    PROVE  Turn'
<1>1. RowsInTurn'
  BY DEF Turn, RowsInTurn, InOrder, Below
<1> QED
  BY <1>1 DEF Turn, QueueInOrder, CoreInTurn, MovesInTurn

\* A step that does not concern the rows.
LEMMA TurnStays ==
    ASSUME Turn, UNCHANGED <<history, chain, tables, dispatched, inTurn, wpc, from, target, todo,
                             failed, missed>>
    PROVE  Turn'
<1>1. RowsInTurn'
  BY DEF Turn, RowsInTurn, InOrder, Below
<1>2. /\ RangeEnd' = RangeEnd /\ ChunkEvents' = ChunkEvents /\ Handled' = Handled
      /\ Counts' = Counts /\ Below(RangeEnd)' = Below(RangeEnd)
  BY DEF RangeEnd, ChunkEvents, Handled, Counts, Below, IsMove
<1>3. QueueInOrder' /\ CoreInTurn' /\ MovesInTurn'
  BY <1>2 DEF Turn, QueueInOrder, CoreInTurn, MovesInTurn, IsMove
<1> QED
  BY <1>1, <1>3 DEF Turn

\* A block mined, or blocks replaced: those below inTurn, and those of the range unless
\* they are missed, are the same.
LEMMA TurnOfChain ==
    ASSUME IInv, Typed', Turn, ChainGrows, InOrder(chain)', inTurn' <= inTurn,
           \A h \in 1 .. Top : h < inTurn' => chain'[h] = chain[h],
           UNCHANGED <<history, localVars, tables, dispatched>>
    PROVE  Turn'
<1> USE DEF IInv, localVars
<1>1. /\ Top \in Nat /\ Top' \in Nat /\ Top <= Top' /\ inTurn \in 0 .. Top + 1 /\ inTurn' \in Int
      /\ from \in Nat /\ missed \subseteq missed' /\ DOMAIN chain = 1 .. Top
      /\ DOMAIN chain' = 1 .. Top'
  <2>1. Top' \in Nat /\ DOMAIN chain' = 1 .. Top'
    BY ChainTypeNext
  <2>2. inTurn' \in 0 .. Top' + 1
    BY DEF Typed
  <2> QED
    BY <2>1, <2>2, PlacesType DEF ChainGrows
<1>2. InRange => RangeEnd \in from .. target /\ target + headLag <= Top /\ from \in 1 .. target
  BY RangeIsBuried
<1>3. Below(inTurn - 1)' \subseteq Below(inTurn - 1)
  BY <1>1 DEF Below
<1>4. RowsInTurn'
  <2>1. Fits(history, tables, dispatched, Below(inTurn - 1)')
    <3>1. history \in Histories /\ Fits(history, tables, dispatched, Below(inTurn - 1))
      BY DEF Turn, RowsInTurn, Typed
    <3> QED
      BY <1>3, <3>1, FitsKept
  <2> QED
    BY <1>3, <2>1 DEF Turn, RowsInTurn
<1>5. QueueInOrder'
  <2> SUFFICES ASSUME wpc = "core", NEW i \in todo, NEW h \in DOMAIN chain', h < from, h < inTurn'
               PROVE  chain'[h].ev < i
    BY DEF QueueInOrder
  <2>1. h \in 1 .. Top /\ h < inTurn
    BY <1>1
  <2> QED
    BY <1>1, <2>1 DEF Turn, QueueInOrder
<1>6. RangeEnd' = RangeEnd
  BY DEF RangeEnd
<1>7. ASSUME InRange, Counts'
      PROVE  /\ Counts /\ ChunkEvents' = ChunkEvents /\ Handled' = Handled
             /\ Below(RangeEnd)' = Below(RangeEnd)
  <2>1. from <= inTurn' /\ missed' \cap (from .. RangeEnd) = {}
    BY <1>6, <1>7 DEF Counts
  <2>2. Counts
    BY <1>1, <2>1 DEF Counts
  <2>3. \A h \in from .. RangeEnd : chain'[h] = chain[h]
    <3>1. \A h \in from .. RangeEnd : h \in 1 .. Top /\ h + headLag <= Top
      <4>1. target \in Nat
        BY DEF Typed
      <4> HIDE DEF IInv
      <4> QED
        BY ONLY <4>1, <1>1, <1>2, <1>7 DEF headLag
    <3> QED
      BY <2>1, <3>1 DEF ChainGrows
  <2>4. \A h \in 1 .. from - 1 : chain'[h] = chain[h]
    <3>1. \A h \in 1 .. from - 1 : h \in 1 .. Top /\ h < inTurn'
      BY <1>1, <1>2, <1>7, <2>1 DEF headLag, Typed
    <3> QED
      BY <3>1
  <2>5. ChunkEvents' = ChunkEvents
    BY <1>6, <2>3 DEF ChunkEvents
  <2>6. Below(from - 1)' = Below(from - 1)
    BY <2>4 DEF Below
  <2>7. Below(RangeEnd)' = Below(RangeEnd)
    <3>1. \A h \in 1 .. RangeEnd : h \in from .. RangeEnd \/ h \in 1 .. from - 1
      BY <1>1, <1>2, <1>7
    <3>2. \A h \in 1 .. RangeEnd : chain'[h] = chain[h]
      BY <2>3, <2>4, <3>1
    <3> QED
      BY <1>6, <3>2 DEF Below
  <2> QED
    BY <2>2, <2>5, <2>6, <2>7 DEF Handled, IsMove
<1>8. CoreInTurn'
  BY <1>7 DEF Turn, CoreInTurn, InRange, IsMove
<1>9. MovesInTurn'
  BY <1>7 DEF Turn, MovesInTurn, InRange, IsMove
<1> QED
  BY <1>4, <1>5, <1>8, <1>9 DEF Turn

LEMMA TurnMine ==
    ASSUME IInv, Turn, Mine
    PROVE  Turn'
<1>1. ChainGrows /\ Typed'
  BY MineGrows DEF IInv
<1>2. /\ InOrder(chain)' /\ inTurn' = inTurn
      /\ UNCHANGED <<history, localVars, tables, dispatched>>
  BY DEF Mine
<1>3. \A h \in 1 .. Top : chain'[h] = chain[h]
  BY DEF Mine, IInv, Typed, Top
<1>4. inTurn' <= inTurn
  BY <1>2 DEF IInv, Typed
<1> QED
  BY <1>1, <1>2, <1>3, <1>4, TurnOfChain

LEMMA TurnReorg ==
    ASSUME IInv, Turn, NEW depth \in ReorgDepths, Reorg(depth)
    PROVE  Turn'
<1>1. ChainGrows /\ Typed'
  BY ReorgGrows DEF IInv
<1>2. /\ InOrder(chain)' /\ LowerTurn(Top - depth + 1) /\ depth <= Top
      /\ UNCHANGED <<history, localVars, tables, dispatched>>
  BY DEF Reorg
<1>3. Top \in Nat /\ depth \in Nat \ {0} /\ Top - depth + 1 \in Nat
  <2>1. depth \in Nat \ {0}
    BY ONLY depth \in ReorgDepths, WatcherAssumption
  <2>2. Top \in Nat
    BY ChainType DEF IInv
  <2> QED
    BY ONLY <1>2, <2>1, <2>2
<1>4. inTurn' \in Nat /\ inTurn' <= inTurn /\ inTurn' <= Top - depth + 1
  BY <1>2, <1>3, LowerTurnType DEF IInv
<1>5. \A h \in 1 .. Top - depth : chain'[h] = chain[h]
  BY ReorgGrows DEF IInv
<1>6. \A h \in 1 .. Top : h < inTurn' => h \in 1 .. Top - depth
  BY <1>3, <1>4
<1> QED
  BY <1>1, <1>2, <1>4, <1>5, <1>6, TurnOfChain

\* A dispatch keeps the rows fit with those events it comes after, or is none of theirs.
LEMMA RowsHandled ==
    ASSUME IInv, Shaped, Turn, NEW i \in 1 .. Len(history), Handle(i), UNCHANGED history
    PROVE  /\ dispatched' = dispatched \cup {i}
           /\ SetsFit(history, tables, dispatched)'
           /\ \A F :
                 /\ Fits(history, tables, dispatched, F)
                 /\ F \cap Kind(history, RowTypes) \subseteq dispatched
                 /\ history[i].type \notin RowTypes \/ \A k \in F : k <= i
                 => Fits(history, tables', dispatched', F)
<1>1. /\ history \in Histories /\ dispatched \in SUBSET (1 .. Len(history)) /\ tables \in Tables
      /\ history[i] \in Events
  BY HistoryType DEF IInv, Typed, Shaped, RowsTyped
<1>2. PICK u : u = Dispatch(tables, history[i])
  OBVIOUS
<1>3. tables' = u /\ dispatched' = dispatched \cup {i}
  BY <1>2 DEF Handle
<1>4. Effect(tables, history[i], u)
  BY <1>1, <1>2, DispatchEffect
<1>5. SetsFit(history, tables, dispatched)
  BY DEF Turn, RowsInTurn
<1>6. SetsFit(history, u, dispatched \cup {i})
  BY <1>1, <1>4, <1>5, BidsWritten
<1>7. ASSUME NEW F, Fits(history, tables, dispatched, F),
             F \cap Kind(history, RowTypes) \subseteq dispatched
      PROVE  /\ history[i].type \notin RowTypes => Fits(history, u, dispatched \cup {i}, F)
             /\ (\A k \in F : k <= i) => Fits(history, u, dispatched \cup {i}, F)
  <2>1. ASSUME history[i].type \notin RowTypes
        PROVE  Fits(history, u, dispatched \cup {i}, F)
    <3>1. u.auction = tables.auction /\ u.offer.pending = tables.offer.pending
      BY <1>4, <2>1 DEF Effect, RowTypes
    <3>2. i \notin Kind(history, RowTypes)
      BY <2>1 DEF Kind
    <3> QED
      BY <1>1, <1>7, <3>1, <3>2, FitsKept
  <2>2. ASSUME \A k \in F : k <= i
        PROVE  Fits(history, u, dispatched \cup {i}, F)
    <3> DEFINE G == F \cap Kind(history, RowTypes)
    <3>1. Fits(history, tables, dispatched, G)
      BY <1>1, <1>7, FitsKept
    <3>2. Fits(history, u, dispatched \cup {i}, G \cup {i})
      BY <1>1, <1>2, <1>5, <1>7, <2>2, <3>1, Written
    <3> QED
      BY <1>1, <3>2, FitsKept
  <2> QED
    BY <2>1, <2>2
<1> QED
  BY <1>3, <1>6, <1>7

\* The same, when it also is one of them.
LEMMA RowsHandledNext ==
    ASSUME IInv, Shaped, Turn, NEW i \in 1 .. Len(history), Handle(i), UNCHANGED history,
           NEW F \in SUBSET dispatched, Fits(history, tables, dispatched, F), \A k \in F : k <= i,
           NEW G, G \subseteq F \cup {i}
    PROVE  Fits(history, tables', dispatched', G)
<1>1. /\ history \in Histories /\ dispatched \in SUBSET (1 .. Len(history)) /\ tables \in Tables
      /\ SetsFit(history, tables, dispatched)
  BY DEF IInv, Typed, Shaped, RowsTyped, Turn, RowsInTurn
<1>2. tables' = Dispatch(tables, history[i]) /\ dispatched' = dispatched \cup {i}
  BY DEF Handle
<1>3. Fits(history, Dispatch(tables, history[i]), dispatched \cup {i}, F \cup {i})
  BY <1>1, Written
<1> QED
  BY <1>1, <1>2, <1>3, FitsKept

\* What the watcher has handled in the first phase of a range is dispatched.
LEMMA HandledIsDispatched ==
    ASSUME IInv, Turn, wpc = "core", ~failed, Counts
    PROVE  Handled \subseteq dispatched
<1>1. from \in 1 .. target /\ target \in Nat /\ inTurn \in Nat /\ from <= inTurn
  BY RangeIsBuried, PlacesType DEF IInv, InRange, Counts
<1>2. Below(from - 1) \subseteq Below(inTurn - 1)
  BY <1>1 DEF Below
<1>3. ASSUME NEW ev \in ChunkEvents, ~IsMove(ev), ev \notin todo
      PROVE  ev \in dispatched
  <2>1. PICK h \in from .. RangeEnd : ev \in EventsAt(h)
    BY DEF ChunkEvents, EventsAt
  <2>2. h \notin missed
    BY DEF Counts
  <2>3. QueuedButMoves(h)
    BY DEF IInv, Walk
  <2> QED
    BY <1>3, <2>1, <2>2, <2>3 DEF QueuedButMoves
<1> QED
  BY <1>2, <1>3 DEF Handled, Turn, RowsInTurn

\* And so is all of it at the end of the second.
LEMMA RangeIsDispatched ==
    ASSUME IInv, Turn, wpc = "moves", Counts
    PROVE  Below(RangeEnd) \subseteq dispatched \cup todo
<1>1. /\ from \in 1 .. target /\ target \in Nat /\ inTurn \in Nat /\ from <= inTurn
      /\ RangeEnd \in from .. target
  BY RangeIsBuried, PlacesType DEF IInv, InRange, Counts
<1>2. Below(from - 1) \subseteq dispatched
  BY <1>1 DEF Below, Turn, RowsInTurn
<1>3. ASSUME NEW ev \in Below(RangeEnd)
      PROVE  ev \in dispatched \cup todo
  <2>1. PICK h \in 1 .. RangeEnd : ev \in EventsAt(h)
    BY DEF Below, EventsAt
  <2>2. CASE h < from
    BY <1>1, <1>2, <2>1, <2>2 DEF Below, EventsAt
  <2>3. CASE h >= from
    <3>1. h \in from .. RangeEnd
      BY <1>1, <2>3
    <3>2. h \notin missed /\ Queued(h)
      BY <3>1 DEF Counts, IInv, Walk
    <3> QED
      BY <2>1, <3>2 DEF Queued
  <2> QED
    BY <1>1, <2>2, <2>3
<1> QED
  BY <1>3

LEMMA MovesHaveNoRow ==
    ASSUME NEW i, i \in 1 .. Len(history), IsMove(i)
    PROVE  i \notin Kind(history, RowTypes) /\ history[i].type \notin RowTypes
  BY DEF IsMove, Kind, RowTypes, AuctionEvents, OfferEvents

LEMMA RowsInTurnHandled ==
    ASSUME IInv, Shaped, Turn, NEW i \in 1 .. Len(history), Handle(i),
           UNCHANGED <<history, chain>>, inTurn' \in Nat, inTurn' <= inTurn,
           history[i].type \notin RowTypes \/ \A k \in Below(inTurn' - 1) : k <= i
    PROVE  RowsInTurn'
<1>1. inTurn \in Nat /\ history \in Histories
  BY PlacesType DEF IInv, Typed
<1>2. Below(inTurn' - 1) \subseteq Below(inTurn - 1)
  <2>1. \A m, n \in Nat : m <= n => 1 .. m - 1 \subseteq 1 .. n - 1
    OBVIOUS
  <2>2. 1 .. inTurn' - 1 \subseteq 1 .. inTurn - 1
    BY ONLY <1>1, <2>1, inTurn' \in Nat, inTurn' <= inTurn
  <2> QED
    BY <2>2 DEF Below
<1>3. /\ Below(inTurn - 1) \subseteq dispatched
      /\ Fits(history, tables, dispatched, Below(inTurn - 1)) /\ InOrder(chain)
  BY DEF Turn, RowsInTurn
<1>4. Fits(history, tables, dispatched, Below(inTurn' - 1))
  BY <1>1, <1>2, <1>3, FitsKept
<1>5. /\ dispatched' = dispatched \cup {i} /\ SetsFit(history, tables, dispatched)'
      /\ Fits(history, tables', dispatched', Below(inTurn' - 1))
  BY <1>2, <1>3, <1>4, RowsHandled
<1>6. Below(inTurn - 1)' = Below(inTurn' - 1) /\ InOrder(chain)'
  BY <1>3 DEF Below, InOrder
<1>7. Below(inTurn' - 1) \subseteq dispatched'
  BY <1>2, <1>3, <1>5
<1> QED
  BY <1>5, <1>6, <1>7 DEF RowsInTurn

\* The log dispatched next comes after those of the range that are done, and after
\* those of the blocks below it handled in turn.
LEMMA TurnDispatchCore ==
    ASSUME IInv, Shaped, Turn, wpc = "core", todo # {}, Handle(NextLog), LowerTurn(from),
           todo' = todo \ {NextLog},
           UNCHANGED <<history, chain, wpc, target, from, failed, missed>>
    PROVE  Turn'
<1>1. /\ NextLog \in todo /\ NextLog \in 1 .. Len(history) /\ todo \subseteq Nat
      /\ \A i \in todo : NextLog <= i
  <2>1. NextLog \in todo /\ \A i \in todo : NextLog <= i
    BY NextLogIsQueued DEF IInv
  <2>2. todo \subseteq 1 .. Len(history)
    BY DEF IInv, Typed
  <2> QED
    BY <2>1, <2>2
<1>2. inTurn' \in Nat /\ inTurn' <= inTurn /\ inTurn' <= from /\ from \in Nat /\ inTurn \in Nat
  BY LowerTurnType, PlacesType DEF IInv
<1>3. from \in 1 .. target /\ target + headLag <= Top /\ target \in Nat /\ Top \in Nat
  BY RangeIsBuried, PlacesType DEF IInv, InRange
<1>4. ASSUME NEW n \in Nat, n <= from, n <= inTurn, NEW k \in Below(n - 1)
      PROVE  k < NextLog
  <2>1. PICK h \in 1 .. n - 1 : k = chain[h].ev
    BY DEF Below
  <2>2. h \in DOMAIN chain /\ h < from /\ h < inTurn
    <3>1. h \in 1 .. Top
      BY ONLY <1>2, <1>3, <1>4, <2>1 DEF headLag
    <3>2. DOMAIN chain = 1 .. Top
      BY PlacesType DEF IInv
    <3> QED
      BY ONLY <1>2, <1>4, <2>1, <3>1, <3>2
  <2> QED
    BY <1>1, <2>1, <2>2 DEF Turn, QueueInOrder
<1>5. \A k \in Below(inTurn' - 1) : k <= NextLog
  <2>1. Below(inTurn' - 1) \subseteq Nat
    BY <1>2, <1>3, ChainType, BelowType DEF IInv, headLag
  <2>2. \A k \in Below(inTurn' - 1) : k < NextLog
    <3>1. PICK n \in Nat : n = inTurn'
      BY <1>2
    <3>2. \A k \in Below(n - 1) : k < NextLog
      BY <1>2, <1>4, <3>1
    <3> QED
      BY <3>1, <3>2
  <2>3. NextLog \in Nat
    BY <1>1
  <2> QED
    BY <2>1, <2>2, <2>3
<1>6. RowsInTurn'
  BY <1>1, <1>2, <1>5, RowsInTurnHandled
<1>7. QueueInOrder'
  <2> SUFFICES ASSUME NEW i \in todo', NEW h \in DOMAIN chain, h < from, h < inTurn'
               PROVE  chain[h].ev < i
    BY DEF QueueInOrder
  <2>1. h < inTurn
    BY <1>2, ChainType DEF IInv
  <2> QED
    BY <2>1 DEF Turn, QueueInOrder
<1>8. RangeEnd' = RangeEnd /\ ChunkEvents' = ChunkEvents /\ Below(from - 1)' = Below(from - 1)
  BY DEF RangeEnd, ChunkEvents, Below
<1>9. CoreInTurn'
  <2> SUFFICES ASSUME ~failed, Counts'
               PROVE  /\ \A i \in todo', k \in ChunkEvents : k \notin todo' /\ ~IsMove(k) => k < i
                      /\ Fits(history, tables', dispatched', Handled')
    BY <1>8 DEF CoreInTurn, IsMove
  <2>1. Counts
    BY <1>2, <1>8 DEF Counts
  <2>2. /\ \A i \in todo, k \in ChunkEvents : k \notin todo /\ ~IsMove(k) => k < i
        /\ Fits(history, tables, dispatched, Handled)
    BY <2>1 DEF Turn, CoreInTurn
  <2>3. \A i \in todo', k \in ChunkEvents : k \notin todo' /\ ~IsMove(k) => k < i
    BY <1>1, <2>2
  <2>4. \A k \in Handled : k < NextLog
    <3>1. \A k \in Below(from - 1) : k < NextLog
      BY <1>2, <1>4, <2>1 DEF Counts
    <3> QED
      BY <1>1, <2>2, <3>1 DEF Handled
  <2>5. Handled \in SUBSET dispatched /\ Handled \subseteq Nat
    <3>1. dispatched \subseteq 1 .. Len(history)
      BY DEF IInv, Typed
    <3>2. Handled \subseteq dispatched
      BY <2>1, HandledIsDispatched
    <3> QED
      BY <3>1, <3>2
  <2>6. Handled' \subseteq Handled \cup {NextLog}
    BY <1>8 DEF Handled, IsMove
  <2>7. \A k \in Handled : k <= NextLog
    BY <1>1, <2>4, <2>5
  <2> QED
    BY <1>1, <2>2, <2>3, <2>5, <2>6, <2>7, RowsHandledNext
<1> QED
  BY <1>6, <1>7, <1>9 DEF Turn, MovesInTurn

LEMMA TurnFilterCore ==
    ASSUME IInv, Turn, EndpointsKeepUp, wpc = "filter", wpc' = "core",
           NEW lag \in EndpointLags, todo' = FilterLogs(lag, FALSE),
           UNCHANGED <<history, chain, tables, dispatched, inTurn, target, from, failed, missed>>
    PROVE  Turn'
<1>1. /\ from \in 1 .. target /\ target + headLag <= Top /\ target \in Nat /\ Top \in Nat
      /\ RangeEnd \in from .. target /\ DOMAIN chain = 1 .. Top /\ inTurn \in Nat
  BY RangeIsBuried, PlacesType DEF IInv, InRange
<1>2. RangeEnd' = RangeEnd /\ ChunkEvents' = ChunkEvents /\ Below(from - 1)' = Below(from - 1)
  BY DEF RangeEnd, ChunkEvents, Below
<1>3. \A ev \in ChunkEvents : ~IsMove(ev) => ev \in todo'
  <2>1. FALSE \in BOOLEAN /\ \A ev : IsMove(ev) \in BOOLEAN
    BY DEF IsMove
  <2>2. \A h \in from .. RangeEnd :
           \A ev \in EventsAt(h) : IsMove(ev) = FALSE => ev \in FilterLogs(lag, FALSE)
    BY <2>1, FilterLogsComplete DEF IInv, InRange
  <2>3. \A ev \in ChunkEvents : \E h \in from .. RangeEnd : ev \in EventsAt(h)
    BY DEF ChunkEvents, EventsAt
  <2> QED
    BY <2>1, <2>2, <2>3
<1>4. RowsInTurn'
  BY DEF Turn, RowsInTurn, InOrder, Below
<1>5. QueueInOrder'
  <2> SUFFICES ASSUME NEW i \in todo', NEW g \in DOMAIN chain, g < from
               PROVE  chain[g].ev < i
    BY DEF QueueInOrder
  <2>1. PICK h \in from .. RangeEnd : i = chain[h].ev /\ i # None
    BY DEF FilterLogs
  <2>2. h \in DOMAIN chain /\ g < h
    BY <1>1, <2>1 DEF headLag
  <2> QED
    BY <2>1, <2>2, BlockOrder DEF IInv, Turn, RowsInTurn
<1>6. CoreInTurn'
  <2> SUFFICES ASSUME Counts'
               PROVE  /\ \A i \in todo', k \in ChunkEvents : k \notin todo' /\ ~IsMove(k) => k < i
                      /\ Fits(history, tables, dispatched, Handled')
    BY <1>2 DEF CoreInTurn, IsMove
  <2>1. Handled' = Below(from - 1)
    BY <1>2, <1>3 DEF Handled, IsMove
  <2>2. Below(from - 1) \subseteq Below(inTurn - 1)
    BY <1>1 DEF Counts, Below
  <2>3. history \in Histories /\ Fits(history, tables, dispatched, Below(inTurn - 1))
    BY DEF IInv, Typed, Turn, RowsInTurn
  <2>4. Fits(history, tables, dispatched, Below(from - 1))
    BY <2>2, <2>3, FitsKept
  <2> QED
    BY <1>3, <2>1, <2>4
<1> QED
  BY <1>4, <1>5, <1>6 DEF Turn, MovesInTurn

LEMMA TurnFilterMoves ==
    ASSUME IInv, Turn, EndpointsKeepUp, wpc = "core", todo = {}, ~failed, wpc' = "moves",
           NEW lag \in EndpointLags, todo' = FilterLogs(lag, TRUE),
           UNCHANGED <<history, chain, tables, dispatched, inTurn, target, from, failed, missed>>
    PROVE  Turn'
<1>1. /\ from \in 1 .. target /\ target + headLag <= Top /\ target \in Nat /\ Top \in Nat
      /\ RangeEnd \in from .. target
  BY RangeIsBuried, PlacesType DEF IInv, InRange
<1>2. RangeEnd' = RangeEnd /\ Below(RangeEnd)' = Below(RangeEnd)
  BY DEF RangeEnd, Below
<1>3. RowsInTurn'
  BY DEF Turn, RowsInTurn, InOrder, Below
<1>4. \A i \in todo' : IsMove(i)'
  BY DEF FilterLogs, IsMove
<1>5. ASSUME Counts'
      PROVE  Fits(history, tables, dispatched, Below(RangeEnd))
  <2>1. Counts
    BY <1>2, <1>5 DEF Counts
  <2>2. history \in Histories /\ Fits(history, tables, dispatched, Handled)
    BY <2>1 DEF IInv, Typed, Turn, CoreInTurn
  <2>3. ASSUME NEW ev \in Below(RangeEnd) \cap Kind(history, RowTypes)
        PROVE  ev \in Handled
    <3>1. PICK h \in 1 .. RangeEnd : ev = chain[h].ev /\ ev # None
      BY <2>3 DEF Below
    <3>2. ~IsMove(ev)
      BY <2>3, MovesHaveNoRow DEF Kind
    <3>3. CASE h < from
      BY <1>1, <3>1, <3>3 DEF Handled, Below
    <3>4. CASE h >= from
      BY <1>1, <3>1, <3>2, <3>4 DEF Handled, ChunkEvents
    <3> QED
      BY <1>1, <3>3, <3>4
  <2> QED
    BY <2>2, <2>3, FitsKept
<1>6. MovesInTurn'
  BY <1>2, <1>4, <1>5 DEF MovesInTurn
<1> QED
  BY <1>3, <1>6 DEF Turn, QueueInOrder, CoreInTurn

LEMMA RangeRowsDispatched ==
    ASSUME IInv, Turn, wpc = "moves", Counts
    PROVE  Below(RangeEnd) \cap Kind(history, RowTypes) \subseteq dispatched
<1>1. \A i \in todo : i \in 1 .. Len(history) /\ IsMove(i)
  BY DEF IInv, Typed, Turn, MovesInTurn
<1> QED
  BY <1>1, RangeIsDispatched, MovesHaveNoRow

LEMMA TurnDispatchMove ==
    ASSUME IInv, Shaped, Turn, wpc = "moves", todo # {}, Handle(NextLog),
           todo' = todo \ {NextLog},
           UNCHANGED <<history, chain, wpc, target, from, failed, missed, inTurn>>
    PROVE  Turn'
<1>1. NextLog \in todo /\ NextLog \in 1 .. Len(history)
  BY NextLogIsQueued DEF IInv, Typed
<1>2. IsMove(NextLog) /\ history[NextLog].type \notin RowTypes
  <2>1. IsMove(NextLog)
    BY <1>1 DEF Turn, MovesInTurn
  <2> QED
    BY <1>1, <2>1, MovesHaveNoRow
<1>3. RowsInTurn'
  <2>1. inTurn' \in Nat /\ inTurn' <= inTurn
    BY PlacesType DEF IInv
  <2> QED
    BY <1>1, <1>2, <2>1, RowsInTurnHandled
<1>4. RangeEnd' = RangeEnd /\ Counts' = Counts /\ Below(RangeEnd)' = Below(RangeEnd)
  BY DEF RangeEnd, Counts, Below
<1>5. ASSUME Counts
      PROVE  Fits(history, tables', dispatched', Below(RangeEnd))
  <2>1. Fits(history, tables, dispatched, Below(RangeEnd))
    BY <1>5 DEF Turn, MovesInTurn
  <2>2. Below(RangeEnd) \cap Kind(history, RowTypes) \subseteq dispatched
    BY <1>5, RangeRowsDispatched
  <2> QED
    BY <1>1, <1>2, <2>1, <2>2, RowsHandled
<1>6. MovesInTurn'
  BY <1>4, <1>5 DEF Turn, MovesInTurn, IsMove
<1> QED
  BY <1>3, <1>6 DEF Turn, QueueInOrder, CoreInTurn

\* At the end of a range that goes on from blocks handled in turn, its blocks are too.
LEMMA TurnCheckpoint ==
    ASSUME IInv, Turn, SetCollectionCheckpoints
    PROVE  Turn'
<1>1. /\ wpc = "moves" /\ todo = {} /\ wpc' = "cursor"
      /\ UNCHANGED <<history, chain, tables, dispatched>>
  BY DEF SetCollectionCheckpoints, chainVars
<1>2. CASE inTurn' = inTurn
  BY <1>1, <1>2, TurnRests
<1>3. CASE Counts /\ inTurn' = RangeEnd + 1
  <2>1. RangeEnd \in Nat
    BY <1>1, RangeIsBuried DEF IInv, InRange, Typed
  <2>2. Below(RangeEnd) \subseteq dispatched
    BY <1>1, <1>3, RangeIsDispatched
  <2>3. Fits(history, tables, dispatched, Below(RangeEnd))
    BY <1>1, <1>3 DEF Turn, MovesInTurn
  <2>4. Below(inTurn - 1)' = Below(RangeEnd)
    <3>1. inTurn' - 1 = RangeEnd
      BY <1>3, <2>1
    <3> QED
      BY <1>1, <3>1 DEF Below
  <2>5. RowsInTurn'
    BY <1>1, <2>2, <2>3, <2>4 DEF Turn, RowsInTurn, InOrder
  <2> QED
    BY <1>1, <2>5 DEF Turn, QueueInOrder, CoreInTurn, MovesInTurn
<1> QED
  BY <1>2, <1>3 DEF SetCollectionCheckpoints, Counts

\* An observer's dispatch: of an event ahead of all blocks, of one ahead of the range,
\* or of one below inTurn, which comes down to it.
LEMMA TurnObserve ==
    ASSUME IInv, Shaped, Turn, NEW i \in 1 .. Len(history), Handle(i), OutOfTurn(i),
           UNCHANGED <<history, chain, localVars, missed>>
    PROVE  Turn'
<1> USE DEF localVars
<1>1. /\ inTurn' \in Nat /\ inTurn' <= inTurn /\ inTurn \in Nat /\ inTurn <= Top + 1
      /\ Top \in Nat
      /\ i \in Mined => /\ inTurn' <= HeightOf(i)
                        /\ HeightOf(i) \in from .. RangeEnd => inTurn' < from
  <2>0. Top \in Nat /\ from \in Nat /\ inTurn \in 0 .. Top + 1
    BY PlacesType DEF IInv
  <2>1. CASE i \notin Mined
    BY <2>0, <2>1 DEF OutOfTurn
  <2>2. CASE i \in Mined
    <3>1. PICK h \in Nat : /\ LowerTurn(h) /\ h <= HeightOf(i)
                           /\ HeightOf(i) \in from .. RangeEnd => h < from
      BY <2>2, OutOfTurnLowers DEF IInv
    <3>2. inTurn' \in 0 .. Top + 1 /\ inTurn' <= inTurn /\ inTurn' <= h
      BY <3>1, LowerTurnType DEF IInv
    <3>3. HeightOf(i) \in Nat
      BY <2>2, HeightType, ChainType DEF IInv
    <3> QED
      BY ONLY <2>0, <2>2, <3>1, <3>2, <3>3
  <2> QED
    BY <2>1, <2>2
<1>2. ASSUME NEW n \in Nat, n <= Top, i \in Mined => n < HeightOf(i)
      PROVE  \A k \in Below(n) : k <= i
  <2> SUFFICES ASSUME NEW k \in Below(n)
               PROVE  k <= i
    OBVIOUS
  <2>1. Typed /\ InOrder(chain)
    BY DEF IInv, Turn, RowsInTurn
  <2>2. k \in Mined /\ k \in Nat
    BY <1>2, <2>1, BelowType
  <2>3. CASE i \notin Mined
    BY <2>1, <2>2, <2>3, UnminedIsLater
  <2>4. CASE i \in Mined
    <3>1. PICK h \in 1 .. n : k = chain[h].ev
      BY DEF Below
    <3>2. h \in DOMAIN chain /\ h < HeightOf(i)
      BY <1>1, <1>2, <2>1, <2>4, HeightType, ChainType
    <3>3. HeightOf(i) \in DOMAIN chain /\ chain[HeightOf(i)].ev = i /\ i # None
      BY <2>4, HeightType DEF None
    <3> QED
      BY <2>1, <2>2, <3>1, <3>2, <3>3, BlockOrder
  <2> QED
    BY <2>3, <2>4
<1>3. RowsInTurn'
  <2>1. \A k \in Below(inTurn' - 1) : k <= i
    <3>1. CASE inTurn' = 0
      BY <3>1 DEF Below
    <3>2. CASE inTurn' # 0
      <4>1. inTurn' - 1 \in Nat /\ inTurn' - 1 <= Top
        <5>1. \A m, n, top \in Nat : m # 0 /\ m <= n /\ n <= top + 1 => m - 1 \in Nat /\ m - 1 <= top
          OBVIOUS
        <5> QED
          BY ONLY <5>1, <1>1, <3>2
      <4>2. i \in Mined => inTurn' - 1 < HeightOf(i)
        BY <1>1, HeightType, ChainType DEF IInv
      <4>3. PICK n \in Nat : n = inTurn' - 1
        BY <4>1
      <4> QED
        BY <1>2, <4>1, <4>2, <4>3
    <3> QED
      BY <3>1, <3>2
  <2> QED
    BY <1>1, <2>1, RowsInTurnHandled
<1>4. QueueInOrder'
  <2> SUFFICES ASSUME wpc = "core", NEW j \in todo, NEW h \in DOMAIN chain, h < from, h < inTurn'
               PROVE  chain[h].ev < j
    BY DEF QueueInOrder
  <2>1. h < inTurn
    BY <1>1, ChainType DEF IInv
  <2> QED
    BY <2>1 DEF Turn, QueueInOrder
<1>5. /\ RangeEnd' = RangeEnd /\ ChunkEvents' = ChunkEvents /\ Handled' = Handled
      /\ Below(RangeEnd)' = Below(RangeEnd)
  BY DEF RangeEnd, ChunkEvents, Handled, Below, IsMove
<1>6. ASSUME InRange, Counts'
      PROVE  Counts /\ \A k \in Below(RangeEnd) : k <= i
  <2>1. /\ RangeEnd \in from .. target /\ target + headLag <= Top /\ from \in 1 .. target
        /\ target \in Nat
    BY <1>6, RangeIsBuried DEF IInv, Typed
  <2>2. from <= inTurn' /\ missed \cap (from .. RangeEnd) = {}
    BY <1>5, <1>6 DEF Counts
  <2>3. Counts
    BY <1>1, <2>1, <2>2 DEF Counts
  <2>4. i \in Mined => RangeEnd < HeightOf(i)
    <3> SUFFICES ASSUME i \in Mined
                 PROVE  RangeEnd < HeightOf(i)
      OBVIOUS
    <3>1. HeightOf(i) \in Nat
      BY HeightType, ChainType DEF IInv
    <3> QED
      BY <1>1, <2>1, <2>2, <3>1
  <2>5. PICK n \in Nat : n = RangeEnd
    BY <2>1
  <2>6. n <= Top
    BY <1>1, <2>1, <2>5 DEF headLag
  <2> QED
    BY <1>2, <2>3, <2>4, <2>5, <2>6
<1>7. CoreInTurn'
  <2> SUFFICES ASSUME wpc = "core", ~failed, Counts'
               PROVE  Fits(history, tables', dispatched', Handled)
    BY <1>5, <1>6 DEF Turn, CoreInTurn, InRange, IsMove
  <2>1. Counts /\ \A k \in Below(RangeEnd) : k <= i
    BY <1>6 DEF InRange
  <2>2. Handled \subseteq Below(RangeEnd)
    <3>1. from \in 1 .. target /\ RangeEnd \in from .. target /\ target \in Nat
      BY RangeIsBuried DEF IInv, Typed, InRange
    <3> QED
      BY <3>1 DEF Handled, ChunkEvents, Below
  <2>3. Fits(history, tables, dispatched, Handled)
    BY <2>1 DEF Turn, CoreInTurn
  <2>4. Handled \subseteq dispatched
    BY <2>1, HandledIsDispatched
  <2> QED
    BY <2>1, <2>2, <2>3, <2>4, RowsHandled
<1>8. MovesInTurn'
  <2>1. ASSUME wpc = "moves", Counts'
        PROVE  Fits(history, tables', dispatched', Below(RangeEnd))
    <3>1. Counts /\ \A k \in Below(RangeEnd) : k <= i
      BY <1>6, <2>1 DEF InRange
    <3>2. Fits(history, tables, dispatched, Below(RangeEnd))
      BY <2>1, <3>1 DEF Turn, MovesInTurn
    <3>3. Below(RangeEnd) \cap Kind(history, RowTypes) \subseteq dispatched
      BY <2>1, <3>1, RangeRowsDispatched
    <3> QED
      BY <3>1, <3>2, <3>3, RowsHandled
  <2> QED
    BY <1>5, <2>1 DEF Turn, MovesInTurn, IsMove
<1> QED
  BY <1>3, <1>4, <1>7, <1>8 DEF Turn

LEMMA TurnReindex ==
    ASSUME IInv, Shaped, Turn, NEW i \in 1 .. Len(history), Handle(i),
           history[i].type = "KeeperSet",
           UNCHANGED <<history, chain, localVars, missed, inTurn>>
    PROVE  Turn'
<1> USE DEF localVars
<1>1. history[i].type \notin RowTypes
  BY DEF RowTypes, AuctionEvents, OfferEvents
<1>2. RowsInTurn'
  <2>1. inTurn' \in Nat /\ inTurn' <= inTurn
    BY PlacesType DEF IInv
  <2> QED
    BY <1>1, <2>1, RowsInTurnHandled
<1>3. /\ RangeEnd' = RangeEnd /\ ChunkEvents' = ChunkEvents /\ Handled' = Handled
      /\ Counts' = Counts /\ Below(RangeEnd)' = Below(RangeEnd)
  BY DEF RangeEnd, ChunkEvents, Handled, Counts, Below, IsMove
<1>4. QueueInOrder'
  BY DEF Turn, QueueInOrder
<1>5. CoreInTurn'
  <2> SUFFICES ASSUME wpc = "core", ~failed, Counts
               PROVE  Fits(history, tables', dispatched', Handled)
    BY <1>3 DEF Turn, CoreInTurn, IsMove
  <2>1. Handled \subseteq dispatched
    BY HandledIsDispatched
  <2>2. Fits(history, tables, dispatched, Handled)
    BY DEF Turn, CoreInTurn
  <2> QED
    BY <1>1, <2>1, <2>2, RowsHandled
<1>6. MovesInTurn'
  <2>1. ASSUME wpc = "moves", Counts
        PROVE  Fits(history, tables', dispatched', Below(RangeEnd))
    BY <1>1, <2>1, RangeRowsDispatched, RowsHandled DEF Turn, MovesInTurn
  <2> QED
    BY <1>3, <2>1 DEF Turn, MovesInTurn, IsMove
<1> QED
  BY <1>2, <1>4, <1>5, <1>6 DEF Turn

LEMMA TurnOfWatcher ==
    ASSUME IInv, Shaped, Turn, WatcherStep, EndpointsKeepUp
    PROVE  Turn'
<1>1. CASE Start \/ Rewind \/ StartRange \/ SetIndexedBlock \/ FinishRange
  <2>1. UNCHANGED <<history, chain, tables, dispatched, inTurn>>
    BY <1>1 DEF Start, Rewind, StartRange, SetIndexedBlock, FinishRange, chainVars
  <2>2. wpc' \notin {"core", "moves"}
    BY <1>1 DEF Start, Rewind, StartRange, SetIndexedBlock, FinishRange, Stop
  <2> QED
    BY <2>1, <2>2, TurnRests
<1>2. ASSUME Stop, UNCHANGED <<history, chain, tables, dispatched, inTurn>>
      PROVE  Turn'
  BY <1>2, TurnRests DEF Stop
<1>3. CASE FilterCore
  <2>1. UNCHANGED <<history, chain, tables, dispatched, inTurn, missed>>
    BY <1>3 DEF FilterCore, chainVars
  <2>2. \/ Stop
        \/ /\ wpc = "filter" /\ wpc' = "core" /\ UNCHANGED <<target, from, failed>>
           /\ \E lag \in EndpointLags : todo' = FilterLogs(lag, FALSE)
    BY <1>3 DEF FilterCore
  <2> QED
    BY <1>2, <2>1, <2>2, TurnFilterCore
<1>4. CASE DispatchCore
  <2>1. /\ wpc = "core" /\ todo # {} /\ UNCHANGED <<history, chain, missed>>
        /\ \/ /\ Handle(NextLog) /\ LowerTurn(from) /\ todo' = todo \ {NextLog}
              /\ UNCHANGED <<wpc, target, from, failed>>
           \/ /\ todo' = todo \ {NextLog} /\ failed' = TRUE
              /\ UNCHANGED <<wpc, target, from, tables, dispatched, inTurn>>
           \/ Stop /\ UNCHANGED <<tables, dispatched, inTurn>>
    BY <1>4 DEF DispatchCore, chainVars
  <2>2. CASE /\ todo' = todo \ {NextLog} /\ failed' = TRUE
             /\ UNCHANGED <<wpc, target, from, tables, dispatched, inTurn>>
    <3>1. RowsInTurn'
      BY <2>1, <2>2 DEF Turn, RowsInTurn, InOrder, Below
    <3>2. QueueInOrder'
      BY <2>1, <2>2 DEF Turn, QueueInOrder
    <3> QED
      BY <2>1, <2>2, <3>1, <3>2 DEF Turn, CoreInTurn, MovesInTurn
  <2> QED
    BY <1>2, <2>1, <2>2, TurnDispatchCore
<1>5. CASE FilterMoves
  <2>1. UNCHANGED <<history, chain, tables, dispatched, inTurn, missed>>
    BY <1>5 DEF FilterMoves, chainVars
  <2>2. \/ Stop
        \/ /\ wpc = "core" /\ todo = {} /\ ~failed /\ wpc' = "moves"
           /\ UNCHANGED <<target, from, failed>>
           /\ \E lag \in EndpointLags : todo' = FilterLogs(lag, TRUE)
    BY <1>5 DEF FilterMoves
  <2> QED
    BY <1>2, <2>1, <2>2, TurnFilterMoves
<1>6. CASE DispatchMove
  <2>1. /\ wpc = "moves" /\ todo # {} /\ UNCHANGED <<history, chain, missed, inTurn>>
        /\ \/ /\ Handle(NextLog) /\ todo' = todo \ {NextLog}
              /\ UNCHANGED <<wpc, target, from, failed>>
           \/ Stop /\ UNCHANGED <<tables, dispatched>>
    BY <1>6 DEF DispatchMove, chainVars
  <2> QED
    BY <1>2, <2>1, TurnDispatchMove
<1> QED
  BY <1>1, <1>3, <1>4, <1>5, <1>6, TurnCheckpoint DEF WatcherStep

LEMMA TurnNext ==
    ASSUME IInv, Shaped, Turn, [Next]_vars, EndpointsKeepUp
    PROVE  Turn'
<1>1. CASE Crash
  <2>1. UNCHANGED <<history, chain, tables, dispatched, inTurn>> /\ wpc' = "down"
    BY <1>1 DEF Crash, chainVars
  <2> QED
    BY <2>1, TurnRests
<1>2. ASSUME NEW i \in Mined, ObserveReceipt(i)
      PROVE  Turn'
  <2>1. UNCHANGED <<history, chain, tables, dispatched, inTurn, wpc, from, target, todo,
                    failed, missed>>
    BY <1>2 DEF ObserveReceipt, chainVars, localVars
  <2> QED
    BY <2>1, TurnStays
<1>3. ASSUME NEW i \in Mined, ReindexGovernance(i)
      PROVE  Turn'
  <2>1. /\ i \in 1 .. Len(history) /\ Handle(i) /\ history[i].type = "KeeperSet"
        /\ UNCHANGED <<history, chain, localVars, missed, inTurn>>
    BY <1>3, ChainType DEF ReindexGovernance, chainVars, IInv
  <2> QED
    BY <2>1, TurnReindex
<1>4. CASE ObserveDispatch
  <2>1. /\ observing \in 1 .. Len(history)
        /\ UNCHANGED <<history, chain, localVars, missed>>
        /\ \/ Handle(observing) /\ OutOfTurn(observing)
           \/ UNCHANGED <<tables, dispatched, inTurn>>
    BY <1>4, HistoryType DEF ObserveDispatch, chainVars, IInv, Typed, None
  <2>2. CASE UNCHANGED <<tables, dispatched, inTurn>>
    BY <2>1, <2>2, TurnStays DEF localVars
  <2> QED
    BY <2>1, <2>2, TurnObserve
<1>5. CASE UNCHANGED vars
  <2>1. UNCHANGED <<history, chain, tables, dispatched, inTurn, wpc, from, target, todo,
                    failed, missed>>
    BY <1>5 DEF vars, chainVars, localVars
  <2> QED
    BY <2>1, TurnStays
<1> QED
  BY <1>1, <1>2, <1>3, <1>4, <1>5, TurnMine, TurnReorg, TurnOfWatcher DEF Next

\* Settled and with nobody ahead, exactly the events up to the watcher's place have been
\* handled, and what fits with them is what one run over them leaves.
LEMMA SettledRows ==
    ASSUME IInv, Shaped, Turn
    PROVE  RowsMatchChain
<1> SUFFICES ASSUME Settled, ~Ahead
             PROVE  LET once == Once(lastBlock)
                    IN  /\ tables.auction.status = once.auction.status /\ tables.bids = once.bids
                        /\ tables.auction.leader = once.auction.leader
                        /\ tables.auction.high = once.auction.high
                        /\ once.auction.status = "active" => tables.auction = once.auction
                        /\ tables.offer.pending = once.offer.pending
                        /\ tables.sales = once.sales /\ tables.trail = once.trail
  BY DEF RowsMatchChain
<1>1. /\ Typed /\ InOrder(chain) /\ history \in Histories /\ tables \in Tables
      /\ SetsFit(history, tables, dispatched) /\ Below(inTurn - 1) \subseteq dispatched
      /\ Fits(history, tables, dispatched, Below(inTurn - 1))
  BY DEF IInv, Typed, Shaped, RowsTyped, Turn, RowsInTurn
<1>2. /\ lastBlock \in Nat /\ inTurn \in Nat /\ lastBlock <= inTurn - 1 /\ lastBlock <= Top
      /\ Top \in Nat
  BY <1>1, PlacesType DEF Settled
<1>3. PICK n \in 0 .. Len(history) : Below(lastBlock) = 1 .. n
  BY <1>1, <1>2, BelowIsPrefix
<1>4. Below(lastBlock) \subseteq Below(inTurn - 1)
  BY <1>2 DEF Below
<1>5. dispatched = 1 .. n
  <2>1. ASSUME NEW i \in dispatched
        PROVE  i \in Below(lastBlock)
    <3>1. i \in Mined /\ HeightOf(i) <= lastBlock
      BY <1>1, <1>2, HeightType, ChainType DEF Ahead
    <3>2. HeightOf(i) \in 1 .. lastBlock /\ chain[HeightOf(i)].ev = i /\ i # None
      BY <1>1, <1>2, <3>1, HeightType, ChainType DEF Mined
    <3> QED
      BY <3>2 DEF Below
  <2> QED
    BY <1>1, <1>3, <1>4, <2>1
<1>6. Fits(history, tables, 1 .. n, 1 .. n) /\ SetsFit(history, tables, 1 .. n)
  BY <1>1, <1>3, <1>4, <1>5, FitsKept
<1>7. PICK once : once = RowsAfter([i \in 1 .. n |-> history[i]])
  OBVIOUS
<1>8. once = Once(lastBlock)
  BY <1>3, <1>7 DEF Once
<1>9. once \in Tables /\ SetsFit(history, once, 1 .. n) /\ Fits(history, once, 1 .. n, 1 .. n)
  BY <1>1, <1>7, OnceFits DEF RowsTyped
<1>10. 1 .. n \in SUBSET (1 .. Len(history))
  BY <1>1, HistType
<1> QED
  BY <1>1, <1>6, <1>8, <1>9, <1>10, FitIsOne

\* The handlers: whenever the watcher rests on blocks handled in turn and nobody is ahead
\* of it, the auction, its bids, the pending offer, the sales and the trail are those of
\* one run over the chain, for any history, however often events were handled again.
THEOREM RowsAreTheChains ==
    ASSUME EndpointsKeepUp
    PROVE  Spec => []RowsMatchChain
<1>1. Init => Shaped /\ Turn
  BY ShapedInit, TurnInit
<1>2. IInv /\ IInv' /\ Shaped /\ Turn /\ [Next]_vars => Shaped' /\ Turn'
  BY ShapedNext, TurnNext
<1>3. IInv /\ Shaped /\ Turn => RowsMatchChain
  BY SettledRows
<1> QED
  BY <1>1, <1>2, <1>3, Inductive, PTL DEF Spec

=============================================================================

----------------------------- MODULE TokenMedia -----------------------------
(***************************************************************************)
(* Metadata and images of the tokens, as every instance fetches and hosts  *)
(* them: the metadata worker with its semaphore, the store of blobs with   *)
(* its quota, the hourly retry of images, the retry a visitor may ask for, *)
(* and the eviction of blobs nobody refers to.  All tokens are owned.      *)
(***************************************************************************)
EXTENDS Integers, FiniteSets, SequencesExt

CONSTANTS
    Token,
    Says,           \* token -> what its URI may answer: "", "html", "bare" or "image"
    Instances,
    Retriers,       \* bound: the instances whose image retry runs, and Visitor or not
    Evictors,       \* bound: the instances whose eviction runs
    Limit,          \* 25 tokens of a tick
    Concurrency,    \* MetadataConcurrency
    Cap, AlertAt, EvictTo,   \* MaxTotalBlobBytes, its 80 and 70 %; a blob is one
    MaxRetries,     \* maxImageRetries
    MaxFaults       \* bound: calls that fail, stops

VARIABLES
    row,      \* token -> nft_metadata: no row, a sentinel or a real one
    blobs,    \* full-size blobs by last_seen_at
    thumbs,   \* the blobs with thumbnails
    fetch,    \* instance -> token -> its goroutine
    sem,      \* instance -> slots taken
    draining, \* instance -> "no", or the phase of the wait for the batch
    retry,    \* worker of an instance, or the visitor -> its pass over upstream images
    evict,    \* instance -> the blobs to delete
    faults

vars == <<row, blobs, thumbs, fetch, sem, draining, retry, evict, faults>>
storeVars == <<blobs, thumbs>>
workerVars == <<fetch, sem, draining>>

None == <<"none">>
Upstream == <<"upstream">>
Json(t) == <<"json", t>>
Image(t) == <<"image", t>>
Visitor == "visitor"
NoRow == [kind |-> "none"]
Sentinel == [kind |-> "sentinel"]
Idle == [pc |-> "idle", says |-> "", uri |-> None, image |-> None]
Resting == [pc |-> "idle", left |-> <<>>]

Init ==
    /\ row = [t \in Token |-> NoRow]
    /\ blobs = <<>> /\ thumbs = {}
    /\ fetch = [i \in Instances |-> [t \in Token |-> Idle]]
    /\ sem = [i \in Instances |-> 0]
    /\ draining = [i \in Instances |-> "no"]
    /\ retry = [w \in Retriers |-> Resting]
    /\ evict = [i \in Evictors |-> Resting]
    /\ faults = 0

Fault == faults < MaxFaults /\ faults' = faults + 1
HasRow(t) == row[t].kind # "none"
IsReal(r) == r.kind = "real"

----------------------------------------------------------------------------
(* imagestore.Put, which asks before it writes, and the eviction.          *)

Has(h) == h \in Range(blobs)
Total == Len(blobs) + Cardinality(thumbs)
Accepts(h) == Has(h) \/ Total + 1 <= Cap
PutImage(h) == blobs' = Append(RemoveFirst(blobs, h), h)

Shown(h) == \E t \in Token : IsReal(row[t]) /\ row[t].image = h
Referenced(h) == \E t \in Token : IsReal(row[t]) /\ h \in {row[t].image, row[t].uri}
ListEvictableBlobs == SelectSeq(blobs, LAMBDA h : ~Shown(h))

Freed(h) == 1 + Cardinality(thumbs \cap {h})

SampleImageStore(i) ==
    /\ evict[i].pc = "idle" /\ Total >= AlertAt
    /\ evict' = [evict EXCEPT ![i] = [pc |-> "list", want |-> Total - EvictTo, left |-> <<>>]]
    /\ UNCHANGED <<row, storeVars, workerVars, retry, faults>>

EvictUnreferenced(i) ==
    /\ evict[i].pc = "list"
    /\ evict' = [evict EXCEPT ![i].pc = "delete", ![i].left = ListEvictableBlobs]
    /\ UNCHANGED <<row, storeVars, workerVars, retry, faults>>

DeleteBlob(i) ==
    /\ evict[i].pc = "delete"
    /\ IF evict[i].left = <<>> \/ evict[i].want <= 0
       THEN evict' = [evict EXCEPT ![i] = Resting] /\ UNCHANGED storeVars
       ELSE LET h == Head(evict[i].left)
            IN  /\ blobs' = RemoveFirst(blobs, h) /\ thumbs' = thumbs \ {h}
                /\ evict' = [evict EXCEPT ![i].left = Tail(@),
                                          ![i].want = @ - (IF Has(h) THEN Freed(h) ELSE 0)]
    /\ UNCHANGED <<row, workerVars, retry, faults>>

----------------------------------------------------------------------------
(* runMetadataWorker.                                                      *)

Batch(i) == {t \in Token : fetch[i][t].pc # "idle"}
Queued(i) == {t \in Token : fetch[i][t].pc = "queued"}

\* ListTokensMissingMetadata has no order.
ListMissing(i) ==
    /\ Batch(i) = {} /\ draining[i] = "no"
    /\ LET missing == {t \in Token : ~HasRow(t)}
           size == IF Cardinality(missing) < Limit THEN Cardinality(missing) ELSE Limit
       IN  \E batch \in SUBSET missing :
             /\ Cardinality(batch) = size /\ batch # {}
             /\ fetch' = [fetch EXCEPT ![i] = [t \in Token |->
                            IF t \in batch THEN [Idle EXCEPT !.pc = "queued"] ELSE Idle]]
    /\ UNCHANGED <<row, storeVars, sem, draining, retry, evict, faults>>

Launch(i, t) ==
    /\ fetch[i][t].pc = "queued" /\ sem[i] < Concurrency
    /\ sem' = [sem EXCEPT ![i] = @ + 1]
    /\ fetch' = [fetch EXCEPT ![i][t].pc = "ask"]
    /\ draining' = [draining EXCEPT ![i] = IF Queued(i) = {t} THEN "acquire" ELSE @]
    /\ UNCHANGED <<row, storeVars, retry, evict, faults>>

\* The loop takes every slot, which waits for the batch, and gives them back.
Drain(i) ==
    /\ draining[i] = "acquire" /\ Batch(i) = {} /\ sem[i] = 0
    /\ sem' = [sem EXCEPT ![i] = Concurrency]
    /\ draining' = [draining EXCEPT ![i] = "release"]
    /\ UNCHANGED <<row, storeVars, fetch, retry, evict, faults>>

Refill(i) ==
    /\ draining[i] = "release"
    /\ sem' = [sem EXCEPT ![i] = 0]
    /\ draining' = [draining EXCEPT ![i] = "no"]
    /\ UNCHANGED <<row, storeVars, fetch, retry, evict, faults>>

----------------------------------------------------------------------------
(* fetchOne.                                                               *)

At(i, t, pc) == fetch[i][t].pc = pc
Go(i, t, g) == fetch' = [fetch EXCEPT ![i][t] = g]
Step(i, t, pc) == Go(i, t, [fetch[i][t] EXCEPT !.pc = pc])
Done(i, t) == Go(i, t, Idle) /\ sem' = [sem EXCEPT ![i] = @ - 1]

\* tokenURI and FetchBytes.
Ask(i, t) ==
    /\ At(i, t, "ask")
    /\ \/ /\ \E a \in Says[t] : Go(i, t, [Idle EXCEPT !.says = a, !.uri = Upstream,
                                            !.pc = IF a = "" THEN "mark" ELSE "json"])
          /\ UNCHANGED <<sem, faults>>
       \/ Fault /\ Done(i, t)
    /\ UNCHANGED <<row, storeVars, draining, retry, evict>>

\* Mutation: the sentinel replaces the row it meets.
SentinelReplaces(t) == Sentinel

Marked(t) == IF HasRow(t) THEN row[t] ELSE Sentinel

MarkMissing(i, t) ==
    /\ At(i, t, "mark")
    /\ row' = [row EXCEPT ![t] = Marked(t)]
    /\ Done(i, t)
    /\ UNCHANGED <<storeVars, draining, retry, evict, faults>>

\* A body that is not JSON is not stored, and does not parse.
SelfHostJson(i, t) ==
    /\ At(i, t, "json")
    /\ IF fetch[i][t].says = "html" THEN Done(i, t)
       ELSE Step(i, t, IF Accepts(Json(t)) THEN "put json" ELSE "image") /\ UNCHANGED sem
    /\ UNCHANGED <<row, storeVars, draining, retry, evict, faults>>

PutJson(i, t) ==
    /\ At(i, t, "put json")
    /\ PutImage(Json(t))
    /\ Go(i, t, [fetch[i][t] EXCEPT !.uri = Json(t), !.pc = "image"])
    /\ UNCHANGED <<row, thumbs, sem, draining, retry, evict, faults>>

Unhosted(i, t) ==
    /\ Go(i, t, [fetch[i][t] EXCEPT !.says = "", !.image = Upstream, !.pc = "upsert"])
    /\ UNCHANGED sem

\* The gateway may fail at any time.
FetchImage(i, t) ==
    /\ At(i, t, "image")
    /\ \/ /\ fetch[i][t].says = "bare"
          /\ Go(i, t, [fetch[i][t] EXCEPT !.says = "", !.pc = "upsert"]) /\ UNCHANGED sem
       \/ fetch[i][t].says = "image" /\ Unhosted(i, t)
       \/ /\ fetch[i][t].says = "image" /\ Accepts(Image(t))
          /\ Go(i, t, [fetch[i][t] EXCEPT !.says = "", !.pc = "put image"]) /\ UNCHANGED sem
    /\ UNCHANGED <<row, storeVars, draining, retry, evict, faults>>

PutImageOf(i, t) ==
    /\ At(i, t, "put image")
    /\ PutImage(Image(t))
    /\ Go(i, t, [fetch[i][t] EXCEPT !.image = Image(t), !.pc = "thumbs"])
    /\ UNCHANGED <<row, thumbs, sem, draining, retry, evict, faults>>

\* StoreThumbnails does its best and asks for no room.
StoreThumbnails(i, t) ==
    /\ At(i, t, "thumbs")
    /\ thumbs' \in {thumbs, thumbs \cup {Image(t)}}
    /\ Step(i, t, "upsert")
    /\ UNCHANGED <<row, blobs, sem, draining, retry, evict, faults>>

\* The retry columns of a row that exists are left.
Upserted(i, t) ==
    LET g == fetch[i][t]
    IN  [kind |-> "real", image |-> g.image, uri |-> g.uri,
         retries |-> IF IsReal(row[t]) THEN row[t].retries ELSE 0,
         due |-> IF IsReal(row[t]) THEN row[t].due ELSE 0]

UpsertMetadata(i, t) ==
    /\ At(i, t, "upsert")
    /\ \/ row' = [row EXCEPT ![t] = Upserted(i, t)] /\ UNCHANGED faults
       \/ Fault /\ UNCHANGED row
    /\ Done(i, t)
    /\ UNCHANGED <<storeVars, draining, retry, evict>>

----------------------------------------------------------------------------
(* retryPendingImages, and handleRetry for the visitor.                    *)

Pow2(n) == 2 ^ n
\* Hours until the next try, after the n-th.
Backoff(n) == IF Pow2(n - 1) < 24 THEN Pow2(n - 1) ELSE 24

Candidates == {t \in Token : IsReal(row[t]) /\ row[t].image = Upstream
                               /\ row[t].retries < MaxRetries /\ row[t].due = 0}

Pair(t) == [token |-> t, count |-> row[t].retries]

ListUpstream(w) ==
    /\ retry[w].pc = "idle"
    /\ IF w = Visitor
       THEN \E t \in Token : /\ IsReal(row[t]) /\ row[t].image = Upstream
                             /\ retry' = [retry EXCEPT ![w] = [pc |-> "fetch", left |-> <<Pair(t)>>]]
       ELSE /\ Candidates # {}
            /\ \E order \in SetToSeqs(Candidates) :
                  retry' = [retry EXCEPT ![w] = [pc |-> "fetch",
                              left |-> [k \in DOMAIN order |-> Pair(order[k])]]]
    /\ UNCHANGED <<row, storeVars, workerVars, evict, faults>>

Trying(w) == Head(retry[w].left)
Advance(w) == retry' = [retry EXCEPT ![w] =
    IF Len(@.left) > 1 THEN [pc |-> "fetch", left |-> Tail(@.left)] ELSE Resting]

EveryTryCounts(full) == TRUE

\* BumpImageRetry writes the count it was listed with, and one.
Bump(w) ==
    LET t == Trying(w).token
        n == Trying(w).count + 1
    IN  IF w # Visitor /\ IsReal(row[t])
        THEN row' = [row EXCEPT ![t].retries = n, ![t].due = Backoff(n)]
        ELSE UNCHANGED row

TryFails(w) ==
    /\ retry[w].pc = "fetch"
    /\ \E full \in {~Accepts(Image(Trying(w).token)), FALSE} :
          IF EveryTryCounts(full) THEN Bump(w) ELSE UNCHANGED row
    /\ Advance(w)
    /\ UNCHANGED <<storeVars, workerVars, evict, faults>>

TryFetches(w) ==
    /\ retry[w].pc = "fetch" /\ Accepts(Image(Trying(w).token))
    /\ retry' = [retry EXCEPT ![w].pc = "put"]
    /\ UNCHANGED <<row, storeVars, workerVars, evict, faults>>

\* The visitor's retry makes no thumbnails.
TryPut(w) ==
    /\ retry[w].pc = "put"
    /\ PutImage(Image(Trying(w).token))
    /\ thumbs' \in {thumbs, IF w = Visitor THEN thumbs ELSE thumbs \cup {Image(Trying(w).token)}}
    /\ retry' = [retry EXCEPT ![w].pc = "update"]
    /\ UNCHANGED <<row, workerVars, evict, faults>>

UpdateImageURI(w) ==
    /\ retry[w].pc = "update"
    /\ LET t == Trying(w).token
       IN  \/ /\ row' = IF IsReal(row[t])
                        THEN [row EXCEPT ![t].image = Image(t), ![t].retries = 0, ![t].due = 0] ELSE row
              /\ UNCHANGED faults
           \/ Fault /\ Bump(w)
    /\ Advance(w)
    /\ UNCHANGED <<storeVars, workerVars, evict>>

----------------------------------------------------------------------------
Tick ==
    /\ \E t \in Token : IsReal(row[t]) /\ row[t].due > 0
    /\ row' = [t \in Token |-> IF IsReal(row[t]) /\ row[t].due > 0
                               THEN [row[t] EXCEPT !.due = @ - 1] ELSE row[t]]
    /\ UNCHANGED <<storeVars, workerVars, retry, evict, faults>>

\* The process ends and starts again.
Restart(i) ==
    /\ Fault
    /\ fetch' = [fetch EXCEPT ![i] = [t \in Token |-> Idle]]
    /\ sem' = [sem EXCEPT ![i] = 0]
    /\ draining' = [draining EXCEPT ![i] = "no"]
    /\ retry' = [w \in Retriers |-> IF w = i THEN Resting ELSE retry[w]]
    /\ evict' = [j \in Evictors |-> IF j = i THEN Resting ELSE evict[j]]
    /\ UNCHANGED <<row, storeVars>>

FetchOne(i, t) ==
    \/ Ask(i, t) \/ MarkMissing(i, t) \/ SelfHostJson(i, t) \/ PutJson(i, t) \/ FetchImage(i, t)
    \/ PutImageOf(i, t) \/ StoreThumbnails(i, t) \/ UpsertMetadata(i, t)

MetadataWorker(i) == ListMissing(i) \/ (\E t \in Token : Launch(i, t)) \/ Drain(i) \/ Refill(i)
Retry(w) == ListUpstream(w) \/ TryFails(w) \/ TryFetches(w) \/ TryPut(w) \/ UpdateImageURI(w)
ImageStoreWorker(i) == SampleImageStore(i) \/ EvictUnreferenced(i) \/ DeleteBlob(i)

Next ==
    \/ \E i \in Instances : MetadataWorker(i) \/ Restart(i) \/ \E t \in Token : FetchOne(i, t)
    \/ \E i \in Evictors : ImageStoreWorker(i)
    \/ \E w \in Retriers : Retry(w)
    \/ Tick

Spec == Init /\ [][Next]_vars

\* Nobody has to ask for a retry.
Fairness ==
    /\ WF_vars(Tick)
    /\ \A i \in Instances : /\ WF_vars(MetadataWorker(i))
                            /\ \A t \in Token : WF_vars(FetchOne(i, t))
    /\ \A w \in Retriers \ {Visitor} : WF_vars(Retry(w))

FairSpec == Spec /\ Fairness

----------------------------------------------------------------------------
TypeOK ==
    /\ IsInjective(blobs)
    /\ \A i \in Instances : sem[i] \in 0 .. Concurrency
    /\ \A t \in Token : IsReal(row[t]) =>
          /\ row[t].retries \in 0 .. MaxRetries
          /\ row[t].image \in {None, Upstream, Image(t)} /\ row[t].uri \in {Upstream, Json(t)}

\* "If a real metadata row already exists (race or stale sentinel vs. a later
\* successful fetch), we don't wipe its populated fields."
RealRowsStay == [][\A t \in Token : IsReal(row[t]) => IsReal(row'[t])]_vars

\* "The token's metadata is never blocked on image storage": it gets its row, though
\* the gateway never serves its image or the store stays full, and every batch gives
\* the semaphore back.
MetadataArrives == \A t \in Token : "html" \notin Says[t] => <>HasRow(t)

\* Every image not hosted has had its tries: each failure and each full store moves
\* it on, and what other instances and visitors try at the same time takes none away.
ImagesSettle == <>[](\A t \in Token :
    IsReal(row[t]) /\ row[t].image = Upstream => row[t].retries = MaxRetries)

\* ListEvictableBlobs: "A blob still referenced by any token is never a candidate".
OnlyUnreferencedListed == [][\A i \in Evictors :
    evict[i].pc = "list" /\ evict'[i].pc = "delete" =>
        \A h \in Range(evict'[i].left) : ~Referenced(h)]_vars

\* The same at the moment a blob is deleted.
ShownImagesKept == \A t \in Token : IsReal(row[t]) /\ row[t].image = Image(t) => Has(Image(t))

\* fetchOne: "the indexer MUST NOT loop forever on a single token".
NoEndlessFetch == \A i \in Instances, t \in Token : <>[](fetch[i][t].pc = "idle")
==============================================================================

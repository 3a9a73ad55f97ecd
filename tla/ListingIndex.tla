---------------------------- MODULE ListingIndex ----------------------------
(***************************************************************************)
(* The marketplace as the web site sees it: the contract's events are      *)
(* indexed into listings rows, and four workers of the same process write  *)
(* to those rows or act on them: the indexer, the expiry sweeper, the      *)
(* keeper's sweep and the ownership check of a preflight or repair.        *)
(* ERC-721 only; one process, one chain without reorganisations.           *)
(***************************************************************************)
EXTENDS Marketplace

CONSTANTS
    Approvers,   \* bound: the users that ever approve the marketplace
    MaxLog,      \* bound: events of traders mined and not indexed yet
    MaxFaults    \* bound: failed calls and crashes

ASSUME IndexAssumption ==
    /\ ERC1155 = {} /\ Approvers \subseteq Users
    /\ MaxLog \in Nat \ {0}
    /\ MaxFaults \in Nat

VARIABLES
    chainLog,   \* events after the cursor that no range holds
    range,      \* the events of the range being processed
    todo,       \* the handler calls left of it, by their numbers
    failed,     \* one of its calls failed
    rows,       \* nft -> seller -> row of the table listings
    owner,      \* nft -> the owner in nft_ownership
    expiring,   \* the expiry sweeper: rows selected and not yet updated
    sweep,      \* the keeper: rows selected and not yet sent
    marking,    \* the keeper: the row whose receipt has just arrived
    check,      \* preflight or repair: what the chain said of a row's seller
    faults,
    kept        \* history: the seller has held the token since it listed it

chainVars == vars
indexVars == <<range, todo, failed, rows, owner>>
workerVars == <<expiring, sweep, marking, check>>
siteVars == <<chainVars, chainLog, indexVars, workerVars, faults, kept>>

Keys == Nft \X Users
None == <<>>
Row == [price : Nat, expiresAt : Nat, active : BOOLEAN, orphaned : BOOLEAN,
        chain_cleaned : BOOLEAN]
NoRow == [price |-> 0, expiresAt |-> 0, active |-> FALSE, orphaned |-> FALSE,
          chain_cleaned |-> FALSE]
Present(r) == r.price > 0
Event == [type : {"Listed", "Cancelled", "Bought", "Transfer"}, nft : Nft,
          seller : Users, to : Users \cup {NoAddr}, price : Nat, expiresAt : Nat]

SiteInit ==
    /\ Init
    /\ chainLog = <<>> /\ range = <<>> /\ todo = {} /\ failed = FALSE
    /\ rows = [key \in Keys |-> NoRow]
    /\ owner = [nft \in Nft |-> NoAddr]
    /\ expiring = {} /\ sweep = {} /\ marking = None /\ check = None
    /\ faults = 0
    /\ kept = [key \in Keys |-> FALSE]

----------------------------------------------------------------------------
(* The contract and the tokens, with the events they emit.                 *)

ListedEvent(nft, seller, price, expiresAt) ==
    [type |-> "Listed", nft |-> nft, seller |-> seller, to |-> NoAddr,
     price |-> price, expiresAt |-> expiresAt]
OtherEvent(type, nft, seller, to) ==
    [type |-> type, nft |-> nft, seller |-> seller, to |-> to,
     price |-> 0, expiresAt |-> 0]

\* Bounds: faults strike while fewer than MaxLog events wait, and leave room for one less.
MayFail == faults < MaxFaults /\ Len(range) + Len(chainLog) < MaxLog

Emit(events) == /\ chainLog' = chainLog \o events
                /\ Len(chainLog') + faults <= MaxLog

Keep(keys, flag) == kept' = [key \in Keys |-> IF key \in keys THEN flag ELSE kept[key]]

ListTokens(seller, items) ==
    /\ BatchList(seller, items)
    /\ Emit([i \in DOMAIN items |->
               ListedEvent(items[i].nft, seller, items[i].price,
                           ExpiryFor(items[i].duration))])
    /\ Keep({<<items[i].nft, seller>> : i \in DOMAIN items}, TRUE)

Reprice(seller, nft, price) ==
    /\ EditPrice(seller, nft, price)
    /\ Emit(<<ListedEvent(nft, seller, price, listings[nft][seller].expiresAt)>>)
    /\ UNCHANGED kept

Withdraw(seller, nft) ==
    /\ Cancel(seller, nft)
    /\ Emit(<<OtherEvent("Cancelled", nft, seller, NoAddr)>>)
    /\ UNCHANGED kept

Sell(buyer, nft, seller) ==
    /\ BuyAt(buyer, nft, seller, listings[nft][seller].price)
    /\ Emit(<<OtherEvent("Bought", nft, seller, buyer)>>)
    /\ IF buyer = seller THEN UNCHANGED kept ELSE Keep({<<nft, seller>>}, FALSE)

Give(nft, from, to) ==
    /\ from # to
    /\ TokenMove(nft, from, to)
    /\ Emit(<<OtherEvent("Transfer", nft, from, to)>>)
    /\ Keep({<<nft, from>>}, FALSE)

\* Bound: an approval is given and never taken back.
SilentStep ==
    /\ \/ Tick /\ UNCHANGED <<listings, earned, tokenVars>>
       \/ \E nft \in Nft, u \in Approvers : Approve(nft, u) /\ approved \subseteq approved'
    /\ UNCHANGED <<chainLog, kept>>

ChainStep ==
    /\ \/ \E u \in Users, items \in Batches : ListTokens(u, items)
       \/ \E u \in Users, nft \in Nft, pr \in Prices : Reprice(u, nft, pr)
       \/ \E u \in Users, nft \in Nft : Withdraw(u, nft)
       \/ \E b, u \in Users, nft \in Nft : Sell(b, nft, u)
       \/ \E nft \in Nft, u, v \in Users : Give(nft, u, v)
       \/ SilentStep
    /\ UNCHANGED <<indexVars, workerVars, faults>>

----------------------------------------------------------------------------
(* The indexer.  A range's marketplace events are handled before its       *)
(* transfers; a sale emits both.                                           *)

\* A range of n events makes at most 2n calls: call i handles event i, and call
\* n + i moves its token.
Calls(events) ==
    {i \in DOMAIN events : events[i].type # "Transfer"}
    \cup {Len(events) + i : i \in {j \in DOMAIN events :
                                      events[j].type \in {"Bought", "Transfer"}}}

CallOf(i) == IF i <= Len(range) THEN range[i]
             ELSE [range[i - Len(range)] EXCEPT !.type = "Transfer"]

NextCall == CHOOSE i \in todo : \A j \in todo : i <= j

\* The range ends at any event: a restart may find the head elsewhere.
StartRange ==
    /\ range = <<>>
    /\ \E n \in 1 .. Len(chainLog) :
          /\ range' = SubSeq(chainLog, 1, n)
          /\ chainLog' = SubSeq(chainLog, n + 1, Len(chainLog))
    /\ todo' = Calls(range')
    /\ UNCHANGED <<chainVars, failed, rows, owner, workerVars, faults, kept>>

\* Mutation: the upsert forgets the orphaned column, too.
OnListedStillOrphaned(c) ==
    LET key == <<c.nft, c.seller>>
    IN  /\ rows' = [rows EXCEPT ![key] =
              [@ EXCEPT !.price = c.price, !.expiresAt = c.expiresAt, !.active = TRUE]]
        /\ owner' = [owner EXCEPT ![c.nft] = c.seller]

\* chain_cleaned is not among the columns the upsert sets.
OnListed(c) ==
    LET key == <<c.nft, c.seller>>
    IN  /\ rows' = [rows EXCEPT ![key] =
              [price |-> c.price, expiresAt |-> c.expiresAt, active |-> TRUE,
               orphaned |-> FALSE, chain_cleaned |-> @.chain_cleaned]]
        /\ owner' = [owner EXCEPT ![c.nft] = c.seller]

\* onCancelled and onBought: the struct is gone.
OnGone(c) ==
    LET key == <<c.nft, c.seller>>
    IN  /\ rows' = [rows EXCEPT ![key] =
              IF Present(@) THEN [@ EXCEPT !.active = FALSE, !.chain_cleaned = TRUE]
                            ELSE @]
        /\ UNCHANGED owner

OnTransfer(c) ==
    /\ owner' = [owner EXCEPT ![c.nft] = c.to]
    /\ rows' = [key \in Keys |->
          IF key[1] = c.nft /\ key[2] # c.to /\ rows[key].active
          THEN [rows[key] EXCEPT !.active = FALSE, !.orphaned = TRUE]
          ELSE rows[key]]

Handle(c) ==
    \/ c.type = "Listed" /\ OnListed(c)
    \/ c.type \in {"Cancelled", "Bought"} /\ OnGone(c)
    \/ c.type = "Transfer" /\ ~failed /\ OnTransfer(c)

Dispatch ==
    /\ todo # {}
    /\ Handle(CallOf(NextCall))
    /\ todo' = todo \ {NextCall}
    /\ UNCHANGED <<chainVars, chainLog, range, failed, workerVars, faults, kept>>

\* The calls after a failed marketplace event are still made, transfers are not.
DispatchFails ==
    /\ todo # {} /\ MayFail
    /\ CallOf(NextCall).type = "Transfer" => ~failed
    /\ failed' = TRUE
    /\ todo' = todo \ {NextCall}
    /\ faults' = faults + 1
    /\ UNCHANGED <<chainVars, chainLog, range, rows, owner, workerVars, kept>>

\* Mutation: the cursor passes a range some of whose calls failed.
CommitDespiteFailure ==
    /\ range # <<>> /\ (todo = {} \/ failed)
    /\ range' = <<>> /\ todo' = {} /\ failed' = FALSE
    /\ UNCHANGED <<chainVars, chainLog, rows, owner, workerVars, faults, kept>>

Commit ==
    /\ range # <<>> /\ todo = {} /\ ~failed
    /\ range' = <<>>
    /\ UNCHANGED <<chainVars, chainLog, todo, failed, rows, owner, workerVars,
                   faults, kept>>

GiveBackRange ==
    /\ chainLog' = range \o chainLog
    /\ range' = <<>> /\ todo' = {} /\ failed' = FALSE

AbortRange ==
    /\ failed
    /\ todo # {} => CallOf(NextCall).type = "Transfer"
    /\ GiveBackRange
    /\ UNCHANGED <<chainVars, rows, owner, workerVars, faults, kept>>

Crash ==
    /\ MayFail
    /\ faults' = faults + 1
    /\ GiveBackRange
    /\ expiring' = {} /\ sweep' = {} /\ marking' = None /\ check' = None
    /\ UNCHANGED <<chainVars, rows, owner, kept>>

----------------------------------------------------------------------------
(* The expiry sweeper: select, then update row by row.                     *)

Overdue(key) == Present(rows[key]) /\ rows[key].expiresAt < now

\* Mutation: rows that the keeper is done with are not looked at.
SelectExpiredUncleaned ==
    LET selected == {key \in Keys : /\ Overdue(key) /\ rows[key].active
                                    /\ ~rows[key].chain_cleaned}
    IN  /\ expiring = {} /\ selected # {}
        /\ expiring' = selected
        /\ UNCHANGED <<chainVars, chainLog, indexVars, sweep, marking, check,
                       faults, kept>>

SelectExpired ==
    LET selected == {key \in Keys : /\ Overdue(key) /\ rows[key].active
                                    /\ ~rows[key].orphaned}
    IN  /\ expiring = {} /\ selected # {}
        /\ expiring' = selected
        /\ UNCHANGED <<chainVars, chainLog, indexVars, sweep, marking, check,
                       faults, kept>>

DeactivateExpired(key) ==
    /\ key \in expiring
    /\ expiring' = expiring \ {key}
    /\ rows' = IF rows[key].active /\ ~rows[key].orphaned
               THEN [rows EXCEPT ![key].active = FALSE] ELSE rows
    /\ UNCHANGED <<chainVars, chainLog, range, todo, failed, owner, sweep, marking,
                   check, faults, kept>>

----------------------------------------------------------------------------
(* The keeper's sweep: select, then send, await and mark row by row.       *)

\* Mutation: the sweep looks for active rows.
SelectUncleanedActive ==
    LET selected == {key \in Keys : Overdue(key) /\ rows[key].active}
    IN  /\ sweep = {} /\ marking = None /\ selected # {}
        /\ sweep' = selected
        /\ UNCHANGED <<chainVars, chainLog, indexVars, expiring, marking, check,
                       faults, kept>>

SelectUncleaned ==
    LET selected == {key \in Keys : Overdue(key) /\ ~rows[key].chain_cleaned}
    IN  /\ sweep = {} /\ marking = None /\ selected # {}
        /\ sweep' = selected
        /\ UNCHANGED <<chainVars, chainLog, indexVars, expiring, marking, check,
                       faults, kept>>

SendClean(key) ==
    /\ key \in sweep /\ marking = None
    /\ CleanExpired(keeper, key[1], key[2])
    /\ chainLog' = Append(chainLog, OtherEvent("Cancelled", key[1], key[2], NoAddr))
    /\ sweep' = sweep \ {key}
    /\ marking' = key
    /\ UNCHANGED <<indexVars, expiring, check, faults, kept>>

\* Reverted, not sent, or no receipt in time: the row waits for the next pass.
CleanFails(key) ==
    /\ key \in sweep /\ marking = None
    /\ \/ ~Expired(listings[key[1]][key[2]]) /\ UNCHANGED faults
       \/ MayFail /\ faults' = faults + 1
    /\ sweep' = sweep \ {key}
    /\ UNCHANGED <<chainVars, chainLog, indexVars, expiring, marking, check, kept>>

MarkCleaned ==
    /\ marking # None
    /\ rows' = [rows EXCEPT ![marking].chain_cleaned = TRUE]
    /\ marking' = None
    /\ UNCHANGED <<chainVars, chainLog, range, todo, failed, owner, expiring, sweep,
                   check, faults, kept>>

----------------------------------------------------------------------------
(* A preflight, or the repair worker: read the row, ask the chain who      *)
(* holds the token, then write if the two disagree.                        *)

AskOwner(key) ==
    LET owns == balance[key[1]][key[2]] > 0
    IN  /\ check = None
        /\ rows[key].active /\ ~rows[key].orphaned /\ rows[key].expiresAt > now
        /\ owns => owner[key[1]] # key[2]
        /\ check' = [key |-> key, owns |-> owns]
        /\ UNCHANGED <<chainVars, chainLog, indexVars, expiring, sweep, marking,
                       faults, kept>>

EnsureListingSellerOwnership(key) ==
    /\ owner' = [owner EXCEPT ![key[1]] = key[2]]
    /\ UNCHANGED rows

OrphanListing(key) ==
    /\ rows' = IF rows[key].active /\ ~rows[key].orphaned
               THEN [rows EXCEPT ![key].active = FALSE, ![key].orphaned = TRUE]
               ELSE rows
    /\ UNCHANGED owner

RepairRow ==
    /\ check # None
    /\ IF check.owns THEN EnsureListingSellerOwnership(check.key)
                     ELSE OrphanListing(check.key)
    /\ check' = None
    /\ UNCHANGED <<chainVars, chainLog, range, todo, failed, expiring, sweep, marking,
                   faults, kept>>

----------------------------------------------------------------------------
Indexer == StartRange \/ Dispatch \/ DispatchFails \/ Commit \/ AbortRange
ExpirySweeper == SelectExpired \/ \E key \in Keys : DeactivateExpired(key)
KeeperSweep == \/ SelectUncleaned
               \/ \E key \in Keys : SendClean(key) \/ CleanFails(key)
               \/ MarkCleaned
OwnershipCheck == (\E key \in Keys : AskOwner(key)) \/ RepairRow

SiteNext ==
    \/ ChainStep
    \/ Indexer
    \/ ExpirySweeper
    \/ KeeperSweep
    \/ OwnershipCheck
    \/ Crash

SiteSpec == SiteInit /\ [][SiteNext]_siteVars

\* The clock and the process's own loops; nobody has to trade.
SiteFairness ==
    /\ WF_siteVars(Tick /\ SilentStep /\ UNCHANGED <<indexVars, workerVars, faults>>)
    /\ WF_siteVars(StartRange) /\ WF_siteVars(Dispatch)
    /\ WF_siteVars(Commit) /\ WF_siteVars(AbortRange)
    /\ WF_siteVars(ExpirySweeper)
    /\ WF_siteVars(KeeperSweep)

FairSiteSpec == SiteSpec /\ SiteFairness

----------------------------------------------------------------------------
\* A row is never both shown and orphaned.
SiteTypeOK ==
    /\ chainLog \in Seq(Event) /\ range \in Seq(Event)
    /\ todo \subseteq 1 .. 2 * Len(range)
    /\ failed \in BOOLEAN
    /\ rows \in [Keys -> Row]
    /\ \A key \in Keys : rows[key].orphaned => ~rows[key].active
    /\ owner \in [Nft -> Users \cup {NoAddr}]
    /\ expiring \subseteq Keys /\ sweep \subseteq Keys
    /\ marking \in Keys \cup {None}
    /\ check = None \/ check \in [key : Keys, owns : BOOLEAN]
    /\ faults \in 0 .. MaxFaults
    /\ kept \in [Keys -> BOOLEAN]

CaughtUp == chainLog = <<>> /\ range = <<>>

\* What the site sells can be bought: once the index has caught up, every
\* active row is a listing the contract still has, at the row's price and
\* expiry, whatever failed, crashed or was replayed on the way (processRange,
\* its handlers and the sweepers).
ActiveRowsAreListings ==
    CaughtUp =>
        \A nft \in Nft, u \in Users :
            LET r == rows[<<nft, u>>]
                l == listings[nft][u]
            IN  r.active => Exists(l) /\ l.price = r.price /\ l.expiresAt = r.expiresAt

\* "Only seller can cancel active listings": no transaction of the keeper's
\* sweep ends a running listing, however old the selection it comes from and
\* whatever the seller has renewed since (cleanExpired, cleanExpiredListings).
SweepSparesRunning ==
    [][sweep' # sweep =>
          \A nft \in Nft, u \in Users :
             Live(listings[nft][u]) => listings'[nft][u] = listings[nft][u]]_siteVars

\* No expired row stays active (runListingExpirySweeper). Only approvers can list.
ExpiredRowsGo ==
    \A key \in Nft \X Approvers :
        rows[key].active /\ Overdue(key) ~> ~(rows[key].active /\ Overdue(key))

\* An expired listing whose row the keeper does not think cleaned is deleted on
\* the chain, also when the expiry sweeper has deactivated the row long before
\* the keeper's pass (cleanExpiredListings, GetExpiredActiveListings).
UnmarkedListingsGo ==
    \A nft \in Nft, u \in Approvers :
        (CaughtUp /\ marking = None /\ Expired(listings[nft][u])
            /\ ~rows[<<nft, u>>].chain_cleaned)
        ~> ~Expired(listings[nft][u])

\* "Expired listings are auto-cleaned by the keeper bot", unless their seller
\* renews them first (cleanExpiredListings).
ExpiredListingsGo ==
    \A nft \in Nft, u \in Users :
        Expired(listings[nft][u]) ~> ~Expired(listings[nft][u])

\* "DeactivateExpiredListing marks a listing as inactive because it has
\* expired": the sweeper hides no row whose listing has not expired.
OnlyExpiredDeactivated ==
    [][\A key \in Keys :
          DeactivateExpired(key) /\ rows' # rows => Overdue(key)]_siteVars

\* "Orphans any active listing whose seller is no longer the holder": with the
\* index caught up and no worker at work, a running listing whose seller never
\* parted with the token since listing it is shown (processTransfers).
KeptListingsAreShown ==
    CaughtUp /\ expiring = {} /\ check = None =>
        \A nft \in Nft, u \in Users :
            Live(listings[nft][u]) /\ kept[<<nft, u>>] => rows[<<nft, u>>].active
=============================================================================

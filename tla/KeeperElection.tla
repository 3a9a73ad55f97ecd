--------------------------- MODULE KeeperElection ---------------------------
(***************************************************************************)
(* Which backend instance runs the keepers: heartbeats over gRPC, lower    *)
(* instance id wins, and a gate the keeper loop of the runner waits on.    *)
(*                                                                         *)
(* Time is counted in heartbeat intervals: Tick lets one pass once every   *)
(* live instance did what its two tickers and its timer asked of it, so a  *)
(* call to a dead peer fails within the interval.  A restarted process     *)
(* draws a new id and is not modelled.                                     *)
(***************************************************************************)
EXTENDS Integers, FiniteSets

CONSTANTS
    Instance,         \* instance ids; UUIDs are compared, so numbers
    MissedThreshold,  \* missedThreshold
    MaxDegraded,      \* Election.maxDegraded; zero never yields
    MayCrash,         \* the instances that may die
    MaxFaults         \* bound: lost calls, failed probes and Yield() calls

ASSUME ElectionAssumption ==
    /\ Instance \subseteq Nat \ {0}
    /\ MissedThreshold \in Nat
    /\ MaxDegraded \in Nat
    /\ MayCrash \subseteq Instance
    /\ MaxFaults \in Nat

VARIABLES
    up,      \* "new", "up" or "dead"
    node,    \* the Election of each instance and the keeper loop waiting on it
    due,     \* what the tickers of the current interval still ask for
    beat,    \* the heartbeatTick in progress
    faults   \* faults so far

vars == <<up, node, due, beat, faults>>

None == 0   \* leaderID ""
Never == -1 \* lastHeartbeat is the zero time

Peers(i) == Instance \ {i}
Live == {i \in Instance : up[i] = "up"}

Node == [role : {"follower", "candidate", "leader"},
         leaderId : Instance \cup {None},
         age : Never .. MissedThreshold + 1,   \* since lastHeartbeat, saturated
         degraded : 0 .. MaxDegraded,
         lock : BOOLEAN,                       \* lockCancel # nil
         gateClosed : BOOLEAN,                 \* of the current gateReady
         at : {"idle", "run", "lockctx", "lockwait", "work"},
         latched : {"none", "open", "closed", "orphan"}, \* the gate waited on
         ctx : {"none", "live", "cancelled"}]            \* of the keepers

NewNode == [role |-> "follower", leaderId |-> None, age |-> Never,
            degraded |-> 0, lock |-> FALSE, gateClosed |-> FALSE,
            at |-> "idle", latched |-> "none", ctx |-> "none"]

Quiet == [on |-> FALSE, isLeader |-> FALSE, todo |-> {}, failures |-> 0,
          reply |-> None]

Init ==
    /\ up = [i \in Instance |-> "new"]
    /\ node = [i \in Instance |-> NewNode]
    /\ due = [i \in Instance |-> {}]
    /\ beat = [i \in Instance |-> Quiet]
    /\ faults = 0

----------------------------------------------------------------------------
(* What a critical section of Election.mu does to the Election.            *)

CloseGate(n) ==
    [n EXCEPT !.gateClosed = TRUE,
              !.latched = IF @ = "open" THEN "closed" ELSE @]

\* Whoever latched the old channel still waits on it.
FreshGate(n) ==
    [n EXCEPT !.gateClosed = FALSE,
              !.latched = IF @ = "open" THEN "orphan" ELSE @]

CancelLock(n) ==
    [n EXCEPT !.lock = FALSE, !.ctx = IF @ = "live" THEN "cancelled" ELSE @]

BecomeLeader(n, i) ==
    IF n.role = "leader" THEN n
    ELSE CloseGate([CancelLock(n) EXCEPT !.role = "leader", !.leaderId = i,
                                         !.age = 0, !.lock = TRUE])

Resign(n) ==
    IF n.role # "leader" THEN n
    ELSE FreshGate([CancelLock(n) EXCEPT !.role = "follower", !.leaderId = None,
                                         !.age = 0, !.degraded = 0])

\* Mutation: the keepers are not told.
FollowKeepingLock(n, leader) ==
    [n EXCEPT !.role = "follower", !.leaderId = leader, !.age = 0]

\* Mutation: a fresh gate on every change of leader, lock or no lock.
FollowWithFreshGate(n, leader) ==
    FreshGate(CancelLock([n EXCEPT !.role = "follower", !.leaderId = leader,
                                   !.age = 0]))

\* Adopt a leader; the keepers stop, and the next Run() waits.
Follow(n, leader) ==
    LET f == [n EXCEPT !.role = "follower", !.leaderId = leader, !.age = 0]
    IN  IF n.lock THEN FreshGate(CancelLock(f)) ELSE f

\* Mutation: the old gate stays, closed.
ReleaseKeepingGate(n) ==
    [CancelLock(n) EXCEPT !.role = "follower", !.leaderId = None]

Release(n) ==
    FreshGate([CancelLock(n) EXCEPT !.role = "follower", !.leaderId = None])

----------------------------------------------------------------------------
(* Heartbeat(): the receiver's side.                                       *)

Conflict(n, sender) == n.leaderId \notin {None, sender} /\ sender > n.leaderId

Heartbeat(n, self, sender, isLeader) ==
    IF isLeader
    THEN IF Conflict(n, sender) THEN n
         ELSE IF sender = n.leaderId THEN [n EXCEPT !.age = 0]
         ELSE Follow(n, sender)
    ELSE IF n.leaderId = None /\ self < sender THEN BecomeLeader(n, self) ELSE n

\* The reply as its sender reads it: the leader named with an error, or None.
Reply(n, sender, isLeader) ==
    IF isLeader /\ Conflict(n, sender) THEN n.leaderId ELSE None

----------------------------------------------------------------------------
(* electionLoop: one goroutine, so its cases exclude each other.           *)

Idle(i) == up[i] = "up" /\ ~beat[i].on

Boot(i) ==
    /\ up[i] = "new"
    /\ up' = [up EXCEPT ![i] = "up"]
    /\ node' = [node EXCEPT ![i] =
          IF Peers(i) = {} THEN BecomeLeader(@, i) ELSE [@ EXCEPT !.role = "candidate"]]
    /\ due' = [due EXCEPT ![i] = {"elect"}]
    /\ UNCHANGED <<beat, faults>>

\* The election timer set at boot fires after one interval.
ElectionTimeout(i) ==
    /\ Idle(i)
    /\ "elect now" \in due[i]
    /\ due' = [due EXCEPT ![i] = @ \ {"elect now"}]
    /\ node' = [node EXCEPT ![i] =
          IF @.leaderId \in {None, i} THEN BecomeLeader(@, i) ELSE @]
    /\ UNCHANGED <<up, beat, faults>>

FailureCheck(i) ==
    /\ Idle(i)
    /\ "check" \in due[i]
    /\ due' = [due EXCEPT ![i] = @ \ {"check"}]
    /\ node' = [node EXCEPT ![i] =
          IF @.role = "follower" /\ @.leaderId # i /\ @.age > MissedThreshold
          THEN BecomeLeader(@, i) ELSE @]
    /\ UNCHANGED <<up, beat, faults>>

\* Mutation: a leader, who follows nobody, reports to nobody.
StartBeatOfFollower(i) ==
    /\ Idle(i)
    /\ "beat" \in due[i]
    /\ due' = [due EXCEPT ![i] = @ \ {"beat"}]
    /\ beat' = [beat EXCEPT ![i] =
          [Quiet EXCEPT !.on = TRUE, !.isLeader = node[i].role = "leader",
                        !.todo = IF node[i].role = "leader" THEN {} ELSE Peers(i)]]
    /\ UNCHANGED <<up, node, faults>>

\* heartbeatTick: the claim is read once, then sent to each peer in turn.
StartBeat(i) ==
    /\ Idle(i)
    /\ "beat" \in due[i]
    /\ due' = [due EXCEPT ![i] = @ \ {"beat"}]
    /\ beat' = [beat EXCEPT ![i] = [Quiet EXCEPT !.on = TRUE, !.todo = Peers(i),
                                       !.isLeader = node[i].role = "leader"]]
    /\ UNCHANGED <<up, node, faults>>

Calling(i, j) == up[i] = "up" /\ beat[i].reply = None /\ j \in beat[i].todo

\* The peer handles the call; the reply is on its way back.
Call(i, j) ==
    /\ Calling(i, j)
    /\ up[j] = "up"
    /\ node' = [node EXCEPT ![j] = Heartbeat(@, j, i, beat[i].isLeader)]
    /\ beat' = [beat EXCEPT ![i].todo = @ \ {j},
                            ![i].reply = Reply(node[j], i, beat[i].isLeader)]
    /\ UNCHANGED <<up, due, faults>>

\* The peer is not there, or the network drops the call before it is handled
\* or its reply after.
CallFails(i, j) ==
    /\ Calling(i, j)
    /\ IF up[j] # "up" THEN UNCHANGED <<node, faults>>
       ELSE /\ faults < MaxFaults
            /\ faults' = faults + 1
            /\ node' \in {node, [node EXCEPT ![j] =
                                    Heartbeat(@, j, i, beat[i].isLeader)]}
    /\ beat' = [beat EXCEPT ![i].todo = @ \ {j}, ![i].failures = @ + 1]
    /\ UNCHANGED <<up, due>>

\* A conflict names a leader; a lower one is followed.
ReadReply(i) ==
    /\ up[i] = "up"
    /\ beat[i].reply # None
    /\ node' = [node EXCEPT ![i] =
          IF beat[i].reply < i /\ @.role = "leader" THEN Follow(@, beat[i].reply)
                                                     ELSE @]
    /\ beat' = [beat EXCEPT ![i].reply = None]
    /\ UNCHANGED <<up, due, faults>>

\* Mutation: the count runs on and nobody resigns.
DegradeWithoutResigning(n, degradedTick) ==
    [n EXCEPT !.degraded = IF degradedTick THEN @ + 1 ELSE 0]

\* MaxDegraded degraded ticks in a row make the leader resign; an instance
\* that lost the lead during the tick keeps the count (saturated).
Degrade(n, degradedTick) ==
    LET count == IF ~degradedTick THEN 0
                 ELSE IF n.degraded < MaxDegraded THEN n.degraded + 1
                 ELSE MaxDegraded
        counted == [n EXCEPT !.degraded = count]
    IN  IF count >= MaxDegraded THEN Resign(counted) ELSE counted

\* Every call failed, or the probe of the chain RPC did.
DegradedTick(i, probeOk) ==
    \/ ~probeOk
    \/ Peers(i) # {} /\ beat[i].failures = Cardinality(Peers(i))

FinishBeat(i) ==
    /\ up[i] = "up"
    /\ beat[i].on /\ beat[i].todo = {} /\ beat[i].reply = None
    /\ beat' = [beat EXCEPT ![i] = Quiet]
    /\ \E probeOk \in BOOLEAN :
          /\ probeOk \/ faults < MaxFaults
          /\ faults' = IF probeOk THEN faults ELSE faults + 1
          /\ node' = [node EXCEPT ![i] =
                IF beat[i].isLeader /\ MaxDegraded > 0
                THEN Degrade(@, DegradedTick(i, probeOk)) ELSE @]
    /\ UNCHANGED <<up, due>>

\* The loop receives from yieldCh.
Yield(i) ==
    /\ Idle(i)
    /\ node[i].role = "leader"
    /\ faults < MaxFaults
    /\ faults' = faults + 1
    /\ node' = [node EXCEPT ![i] = Resign(@)]
    /\ UNCHANGED <<up, due, beat>>

----------------------------------------------------------------------------
(* The keeper loop of the runner: Run, LockCtx, keepers, Release, again.   *)

Latch(n) == IF n.gateClosed THEN "closed" ELSE "open"

KeeperStep(i, from, n) ==
    /\ up[i] = "up"
    /\ node[i].at = from
    /\ node' = [node EXCEPT ![i] = n]
    /\ UNCHANGED <<up, due, beat, faults>>

EnterRun(i) ==
    KeeperStep(i, "idle", [node[i] EXCEPT !.at = "run", !.latched = Latch(node[i])])

RunReturns(i) ==
    /\ node[i].latched = "closed"
    /\ KeeperStep(i, "run", [node[i] EXCEPT !.at = "lockctx", !.latched = "none"])

\* LockCtx() reads gateReady again, and by now it may be a fresh one.
EnterLockCtx(i) ==
    KeeperStep(i, "lockctx",
               [node[i] EXCEPT !.at = "lockwait", !.latched = Latch(node[i])])

LockCtxReturns(i) ==
    /\ node[i].latched = "closed"
    /\ KeeperStep(i, "lockwait",
          [node[i] EXCEPT !.at = "work", !.latched = "none",
                          !.ctx = IF node[i].lock THEN "live" ELSE "cancelled"])

\* Every keeper worker has seen its context end; only then release().
KeepersStopped(i) ==
    /\ node[i].ctx = "cancelled"
    /\ KeeperStep(i, "work", [Release(node[i]) EXCEPT !.at = "idle", !.ctx = "none"])

----------------------------------------------------------------------------
Crash(i) ==
    /\ i \in MayCrash
    /\ up[i] = "up"
    /\ up' = [up EXCEPT ![i] = "dead"]
    /\ node' = [node EXCEPT ![i] = NewNode]
    /\ due' = [due EXCEPT ![i] = {}]
    /\ beat' = [beat EXCEPT ![i] = Quiet]
    /\ UNCHANGED faults

\* One more heartbeat interval.
Tick ==
    /\ \A i \in Live : ~beat[i].on /\ due[i] \subseteq {"elect"}
    /\ due' = [i \in Instance |->
          IF i \notin Live THEN {}
          ELSE {"beat", "check"} \cup (IF "elect" \in due[i] THEN {"elect now"} ELSE {})]
    /\ node' = [i \in Instance |->
          IF node[i].age \in 0 .. MissedThreshold
          THEN [node[i] EXCEPT !.age = @ + 1] ELSE node[i]]
    /\ UNCHANGED <<up, beat, faults>>

Loop(i) ==
    \/ Boot(i) \/ ElectionTimeout(i) \/ FailureCheck(i)
    \/ StartBeat(i) \/ ReadReply(i) \/ FinishBeat(i)

Calls(i) == \E j \in Peers(i) : Call(i, j) \/ CallFails(i, j)

Keepers(i) ==
    EnterRun(i) \/ RunReturns(i) \/ EnterLockCtx(i) \/ LockCtxReturns(i)
    \/ KeepersStopped(i)

Next ==
    \/ \E i \in Instance : Loop(i) \/ Calls(i) \/ Keepers(i) \/ Yield(i) \/ Crash(i)
    \/ Tick

Spec == Init /\ [][Next]_vars

\* Time passes, and every goroutine of a live instance gets to run.
Fairness ==
    /\ WF_vars(Tick)
    /\ \A i \in Instance :
          WF_vars(Loop(i)) /\ WF_vars(Calls(i)) /\ WF_vars(Keepers(i))

FairSpec == Spec /\ Fairness

----------------------------------------------------------------------------
(* Properties                                                              *)

Beat == [on : BOOLEAN, isLeader : BOOLEAN, todo : SUBSET Instance,
         failures : Nat, reply : Instance \cup {None}]

TypeOK ==
    /\ up \in [Instance -> {"new", "up", "dead"}]
    /\ node \in [Instance -> Node]
    /\ due \in [Instance -> SUBSET {"beat", "check", "elect", "elect now"}]
    /\ beat \in [Instance -> Beat]
    /\ faults \in 0 .. MaxFaults

\* Keepers run under a live context only while their instance leads, whichever
\* of the five paths took the leadership away (Heartbeat, heartbeatTick,
\* resign, Release, becomeLeaderLocked).
KeepersRunOnlyForLeader ==
    \A i \in Instance :
        /\ node[i].lock <=> node[i].role = "leader"
        /\ node[i].ctx = "live" => node[i].lock
        /\ node[i].role = "leader" => node[i].leaderId = i

\* Nobody waits on a channel that was replaced while open: the comment in
\* Run() on "a reader that latched the old channel would wait on one nobody
\* will ever close".
NoOrphanWaiter == \A i \in Instance : node[i].latched # "orphan"

\* The next Run() blocks until this instance leads again: a gate is closed
\* exactly while there is a lock to hand out.
GateMatchesLock == \A i \in Instance : node[i].gateClosed <=> node[i].lock

Following(l) ==
    \A j \in Live : node[j].leaderId = l /\ (node[j].role = "leader" <=> j = l)

\* "Election converges without a consensus protocol": from some moment on one
\* live instance leads and every other one follows it, for good.
Converges == <>[](\E l \in Live : Following(l))

\* The same while nobody dies, whichever call or probe was lost on the way.
ConvergesIfAllLive == [](\A i \in Instance : up[i] # "dead") => Converges

\* "Only one instance holds leadership at a time" (the comment on Run).
OneLeader == Cardinality({i \in Live : node[i].role = "leader"}) <= 1
=============================================================================

------------------------------- MODULE RpcPool -------------------------------
(***************************************************************************)
(* The pool of RPC endpoints every worker calls the chain through: a       *)
(* sticky cursor, failover, backoff after a 429, the health loop that      *)
(* promotes the first endpoint that answers, log queries fanned out to all *)
(* and compared, and the broadcast of a transaction to the first endpoint  *)
(* that takes it.  Counters and callbacks of the health loop are left out. *)
(***************************************************************************)
EXTENDS Integers, FiniteSets, SequencesExt

CONSTANTS
    N,            \* endpoints
    Callers,      \* goroutines with a call under way
    Ops,          \* of "read", "logs", "send"
    Lagging,      \* endpoints that may not have the last block's logs
    Backoff,      \* rateLimitBackoff in ticks
    MaxChanges    \* bound: how often an endpoint's state changes or an answer is lost

VARIABLES
    state,     \* endpoint -> "ok", "down", "throttled"
    cur,       \* the sticky cursor
    limited,   \* endpoint -> ticks of backoff left
    caller,    \* the calls
    probe,     \* the health loop: what this cycle's probes said
    held,      \* the callers whose transaction some endpoint holds
    taken,     \* another transaction has used the nonce
    changes

vars == <<state, cur, limited, caller, probe, held, taken, changes>>

Endpoint == 0 .. N - 1
Idle == [pc |-> "idle", op |-> "none", start |-> 0, i |-> 0, logs |-> <<>>, asked |-> {},
         tried |-> FALSE, \* history
         result |-> "none"]

AllLogs == <<"log1", "log2">>

Init ==
    /\ state \in [Endpoint -> {"ok", "down"}]
    /\ cur = 0
    /\ limited = [e \in Endpoint |-> 0]
    /\ caller = [c \in Callers |-> Idle]
    /\ probe = <<>>
    /\ held = {} /\ taken = FALSE
    /\ changes = 0

At(c, pc) == caller[c].pc = pc
Set(c, r) == caller' = [caller EXCEPT ![c] = r]
Finish(c, result) == [caller[c] EXCEPT !.pc = "done", !.result = result]

----------------------------------------------------------------------------
(* The endpoints and the clock.                                            *)

Change(e) ==
    /\ changes < MaxChanges
    /\ changes' = changes + 1
    /\ \E s \in {"ok", "down", "throttled"} \ {state[e]} : state' = [state EXCEPT ![e] = s]
    /\ UNCHANGED <<cur, limited, caller, probe, held, taken>>

NonceTaken ==
    /\ "send" \in Ops /\ ~taken
    /\ taken' = TRUE
    /\ UNCHANGED <<state, cur, limited, caller, probe, held, changes>>

Tick ==
    /\ \E e \in Endpoint : limited[e] > 0
    /\ limited' = [e \in Endpoint |-> IF limited[e] > 0 THEN limited[e] - 1 ELSE 0]
    /\ UNCHANGED <<state, cur, caller, probe, held, taken, changes>>

----------------------------------------------------------------------------
(* call(): from the cursor on, once around.                                *)

Begin(c, op) ==
    /\ At(c, "idle")
    /\ Set(c, [Idle EXCEPT !.pc = IF op = "logs" /\ N >= 2 THEN "fan" ELSE "load", !.op = op])
    /\ held' = held \ {c}
    /\ UNCHANGED <<state, cur, limited, probe, taken, changes>>

LoadCursor(c) ==
    /\ At(c, "load")
    /\ Set(c, [caller[c] EXCEPT !.pc = "scan", !.start = cur])
    /\ limited' = IF \A e \in Endpoint : limited[e] > 0 THEN [e \in Endpoint |-> 0] ELSE limited
    /\ UNCHANGED <<state, cur, probe, held, taken, changes>>

Turn(c) == (caller[c].start + caller[c].i) % N

Scan(c) ==
    /\ At(c, "scan")
    /\ Set(c, CASE caller[c].i = N -> Finish(c, "failed")
                [] caller[c].i < N /\ limited[Turn(c)] > 0 -> [caller[c] EXCEPT !.i = @ + 1]
                [] OTHER -> [caller[c] EXCEPT !.pc = "ask"])
    /\ UNCHANGED <<state, cur, limited, probe, held, taken, changes>>

\* The caller's context ends.
GiveUp(c) ==
    /\ caller[c].pc \in {"scan", "fan"}
    /\ Set(c, Finish(c, "failed"))
    /\ UNCHANGED <<state, cur, limited, probe, held, taken, changes>>

LogsOf(e) == IF e \in Lagging THEN {AllLogs, Front(AllLogs)} ELSE {AllLogs}

SendAnswers(c) ==
    IF c \in held THEN {"already known", "accepted"}
    ELSE IF taken THEN {"nonce too low"} ELSE {"accepted"}

\* Mutation: somebody used the nonce, so it must have been this transaction.
AcceptedOrLow(answer) == answer \in {"accepted", "already known", "nonce too low"}

Accepted(answer) == answer \in {"accepted", "already known"}

\* What a caller learns from endpoint e.
Error == [ok |-> FALSE, limit |-> FALSE, logs |-> <<>>]
Answers(c, e) ==
    CASE state[e] = "down" -> {Error}
      [] state[e] = "throttled" -> {[Error EXCEPT !.limit = TRUE]}
      [] state[e] = "ok" /\ caller[c].op = "logs" ->
            {[ok |-> TRUE, limit |-> FALSE, logs |-> l] : l \in LogsOf(e)}
      [] state[e] = "ok" /\ caller[c].op = "send" ->
            {[Error EXCEPT !.ok = Accepted(a)] : a \in SendAnswers(c)}
      [] OTHER -> {[Error EXCEPT !.ok = TRUE]}

\* The endpoint takes a transaction whose nonce is free.
Takes(c, e) == caller[c].op = "send" /\ state[e] = "ok" /\ ~taken

\* The cursor moves only if no other call has moved it meanwhile.
Learns(c, answer) ==
    /\ Set(c, IF answer.ok THEN [Finish(c, "ok") EXCEPT !.logs = answer.logs, !.tried = TRUE]
              ELSE [caller[c] EXCEPT !.pc = "scan", !.i = @ + 1, !.tried = TRUE])
    /\ cur' = IF answer.ok /\ caller[c].i > 0 /\ cur = caller[c].start THEN Turn(c) ELSE cur
    /\ limited' = IF answer.limit THEN [limited EXCEPT ![Turn(c)] = Backoff] ELSE limited

Answer(c) ==
    /\ At(c, "ask")
    /\ \/ \E answer \in Answers(c, Turn(c)) : Learns(c, answer) /\ UNCHANGED changes
       \/ /\ state[Turn(c)] = "ok" /\ changes < MaxChanges \* the answer is lost
          /\ Learns(c, Error) /\ changes' = changes + 1
    /\ held' = IF Takes(c, Turn(c)) THEN held \cup {c} ELSE held
    /\ UNCHANGED <<state, probe, taken>>

Return(c) ==
    /\ At(c, "done")
    /\ Set(c, Idle)
    /\ UNCHANGED <<state, cur, limited, probe, held, taken, changes>>

----------------------------------------------------------------------------
(* concurrentFilterLogs: the first two answers, if they agree.             *)

Agree(a, b) == a = b

\* Answers come in any order; without two the call goes on one by one.
FanAnswer(c, e) ==
    /\ At(c, "fan") /\ e \notin caller[c].asked
    /\ \E o \in Answers(c, e) :
          LET first == caller[c].logs
              asked == caller[c].asked \cup {e}
              one == [caller[c] EXCEPT !.pc = "load", !.asked = {}, !.logs = <<>>]
          IN  Set(c, CASE o.ok /\ first # <<>> /\ Agree(first, o.logs) ->
                            [Finish(c, "agreed") EXCEPT !.asked = {}]
                       [] o.ok /\ first # <<>> /\ ~Agree(first, o.logs) -> one
                       [] ~(o.ok /\ first # <<>>) /\ asked = Endpoint -> one
                       [] OTHER -> [caller[c] EXCEPT !.asked = asked,
                                       !.logs = IF o.ok THEN o.logs ELSE @])
    /\ UNCHANGED <<state, cur, limited, probe, held, taken, changes>>

\* heavyTimeout passes before two have answered.
FanTimeout(c) ==
    /\ At(c, "fan")
    /\ Set(c, [caller[c] EXCEPT !.pc = "load", !.asked = {}, !.logs = <<>>])
    /\ UNCHANGED <<state, cur, limited, probe, held, taken, changes>>

----------------------------------------------------------------------------
(* healthLoop: every endpoint is asked, then the first that answered is    *)
(* promoted.                                                               *)

Probe ==
    /\ Len(probe) < N
    /\ probe' = Append(probe, state[Len(probe)] = "ok")
    /\ UNCHANGED <<state, cur, limited, caller, held, taken, changes>>

Promoted ==
    LET healthy == {e \in Endpoint : probe[e + 1]}
    IN  IF healthy = {} THEN cur ELSE CHOOSE e \in healthy : \A f \in healthy : e <= f

Promote ==
    /\ Len(probe) = N
    /\ cur' = Promoted
    /\ probe' = <<>>
    /\ UNCHANGED <<state, limited, caller, held, taken, changes>>

----------------------------------------------------------------------------
Call(c) ==
    \/ \E op \in Ops : Begin(c, op)
    \/ LoadCursor(c) \/ Scan(c) \/ Answer(c) \/ GiveUp(c) \/ Return(c)
    \/ FanTimeout(c) \/ \E e \in Endpoint : FanAnswer(c, e)

HealthLoop == Probe \/ Promote

Next == \/ \E e \in Endpoint : Change(e)
        \/ NonceTaken \/ Tick \/ HealthLoop
        \/ \E c \in Callers : Call(c)

Spec == Init /\ [][Next]_vars

Fairness == WF_vars(Tick) /\ WF_vars(HealthLoop) /\ \A c \in Callers : WF_vars(Call(c))
FairSpec == Spec /\ Fairness

----------------------------------------------------------------------------
TypeOK ==
    /\ state \in [Endpoint -> {"ok", "down", "throttled"}]
    /\ cur \in Endpoint /\ limited \in [Endpoint -> 0 .. Backoff]
    /\ \A c \in Callers : caller[c].i \in 0 .. N /\ caller[c].start \in Endpoint
    /\ Len(probe) <= N /\ held \subseteq Callers

\* SendTransaction: "nonce too low" is not success. A broadcast reported as done is
\* held by an endpoint, also when the first one's answer was lost.
SentIsHeld == \A c \in Callers :
    caller[c].op = "send" /\ caller[c].result = "ok" => c \in held

\* FilterLogs: of two endpoints that agree on a range at most one lags, so what they
\* agree on is complete; holds for at most one lagging endpoint that may be right.
AgreedIsComplete == \A c \in Callers :
    caller[c].result = "agreed" /\ Cardinality(Lagging) < 2 => caller[c].logs = AllLogs

\* Once the endpoints stay as they are, the cursor comes to rest on the first that
\* answers, whatever the calls in flight, their failovers and backoffs still do to it.
CursorSettles ==
    <>[](\A e \in Endpoint : state[e] = "ok" /\ (\A d \in 0 .. e - 1 : state[d] # "ok")
            => cur = e)

\* call(): "fail-open rather than returning an error without trying any endpoint".
NeverFailsUntried == \A c \in Callers :
    At(c, "scan") /\ caller[c].i = N => caller[c].tried

\* FilterLogs: "fall back to sequential failover for data integrity".
LogsComplete == \A c \in Callers :
    caller[c].op = "logs" /\ caller[c].result = "ok" => caller[c].logs = AllLogs
==============================================================================

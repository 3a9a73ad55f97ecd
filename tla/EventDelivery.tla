--------------------------- MODULE EventDelivery ---------------------------
(***************************************************************************)
(* How a marketplace event reaches a browser: the broadcaster numbers it   *)
(* and keeps it in a ring (backend/internal/sse/broadcaster.go), the        *)
(* dispatcher copies it to the socket, the socket's write pump coalesces    *)
(* frames and its read pump answers replay requests                         *)
(* (backend/internal/ws/handler.go), and the client detects gaps            *)
(* (app/src/lib/ws/client.ts).  One instance, one client; the connection    *)
(* has no channel filter, so it is sent every public event.                 *)
(***************************************************************************)
EXTENDS Integers, FiniteSets, SequencesExt

CONSTANTS
  Publishers,    \* goroutines that call Publish (watchers, observe, head tick)
  Client,        \* "browser": client.ts; "documented": the protocol's comments
  RingSize,      \* RingBufferSize, 1024 in the code
  EventsCap,     \* capacity of Broadcaster.events, 256
  SubCap,        \* capacity of a rawClient channel, 64
  SendCap,       \* capacity of Connection.send, 64
  MsgBurst,      \* wsConnMsgLimit, the token bucket, 20
  WireCap,       \* frames the transport holds before a write blocks
  MaxSeq,        \* bound: events published here
  MaxForeign,    \* bound: events bridged from a peer instance
  MaxSessions    \* bound: connections the client opens

ASSUME DeliveryAssumption ==
  /\ Client \in {"browser", "documented"}
  /\ {RingSize, EventsCap, SubCap, SendCap, MsgBurst, WireCap} \subseteq Nat \ {0}
  /\ {MaxSeq, MaxForeign, MaxSessions} \subseteq Nat

VARIABLES
  seq,       \* Broadcaster.seq
  pub,       \* per publisher: where its Publish call is, and its number
  ring,      \* the retained sequence numbers, oldest slot first
  events,    \* Broadcaster.events
  sub,       \* the dispatcher's channel
  foreign,   \* events received from the peer
  conn,      \* "closed", "accepted" (welcome queued), "open" (registered)
  sessions,  \* connections opened so far
  send,      \* Connection.send
  buf,       \* the write pump's pending batch
  wire,      \* frames on their way to the client
  up,        \* replay requests on their way to the server
  replies,   \* what the read pump has still to write for one request
  tokens,    \* Connection.msgTokens
  lastSeq,   \* MwSocket.lastSeq
  handled,   \* events the client's handlers have seen
  cut        \* history: an answer the client relied on was lost

publishVars == <<seq, pub, ring, foreign>>
serverVars  == <<send, buf, replies, tokens>>
clientVars  == <<lastSeq, handled, cut>>
vars == <<publishVars, events, sub, conn, sessions, serverVars, wire, up,
          clientVars>>

Here  == 1
Peer  == 2
Event(o, n) == [type |-> "event", origin |-> o, seq |-> n]
Control(t)  == [type |-> t, origin |-> Here, seq |-> 0]
ControlTypes == {"ack", "stale_state", "replay_complete", "unknown", "limited"}
Messages == {Event(o, n) : o \in {Here, Peer}, n \in 1 .. MaxSeq + MaxForeign}
              \cup {Control(t) : t \in ControlTypes}

\* A non-blocking channel send: the value is dropped when the channel is full.
Offer(channel, cap, v) == IF Len(channel) < cap THEN Append(channel, v)
                                                ELSE channel

----------------------------------------------------------------------------
(* The ring.  Its slots are in the order of the appends, which is not the   *)
(* order of the numbers when two Publish calls overlap.                     *)

RingAppend(r, n) == IF Len(r) < RingSize THEN Append(r, n)
                                         ELSE Append(Tail(r), n)

Evicted(from) == ring # <<>> /\ from < ring[1]

\* The numbers from "first" on, oldest slot first; out[i] is about i slots.
SlotsFrom(first) ==
  LET out[i \in 0 .. Len(ring)] ==
        CASE i = 0 -> <<>>
          [] i > 0 /\ ring[i] >= first -> Append(out[i - 1], ring[i])
          [] OTHER -> out[i - 1]
  IN  out[Len(ring)]

\* Mutation: the requested event itself is left out.
ReplayAfter(from) == SlotsFrom(from + 1)

Replay(from) == SlotsFrom(from)

----------------------------------------------------------------------------
(* Publish: number, ring, channel -- three steps of one call.               *)

AssignSeq(p) ==
  /\ pub[p].at = "idle" /\ seq < MaxSeq
  /\ seq' = seq + 1
  /\ pub' = [pub EXCEPT ![p] = [at |-> "ring", seq |-> seq + 1]]
  /\ UNCHANGED <<ring, foreign, events, sub, conn, sessions, serverVars, wire,
                 up, clientVars>>

Retain(p) ==
  /\ pub[p].at = "ring"
  /\ ring' = RingAppend(ring, pub[p].seq)
  /\ pub' = [pub EXCEPT ![p].at = "send"]
  /\ UNCHANGED <<seq, foreign, events, sub, conn, sessions, serverVars, wire,
                 up, clientVars>>

Enqueue(p) ==
  /\ pub[p].at = "send"
  /\ events' = Offer(events, EventsCap, Event(Here, pub[p].seq))
  /\ pub' = [pub EXCEPT ![p].at = "idle"]
  /\ UNCHANGED <<seq, ring, foreign, sub, conn, sessions, serverVars, wire, up,
                 clientVars>>

\* StreamEvents: a peer's event enters the local channel with the number its
\* own instance gave it, and never enters the local ring.
StreamEvent ==
  /\ foreign < MaxForeign
  /\ foreign' = foreign + 1
  /\ events' = Offer(events, EventsCap, Event(Peer, foreign + 1))
  /\ UNCHANGED <<seq, pub, ring, sub, conn, sessions, serverVars, wire, up,
                 clientVars>>

\* Broadcaster.loop
FanOut ==
  /\ events # <<>>
  /\ events' = Tail(events)
  /\ sub' = Offer(sub, SubCap, Head(events))
  /\ UNCHANGED <<publishVars, conn, sessions, serverVars, wire, up, clientVars>>

\* StartDispatcher's goroutine: one event to every registered connection.
Dispatch ==
  /\ sub # <<>>
  /\ sub' = Tail(sub)
  /\ send' = IF conn = "open" THEN Offer(send, SendCap, Head(sub)) ELSE send
  /\ UNCHANGED <<publishVars, events, conn, sessions, buf, replies, tokens,
                 wire, up, clientVars>>

----------------------------------------------------------------------------
(* A connection's life.                                                      *)

\* Mutation: the connection is registered before its welcome is queued.
AcceptRegistered ==
  /\ conn = "closed" /\ sessions < MaxSessions
  /\ conn' = "open"
  /\ sessions' = sessions + 1
  /\ send' = <<>>
  /\ replies' = <<Control("ack")>>
  /\ tokens' = MsgBurst
  /\ up' = IF lastSeq > 0 THEN <<lastSeq + 1>> ELSE <<>>
  /\ UNCHANGED <<publishVars, events, sub, buf, wire, clientVars>>

Accept ==
  /\ conn = "closed" /\ sessions < MaxSessions
  /\ conn' = "accepted"
  /\ sessions' = sessions + 1
  /\ send' = <<Control("ack")>>
  /\ tokens' = MsgBurst
  /\ up' = IF lastSeq > 0 THEN <<lastSeq + 1>> ELSE <<>>    \* onopen
  /\ UNCHANGED <<publishVars, events, sub, buf, replies, wire, clientVars>>

Register ==
  /\ conn = "accepted"
  /\ conn' = "open"
  /\ UNCHANGED <<publishVars, events, sub, sessions, serverVars, wire, up,
                 clientVars>>

Seen == {e.seq : e \in {e \in handled : e.origin = Here}}

\* The local events below one the client has handled that it has not handled.
Holes == {n \in 1 .. seq : /\ n \notin Seen
                           /\ \E a, b \in Seen : a < n /\ n < b}

\* Everything between the two ends is lost.  A client that was waiting for a
\* replay asks for what follows lastSeq when it reconnects, so its hole stays.
Close ==
  /\ conn = "open"
  /\ conn' = "closed"
  /\ send' = <<>> /\ buf' = <<>> /\ replies' = <<>> /\ wire' = <<>> /\ up' = <<>>
  /\ cut' = (cut \/ Holes # {})
  /\ UNCHANGED <<publishVars, events, sub, sessions, tokens, lastSeq, handled>>

----------------------------------------------------------------------------
(* writePump: batch what is queued, flush the batch as one frame.            *)

Coalesce ==
  /\ conn = "open" /\ send # <<>>
  /\ buf' = Append(buf, Head(send))
  /\ send' = Tail(send)
  /\ UNCHANGED <<publishVars, events, sub, conn, sessions, replies, tokens,
                 wire, up, clientVars>>

FlushBuf ==
  /\ conn = "open" /\ buf # <<>> /\ Len(wire) < WireCap
  /\ wire' = Append(wire, buf)
  /\ buf' = <<>>
  /\ UNCHANGED <<publishVars, events, sub, conn, sessions, send, replies,
                 tokens, up, clientVars>>

----------------------------------------------------------------------------
(* readPump.  The browser asks with a top-level message of type "retry",     *)
(* which the switch has no case for; a client that wraps the request in an   *)
(* action reaches handleRetry.                                               *)

Answer(from) ==
  CASE tokens = 0 -> <<Control("limited")>>
    [] tokens > 0 /\ Client = "browser" -> <<Control("unknown")>>
    [] tokens > 0 /\ Client = "documented" /\ Evicted(from) ->
         <<Control("stale_state")>>
    [] OTHER -> [i \in 1 .. Len(Replay(from)) |-> Event(Here, Replay(from)[i])]
                  \o <<Control("replay_complete")>>

ReadRequest ==
  /\ conn = "open" /\ up # <<>> /\ replies = <<>>
  /\ up' = Tail(up)
  /\ replies' = Answer(Head(up))
  /\ tokens' = IF tokens > 0 THEN tokens - 1 ELSE 0
  /\ cut' = (cut \/ tokens = 0)
  /\ UNCHANGED <<publishVars, events, sub, conn, sessions, send, buf, wire,
                 lastSeq, handled>>

\* writeJSON: a reply is dropped when the connection's channel is full.
WriteReply ==
  /\ replies # <<>>
  /\ replies' = Tail(replies)
  /\ send' = Offer(send, SendCap, Head(replies))
  /\ cut' = (cut \/ Len(send) = SendCap)
  /\ UNCHANGED <<publishVars, events, sub, conn, sessions, buf, tokens, wire,
                 up, lastSeq, handled>>

\* refillTokens, once a second
RefillTokens ==
  /\ conn = "open" /\ tokens < MsgBurst
  /\ tokens' = MsgBurst
  /\ UNCHANGED <<publishVars, events, sub, conn, sessions, send, buf, replies,
                 wire, up, clientVars>>

----------------------------------------------------------------------------
(* onFrame.  The browser parses a whole frame as one message, so a frame of  *)
(* several lines is discarded; every control frame is ignored.  A client     *)
(* that follows the documentation splits the frame at line ends, and         *)
(* refetches the current state when it is told "stale_state".                *)

Readable(frame) == Client = "documented" \/ Len(frame) = 1

Later(a, b) == IF a > b THEN a ELSE b

\* Mutation: a gap of a single event is not noticed.
MissesEventsLate(c, m) == c.last > 0 /\ m.seq > c.last + 2

MissesEvents(c, m) == c.last > 0 /\ m.seq > c.last + 1

OnMessage(c, m) ==
  CASE m.type = "event" ->
         [last |-> Later(m.seq, c.last),
          seen |-> c.seen \cup {m},
          asks |-> IF MissesEvents(c, m) THEN Append(c.asks, c.last + 1)
                                         ELSE c.asks]
    [] m.type = "stale_state" /\ Client = "documented" ->
         [c EXCEPT !.seen = @ \cup {Event(Here, n) : n \in 1 .. seq}]
    [] OTHER -> c

\* The lines of a frame, one after the other.
OnLines(frame, client) ==
  LET after[i \in 0 .. Len(frame)] ==
        IF i = 0 THEN client ELSE OnMessage(after[i - 1], frame[i])
  IN  after[Len(frame)]

OnFrame ==
  /\ wire # <<>>
  /\ LET before == [last |-> lastSeq, seen |-> handled, asks |-> up]
         after  == IF Readable(Head(wire))
                   THEN OnLines(Head(wire), before) ELSE before
     IN  /\ lastSeq' = after.last
         /\ handled' = after.seen
         /\ up' = after.asks
  /\ wire' = Tail(wire)
  /\ UNCHANGED <<publishVars, events, sub, conn, sessions, serverVars, cut>>

----------------------------------------------------------------------------
Init ==
  /\ seq = 0 /\ ring = <<>> /\ foreign = 0
  /\ pub = [p \in Publishers |-> [at |-> "idle", seq |-> 0]]
  /\ events = <<>> /\ sub = <<>>
  /\ conn = "closed" /\ sessions = 0
  /\ send = <<>> /\ buf = <<>> /\ replies = <<>> /\ tokens = MsgBurst
  /\ wire = <<>> /\ up = <<>>
  /\ lastSeq = 0 /\ handled = {} /\ cut = FALSE

Publish(p) == AssignSeq(p) \/ Retain(p) \/ Enqueue(p)

WritePump == Coalesce \/ FlushBuf
ReadPump  == ReadRequest \/ WriteReply

Next ==
  \/ \E p \in Publishers : Publish(p)
  \/ StreamEvent
  \/ FanOut
  \/ Dispatch
  \/ Accept
  \/ Register
  \/ Close
  \/ WritePump
  \/ ReadPump
  \/ RefillTokens
  \/ OnFrame

Spec == Init /\ [][Next]_vars

\* Goroutines run, the timer fires and the client reads; nobody has to
\* publish, connect or close.
Fairness ==
  /\ WF_vars(FanOut)
  /\ WF_vars(Dispatch)
  /\ WF_vars(Register)
  /\ WF_vars(Coalesce)
  /\ WF_vars(FlushBuf)
  /\ WF_vars(ReadPump)
  /\ WF_vars(OnFrame)

FairSpec == Spec /\ Fairness

----------------------------------------------------------------------------
\* Every variable has its type and every channel is within its capacity.
TypeOK ==
  /\ seq \in 0 .. MaxSeq
  /\ pub \in [Publishers -> [at : {"idle", "ring", "send"}, seq : 0 .. MaxSeq]]
  /\ ring \in Seq(1 .. MaxSeq) /\ Len(ring) <= RingSize
  /\ foreign \in 0 .. MaxForeign
  /\ events \in Seq(Messages) /\ Len(events) <= EventsCap
  /\ sub \in Seq(Messages) /\ Len(sub) <= SubCap
  /\ send \in Seq(Messages) /\ Len(send) <= SendCap
  /\ buf \in Seq(Messages) /\ replies \in Seq(Messages)
  /\ conn \in {"closed", "accepted", "open"}
  /\ sessions \in 0 .. MaxSessions
  /\ wire \in Seq(Seq(Messages)) /\ Len(wire) <= WireCap
  /\ up \in Seq(1 .. MaxSeq + MaxForeign + 1)
  /\ tokens \in 0 .. MsgBurst
  /\ lastSeq \in 0 .. MaxSeq + MaxForeign
  /\ handled \subseteq Messages
  /\ cut \in BOOLEAN

\* Numbers given out whose event is not in the ring yet.
Unretained == {pub[p].seq : p \in {p \in Publishers : pub[p].at = "ring"}}

\* Replay tells the truth about the ring: when it answers with events it
\* leaves out none from the requested number on, and it says "evicted" only of
\* an event that is no longer retained (broadcaster.go, Replay).
ReplayCoversRange ==
  \A from \in 1 .. seq :
    IF Evicted(from)
    THEN from \notin ToSet(ring)
    ELSE \A n \in (from .. seq) \ Unretained : n \in ToSet(Replay(from))

\* The welcome is queued before the connection is registered, so nothing the
\* dispatcher or the read pump writes is ever ahead of it (HandleWebSocket).
WelcomeFirst ==
  /\ \A i \in DOMAIN wire : \A j \in DOMAIN wire[i] :
        wire[i][j].type = "ack" => i = 1 /\ j = 1
  /\ \A j \in DOMAIN buf : buf[j].type = "ack" => j = 1 /\ wire = <<>>
  /\ \A j \in DOMAIN send :
        send[j].type = "ack" => j = 1 /\ buf = <<>> /\ wire = <<>>

\* Nothing is on its way anywhere.
Quiet ==
  /\ conn = "open"
  /\ \A p \in Publishers : pub[p].at = "idle"
  /\ events = <<>> /\ sub = <<>>
  /\ send = <<>> /\ buf = <<>> /\ replies = <<>>
  /\ wire = <<>> /\ up = <<>>

\* A client that follows the protocol ends with a hole in what it handled only
\* if an answer to one of its replay requests was itself lost: dropped at the
\* full channel, refused by the rate limit, or cut off by a disconnect.
NoSilentHole == Quiet /\ ~cut => Holes = {}

\* What does hold of it: as long as the peer sent nothing (broadcaster.go,
\* handler.go handleRetry, client.ts onFrame).
HolesOnlyWhenCut == foreign = 0 => NoSilentHole

\* "Slow clients still drop; they recover by requesting replay on the next
\* event they receive": once nothing is on its way, no event lies between two
\* handled ones that was not handled (broadcaster.go, design properties).
SlowClientsRecover == Quiet => Holes = {}

\* An event the dispatcher managed to queue on a connection is handled by the
\* client, unless the connection closes first: coalescing several messages into
\* a frame loses none of them (handler.go, writePump).
AdmittedIsHandled ==
  \A n \in 1 .. MaxSeq :
    (\E i \in DOMAIN send : send[i] = Event(Here, n))
       ~> (Event(Here, n) \in handled \/ conn = "closed")

=============================================================================

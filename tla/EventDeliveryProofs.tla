------------------------ MODULE EventDeliveryProofs ------------------------
(***************************************************************************)
(* Proofs about EventDelivery for any number of publishers, a ring and      *)
(* channels of any capacity, and any number of events and connections.      *)
(***************************************************************************)
EXTENDS EventDelivery, SequenceTheorems, WellFoundedInduction, TLAPS

\* The constants' types, one by one.
LEMMA Capacities ==
    /\ RingSize \in Nat /\ RingSize # 0 /\ EventsCap \in Nat /\ EventsCap # 0
    /\ SubCap \in Nat /\ SubCap # 0 /\ SendCap \in Nat /\ SendCap # 0
    /\ MsgBurst \in Nat /\ MsgBurst # 0 /\ WireCap \in Nat /\ WireCap # 0
    /\ MaxSeq \in Nat /\ MaxForeign \in Nat /\ MaxSessions \in Nat
  BY DeliveryAssumption

USE Capacities

----------------------------------------------------------------------------
(* Recursive functions                                                     *)

\* A set of naturals that holds zero and every successor is Nat: induction with
\* a set in the place of a predicate, from the well-foundedness of <.
LEMMA NatInductionSet ==
    ASSUME NEW P \in SUBSET Nat, 0 \in P, \A n \in P : n + 1 \in P
    PROVE  P = Nat
<1>1. SUFFICES ASSUME Nat \ P # {} PROVE FALSE
  OBVIOUS
<1>2. \A m, n \in Nat : m < n => <<m, n>> \in OpToRel(<, Nat)
  BY Zenon DEF OpToRel
<1>3. \E n \in Nat \ P : \A m \in Nat \ P : ~ (m < n)
  <2>1. Nat \ P \subseteq Nat
    OBVIOUS
  <2>2. \E n \in Nat \ P : \A m \in Nat \ P : ~ (<<m, n>> \in OpToRel(<, Nat))
    BY <1>1, <2>1, NatLessThanWellFounded, WFMin, Zenon
  <2> QED
    BY <1>2, <2>2, Zenon
<1>4. PICK n \in Nat \ P : \A m \in Nat \ P : ~ (m < n)
  BY <1>3
<1>5. n # 0 /\ n - 1 \in Nat
  BY <1>4
<1> QED
  BY <1>4, <1>5

\* h records n steps from d.
Steps(h, n, D, d, step) ==
    /\ h \in [0 .. n -> D]
    /\ h[0] = d
    /\ \A i \in 1 .. n : h[i] = step[i][h[i - 1]]

\* A value can be stepped any number of times, with every stage on record.
LEMMA StepsExist ==
    ASSUME NEW n, NEW D, NEW d, NEW step,
           n \in Nat, d \in D, step \in [1 .. n -> [D -> D]]
    PROVE  \E h : Steps(h, n, D, d, step)
<1> DEFINE Good(h, k) == /\ h[0] = d
                         /\ \A i \in 1 .. k : h[i] = step[i][h[i - 1]]
           P == {k \in Nat : k <= n => \E h \in [0 .. k -> D] : Good(h, k)}
<1>1. 0 \in P
  <2>1. [i \in 0 .. 0 |-> d] \in [0 .. 0 -> D] /\ Good([i \in 0 .. 0 |-> d], 0)
    OBVIOUS
  <2> QED
    BY <2>1
<1>2. ASSUME NEW k \in P PROVE k + 1 \in P
  <2>0. k \in Nat /\ (k <= n => \E h \in [0 .. k -> D] : Good(h, k))
    OBVIOUS
  <2> SUFFICES ASSUME k + 1 <= n
               PROVE  \E h \in [0 .. k + 1 -> D] : Good(h, k + 1)
    BY <2>0
  <2>1. PICK g \in [0 .. k -> D] : Good(g, k)
    BY <2>0
  <2>2. k \in Nat /\ k + 1 \in 1 .. n /\ g[k] \in D
    BY <2>0, <2>1
  <2> DEFINE h == [i \in 0 .. k + 1 |-> IF i = k + 1 THEN step[k + 1][g[k]] ELSE g[i]]
  <2>3. h \in [0 .. k + 1 -> D]
    BY <2>2
  <2>4. h[0] = d
    BY <2>1, <2>2
  <2>5. ASSUME NEW i \in 1 .. k + 1 PROVE h[i] = step[i][h[i - 1]]
    <3>1. h[i - 1] = g[i - 1]
      BY <2>2, <2>5
    <3>2. CASE i = k + 1
      <4>1. h[k + 1] = step[k + 1][g[k]] /\ i - 1 = k
        BY <2>2, <3>2
      <4> HIDE DEF h
      <4> QED
        BY <3>1, <3>2, <4>1
    <3>3. CASE i # k + 1
      BY <3>1, <3>3, <2>1, <2>2, <2>5
    <3> QED
      BY <3>2, <3>3
  <2> QED
    BY <2>3, <2>4, <2>5
<1>3. P = Nat
  <2> HIDE DEF P
  <2>1. P \in SUBSET Nat
    BY DEF P
  <2> QED
    BY <2>1, <1>1, <1>2, NatInductionSet
<1>4. n \in P
  BY <1>3
<1> QED
  BY <1>4 DEF P, Steps

----------------------------------------------------------------------------
(* Channels                                                                *)

\* What sending does to a channel.
LEMMA Sending ==
    ASSUME NEW S, NEW c \in Seq(S), NEW v \in S
    PROVE  /\ Append(c, v) \in Seq(S)
           /\ Len(c) \in Nat /\ Len(Append(c, v)) = Len(c) + 1
           /\ Append(c, v)[Len(c) + 1] = v
           /\ \A i \in 1 .. Len(c) : Append(c, v)[i] = c[i]
           /\ 1 .. Len(c) + 1 = (1 .. Len(c)) \cup {Len(c) + 1}
           /\ ToSet(Append(c, v)) = ToSet(c) \cup {v}
<1>1. /\ Append(c, v) \in Seq(S)
      /\ Len(c) \in Nat /\ Len(Append(c, v)) = Len(c) + 1
      /\ Append(c, v)[Len(c) + 1] = v
      /\ \A i \in 1 .. Len(c) : Append(c, v)[i] = c[i]
  OBVIOUS
<1>2. 1 .. Len(c) + 1 = (1 .. Len(c)) \cup {Len(c) + 1}
  BY <1>1
<1>3. DOMAIN Append(c, v) = DOMAIN c \cup {Len(c) + 1} /\ DOMAIN c = 1 .. Len(c)
  BY <1>1, <1>2
<1>4. ToSet(Append(c, v)) = ToSet(c) \cup {v}
  BY <1>1, <1>3 DEF ToSet
<1> QED
  BY <1>1, <1>2, <1>4

\* What receiving does to a channel.
LEMMA Receiving ==
    ASSUME NEW S, NEW c \in Seq(S), c # <<>>
    PROVE  /\ Tail(c) \in Seq(S) /\ Head(c) \in S /\ Head(c) = c[1]
           /\ Len(c) \in Nat \ {0} /\ Len(Tail(c)) = Len(c) - 1
           /\ \A i \in 1 .. Len(Tail(c)) : Tail(c)[i] = c[i + 1]
           /\ ToSet(c) = {Head(c)} \cup ToSet(Tail(c))
<1>1. /\ Tail(c) \in Seq(S) /\ Head(c) \in S /\ Head(c) = c[1]
      /\ Len(c) \in Nat \ {0} /\ Len(Tail(c)) = Len(c) - 1
      /\ \A i \in 1 .. Len(Tail(c)) : Tail(c)[i] = c[i + 1]
  OBVIOUS
<1>2. DOMAIN c = 1 .. Len(c) /\ DOMAIN Tail(c) = 1 .. Len(Tail(c))
  BY <1>1
<1>3. ASSUME NEW i \in DOMAIN c PROVE c[i] \in {Head(c)} \cup ToSet(Tail(c))
  <2>1. CASE i = 1
    BY <1>1, <2>1
  <2>2. CASE i # 1
    <3>1. i - 1 \in DOMAIN Tail(c) /\ (i - 1) + 1 = i
      BY <1>1, <1>2, <2>2
    <3>2. Tail(c)[i - 1] = c[i]
      BY <1>1, <1>2, <3>1
    <3> QED
      BY <3>1, <3>2 DEF ToSet
  <2> QED
    BY <2>1, <2>2
<1>4. ASSUME NEW i \in DOMAIN Tail(c) PROVE Tail(c)[i] \in ToSet(c)
  <2>1. i + 1 \in DOMAIN c
    BY <1>1, <1>2
  <2> QED
    BY <1>1, <1>2, <2>1 DEF ToSet
<1>5. Head(c) \in ToSet(c)
  BY <1>1, <1>2 DEF ToSet
<1> QED
  BY <1>1, <1>3, <1>4, <1>5 DEF ToSet

\* A send that may find the channel full.
LEMMA Offering ==
    ASSUME NEW S, NEW c \in Seq(S), NEW v \in S, NEW cap \in Nat, Len(c) <= cap
    PROVE  /\ Offer(c, cap, v) \in Seq(S) /\ Len(Offer(c, cap, v)) <= cap
           /\ ToSet(c) \subseteq ToSet(Offer(c, cap, v))
           /\ ToSet(Offer(c, cap, v)) \subseteq ToSet(c) \cup {v}
           /\ Offer(c, cap, v) \in {c, Append(c, v)}
           /\ Len(c) < cap => Offer(c, cap, v) = Append(c, v)
  BY Sending DEF Offer

----------------------------------------------------------------------------
(* Messages                                                                *)

\* An event is its origin and its number, and no control message is an event.
LEMMA MessageShapes ==
    /\ \A o \in {Here, Peer}, n \in 1 .. MaxSeq + MaxForeign :
          /\ Event(o, n) \in Messages /\ Event(o, n).type = "event"
          /\ Event(o, n).origin = o /\ Event(o, n).seq = n
    /\ \A t \in ControlTypes : Control(t) \in Messages /\ Control(t).type = t
    /\ "event" \notin ControlTypes
    /\ \A m \in Messages :
          /\ m.type = "event" =>
                /\ m = Event(m.origin, m.seq)
                /\ m.origin \in {Here, Peer} /\ m.seq \in 1 .. MaxSeq + MaxForeign
          /\ m.type # "event" => m.type \in ControlTypes /\ m = Control(m.type)
<1>1. \A o \in {Here, Peer}, n \in 1 .. MaxSeq + MaxForeign :
         /\ Event(o, n) \in Messages /\ Event(o, n).type = "event"
         /\ Event(o, n).origin = o /\ Event(o, n).seq = n
  BY DEF Messages, Event
<1>2. \A t \in ControlTypes : Control(t) \in Messages /\ Control(t).type = t
  BY DEF Messages, Control
<1>3. "event" \notin ControlTypes
  BY DEF ControlTypes
<1>4. ASSUME NEW m \in Messages
      PROVE  /\ m.type = "event" =>
                  /\ m = Event(m.origin, m.seq)
                  /\ m.origin \in {Here, Peer} /\ m.seq \in 1 .. MaxSeq + MaxForeign
             /\ m.type # "event" => m.type \in ControlTypes /\ m = Control(m.type)
  <2>1. CASE \E o \in {Here, Peer}, n \in 1 .. MaxSeq + MaxForeign : m = Event(o, n)
    BY <1>1, <2>1
  <2>2. CASE \E t \in ControlTypes : m = Control(t)
    BY <1>2, <1>3, <2>2
  <2> QED
    BY <2>1, <2>2 DEF Messages
<1> QED
  BY <1>1, <1>2, <1>3, <1>4

----------------------------------------------------------------------------
(* The ring's answer                                                       *)

\* SlotsFrom, stage by stage.
LEMMA SlotsFromStages ==
    ASSUME ring \in Seq(Int), NEW first \in Int
    PROVE  \E out \in [0 .. Len(ring) -> Seq(Int)] :
              /\ out[0] = <<>>
              /\ \A i \in 1 .. Len(ring) :
                    out[i] = IF ring[i] >= first THEN Append(out[i - 1], ring[i])
                                                 ELSE out[i - 1]
              /\ SlotsFrom(first) = out[Len(ring)]
<1> DEFINE n == Len(ring)
           Body(out) == [i \in 0 .. n |->
              CASE i = 0 -> <<>>
                [] i > 0 /\ ring[i] >= first -> Append(out[i - 1], ring[i])
                [] OTHER -> out[i - 1]]
           step == [i \in 1 .. n |-> [t \in Seq(Int) |->
                      IF ring[i] >= first THEN Append(t, ring[i]) ELSE t]]
           it == CHOOSE out : out = Body(out)
<1>1. n \in Nat /\ \A i \in 1 .. n : ring[i] \in Int
  OBVIOUS
<1>2. step \in [1 .. n -> [Seq(Int) -> Seq(Int)]]
  BY <1>1
<1>3. <<>> \in Seq(Int)
  OBVIOUS
<1>4. PICK h : Steps(h, n, Seq(Int), <<>>, step)
  <2> HIDE DEF step, n
  <2> QED
    BY <1>1, <1>2, <1>3, StepsExist, Zenon
<1>5. h \in [0 .. n -> Seq(Int)] /\ h[0] = <<>>
  BY <1>4 DEF Steps
<1>6. ASSUME NEW i \in 1 .. n
      PROVE  h[i] = IF ring[i] >= first THEN Append(h[i - 1], ring[i]) ELSE h[i - 1]
  <2>1. h[i - 1] \in Seq(Int)
    <3>1. i - 1 \in 0 .. n
      BY <1>1
    <3> QED
      BY <3>1, <1>5
  <2>2. h[i] = step[i][h[i - 1]]
    <3> HIDE DEF step
    <3> QED
      BY <1>4 DEF Steps
  <2> QED
    BY <2>1, <2>2
<1>7. h = Body(h)
  <2>1. ASSUME NEW i \in 0 .. n PROVE h[i] = Body(h)[i]
    <3>1. CASE i = 0
      BY <1>5, <3>1
    <3>2. CASE i # 0
      <4>1. i \in 1 .. n /\ i > 0
        BY <1>1, <3>2
      <4> QED
        BY <4>1, <1>6
    <3> QED
      BY <3>1, <3>2
  <2> QED
    BY <2>1, <1>5
<1>8. it = Body(it)
  BY <1>7
<1>9. SlotsFrom(first) = it[n]
  BY DEF SlotsFrom
<1> HIDE DEF it
<1>10. it[0] = <<>>
  BY <1>1, <1>8
<1>11. ASSUME NEW i \in 1 .. n
       PROVE  it[i] = IF ring[i] >= first THEN Append(it[i - 1], ring[i]) ELSE it[i - 1]
  <2>1. i \in 0 .. n /\ i > 0 /\ i # 0
    BY <1>1
  <2>2. it[i] = Body(it)[i]
    BY <1>8
  <2> QED
    BY <2>1, <2>2
<1>12. it \in [0 .. n -> Seq(Int)]
  <2>1. ASSUME NEW k \in Nat, k <= n => it[k] = h[k], k + 1 <= n
        PROVE  it[k + 1] = h[k + 1]
    <3>1. k + 1 \in 1 .. n /\ (k + 1) - 1 = k /\ it[k] = h[k]
      BY <1>1, <2>1
    <3> QED
      BY <3>1, <1>6, <1>11
  <2> DEFINE P == {k \in Nat : k <= n => it[k] = h[k]}
  <2>2. P = Nat
    <3>1. P \in SUBSET Nat /\ 0 \in P
      BY <1>5, <1>10
    <3>2. \A k \in P : k + 1 \in P
      BY <2>1
    <3> HIDE DEF P
    <3> QED
      BY <3>1, <3>2, NatInductionSet
  <2>3. \A k \in 0 .. n : it[k] = h[k]
    <3> SUFFICES ASSUME NEW k \in 0 .. n PROVE it[k] = h[k]
      OBVIOUS
    <3>1. k \in P
      BY <1>1, <2>2
    <3> QED
      BY <3>1, <1>1
  <2>4. it = [i \in 0 .. n |-> Body(it)[i]]
    BY <1>8
  <2> HIDE DEF Body
  <2> QED
    BY <2>3, <2>4, <1>5
<1> QED
  BY <1>9, <1>10, <1>11, <1>12

\* A replay holds exactly the ring's numbers from the requested one on.
LEMMA SlotsFromHolds ==
    ASSUME ring \in Seq(Int), NEW first \in Int
    PROVE  /\ SlotsFrom(first) \in Seq(Int)
           /\ \A x : x \in ToSet(SlotsFrom(first)) <=> x \in ToSet(ring) /\ x >= first
<1> DEFINE n == Len(ring)
<1>1. PICK out \in [0 .. n -> Seq(Int)] :
         /\ out[0] = <<>>
         /\ \A i \in 1 .. n : out[i] = IF ring[i] >= first THEN Append(out[i - 1], ring[i])
                                                           ELSE out[i - 1]
         /\ SlotsFrom(first) = out[n]
  BY SlotsFromStages
<1>2. n \in Nat /\ \A i \in 1 .. n : ring[i] \in Int
  OBVIOUS
<1> DEFINE Among(x, k) == \E i \in 1 .. k : x = ring[i] /\ x >= first
           Found(x, k) == \E j \in 1 .. Len(out[k]) : x = out[k][j]
           P == {k \in Nat : k <= n => \A x : Found(x, k) <=> Among(x, k)}
<1>3. 0 \in P
  BY <1>1
<1>4. ASSUME NEW k \in P PROVE k + 1 \in P
  <2>1. k \in Nat /\ (k <= n => \A x : Found(x, k) <=> Among(x, k))
    OBVIOUS
  <2> SUFFICES ASSUME k + 1 <= n, NEW x PROVE Found(x, k + 1) <=> Among(x, k + 1)
    BY <2>1
  <2>2. /\ k + 1 \in 1 .. n /\ (k + 1) - 1 = k /\ k \in 0 .. n
        /\ out[k] \in Seq(Int) /\ ring[k + 1] \in Int
    <3>1. k + 1 \in 1 .. n /\ (k + 1) - 1 = k /\ k \in 0 .. n
      BY <1>2, <2>1
    <3> HIDE DEF n
    <3> QED
      BY <3>1, <1>2
  <2>3. Found(x, k) <=> Among(x, k)
    BY <2>1, <2>2, <1>2
  <2>4. Among(x, k + 1) <=> Among(x, k) \/ (x = ring[k + 1] /\ x >= first)
    <3>1. 1 .. k + 1 = (1 .. k) \cup {k + 1}
      BY <2>1
    <3> QED
      BY <3>1
  <2>5. CASE ring[k + 1] >= first
    <3>1. out[k + 1] = Append(out[k], ring[k + 1])
      BY <1>1, <2>2, <2>5
    <3>2. Found(x, k + 1) <=> Found(x, k) \/ x = ring[k + 1]
      <4>1. /\ Len(out[k + 1]) = Len(out[k]) + 1 /\ Len(out[k]) \in Nat
            /\ out[k + 1][Len(out[k]) + 1] = ring[k + 1]
            /\ \A j \in 1 .. Len(out[k]) : out[k + 1][j] = out[k][j]
        BY <2>2, <3>1, Sending
      <4>2. 1 .. Len(out[k]) + 1 = (1 .. Len(out[k])) \cup {Len(out[k]) + 1}
        BY <2>2, Sending
      <4>3. Found(x, k + 1) <=>
               \E j \in (1 .. Len(out[k])) \cup {Len(out[k]) + 1} : x = out[k + 1][j]
        BY <4>1, <4>2
      <4> QED
        BY <4>1, <4>3
    <3> HIDE DEF Found, Among
    <3> QED
      BY <2>3, <2>4, <2>5, <3>2
  <2>6. CASE ~ (ring[k + 1] >= first)
    <3>1. out[k + 1] = out[k]
      BY <1>1, <2>2, <2>6
    <3>2. Found(x, k + 1) <=> Found(x, k)
      BY <3>1
    <3> HIDE DEF Found, Among
    <3> QED
      BY <2>3, <2>4, <2>6, <3>2
  <2> QED
    BY <2>5, <2>6
<1>5. n \in P
  <2> HIDE DEF P
  <2>1. P \in SUBSET Nat
    BY DEF P
  <2> QED
    BY <2>1, <1>2, <1>3, <1>4, NatInductionSet
<1>6. ASSUME NEW x PROVE x \in ToSet(out[n]) <=> x \in ToSet(ring) /\ x >= first
  <2>1. Found(x, n) <=> Among(x, n)
    <3> HIDE DEF Found, Among
    <3> QED
      BY <1>5, <1>2
  <2>2. out[n] \in Seq(Int)
    BY <1>1, <1>2
  <2>3. x \in ToSet(out[n]) <=> Found(x, n)
    BY <2>2 DEF ToSet
  <2>4. x \in ToSet(ring) /\ x >= first <=> Among(x, n)
    BY DEF ToSet
  <2> QED
    BY <2>1, <2>3, <2>4
<1> QED
  BY <1>1, <1>2, <1>6

----------------------------------------------------------------------------
(* The client                                                              *)

\* What onFrame keeps between two lines.
ClientState == [last : 0 .. MaxSeq + MaxForeign,
                seen : SUBSET Messages,
                asks : Seq(1 .. MaxSeq + MaxForeign + 1)]

\* What one line does to the client's fields.
LEMMA OnMessageFields ==
    ASSUME seq \in 0 .. MaxSeq, NEW c \in ClientState, NEW m \in Messages
    PROVE  /\ OnMessage(c, m) \in ClientState
           /\ m.type = "event" =>
                /\ OnMessage(c, m).last = Later(m.seq, c.last)
                /\ OnMessage(c, m).seen = c.seen \cup {m}
                /\ OnMessage(c, m).asks = IF MissesEvents(c, m)
                                          THEN Append(c.asks, c.last + 1) ELSE c.asks
           /\ m.type = "stale_state" /\ Client = "documented" =>
                /\ OnMessage(c, m).last = c.last /\ OnMessage(c, m).asks = c.asks
                /\ OnMessage(c, m).seen = c.seen \cup {Event(Here, n) : n \in 1 .. seq}
           /\ m.type # "event" /\ ~ (m.type = "stale_state" /\ Client = "documented") =>
                OnMessage(c, m) = c
<1>1. /\ c.last \in 0 .. MaxSeq + MaxForeign /\ c.seen \in SUBSET Messages
      /\ c.asks \in Seq(1 .. MaxSeq + MaxForeign + 1)
      /\ c = [last |-> c.last, seen |-> c.seen, asks |-> c.asks]
  BY DEF ClientState
<1>2. CASE m.type = "event"
  <2>1. m.seq \in 1 .. MaxSeq + MaxForeign
    BY <1>2, MessageShapes
  <2>2. Later(m.seq, c.last) \in 0 .. MaxSeq + MaxForeign
    BY <1>1, <2>1 DEF Later
  <2>3. c.last + 1 \in 1 .. MaxSeq + MaxForeign + 1
    BY <1>1
  <2>4. (IF MissesEvents(c, m) THEN Append(c.asks, c.last + 1) ELSE c.asks)
           \in Seq(1 .. MaxSeq + MaxForeign + 1)
    BY <1>1, <2>3, Sending
  <2>5. OnMessage(c, m) = [last |-> Later(m.seq, c.last), seen |-> c.seen \cup {m},
                           asks |-> IF MissesEvents(c, m)
                                    THEN Append(c.asks, c.last + 1) ELSE c.asks]
    BY <1>2 DEF OnMessage
  <2> QED
    BY <1>1, <1>2, <2>2, <2>4, <2>5 DEF ClientState
<1>3. CASE m.type = "stale_state" /\ Client = "documented"
  <2>1. OnMessage(c, m) = [c EXCEPT !.seen = @ \cup {Event(Here, n) : n \in 1 .. seq}]
    BY <1>3 DEF OnMessage
  <2>2. {Event(Here, n) : n \in 1 .. seq} \subseteq Messages
    BY MessageShapes
  <2> QED
    BY <1>1, <1>3, <2>1, <2>2 DEF ClientState
<1>4. CASE m.type # "event" /\ ~ (m.type = "stale_state" /\ Client = "documented")
  <2>1. OnMessage(c, m) = c
    BY <1>4 DEF OnMessage
  <2> QED
    BY <1>4, <2>1
<1> QED
  BY <1>2, <1>3, <1>4

\* A frame's lines are handled one after the other.
LEMMA OnLinesStages ==
    ASSUME seq \in 0 .. MaxSeq, NEW frame \in Seq(Messages), NEW client \in ClientState
    PROVE  \E after \in [0 .. Len(frame) -> ClientState] :
              /\ after[0] = client
              /\ \A i \in 1 .. Len(frame) : after[i] = OnMessage(after[i - 1], frame[i])
              /\ OnLines(frame, client) = after[Len(frame)]
<1> DEFINE n == Len(frame)
           Body(after) == [i \in 0 .. n |->
              IF i = 0 THEN client ELSE OnMessage(after[i - 1], frame[i])]
           step == [i \in 1 .. n |-> [c \in ClientState |-> OnMessage(c, frame[i])]]
           it == CHOOSE after : after = Body(after)
<1>1. n \in Nat /\ \A i \in 1 .. n : frame[i] \in Messages
  OBVIOUS
<1>2. step \in [1 .. n -> [ClientState -> ClientState]]
  BY <1>1, OnMessageFields
<1>4. PICK h : Steps(h, n, ClientState, client, step)
  <2> HIDE DEF step, n
  <2> QED
    BY <1>1, <1>2, StepsExist, Zenon
<1>5. h \in [0 .. n -> ClientState] /\ h[0] = client
  BY <1>4 DEF Steps
<1>6. ASSUME NEW i \in 1 .. n
      PROVE  h[i] = OnMessage(h[i - 1], frame[i])
  <2>1. h[i - 1] \in ClientState
    <3>1. i - 1 \in 0 .. n
      BY <1>1
    <3> QED
      BY <3>1, <1>5
  <2>2. h[i] = step[i][h[i - 1]]
    <3> HIDE DEF step
    <3> QED
      BY <1>4 DEF Steps
  <2> QED
    BY <2>1, <2>2
<1>7. h = Body(h)
  <2>1. ASSUME NEW i \in 0 .. n PROVE h[i] = Body(h)[i]
    <3>1. CASE i = 0
      BY <1>5, <3>1
    <3>2. CASE i # 0
      <4>1. i \in 1 .. n /\ i > 0
        BY <1>1, <3>2
      <4> QED
        BY <4>1, <1>6
    <3> QED
      BY <3>1, <3>2
  <2> QED
    BY <2>1, <1>5
<1>8. it = Body(it)
  BY <1>7
<1>9. OnLines(frame, client) = it[n]
  BY DEF OnLines
<1> HIDE DEF it
<1>10. it[0] = client
  BY <1>1, <1>8
<1>11. ASSUME NEW i \in 1 .. n
       PROVE  it[i] = OnMessage(it[i - 1], frame[i])
  <2>1. i \in 0 .. n /\ i > 0 /\ i # 0
    BY <1>1
  <2>2. it[i] = Body(it)[i]
    BY <1>8
  <2> QED
    BY <2>1, <2>2
<1>12. it \in [0 .. n -> ClientState]
  <2>1. ASSUME NEW k \in Nat, k <= n => it[k] = h[k], k + 1 <= n
        PROVE  it[k + 1] = h[k + 1]
    <3>1. k + 1 \in 1 .. n /\ (k + 1) - 1 = k /\ it[k] = h[k]
      BY <1>1, <2>1
    <3> QED
      BY <3>1, <1>6, <1>11
  <2> DEFINE P == {k \in Nat : k <= n => it[k] = h[k]}
  <2>2. P = Nat
    <3>1. P \in SUBSET Nat /\ 0 \in P
      BY <1>5, <1>10
    <3>2. \A k \in P : k + 1 \in P
      BY <2>1
    <3> HIDE DEF P
    <3> QED
      BY <3>1, <3>2, NatInductionSet
  <2>3. \A k \in 0 .. n : it[k] = h[k]
    <3> SUFFICES ASSUME NEW k \in 0 .. n PROVE it[k] = h[k]
      OBVIOUS
    <3>1. k \in P
      BY <1>1, <2>2
    <3> QED
      BY <3>1, <1>1
  <2>4. it = [i \in 0 .. n |-> Body(it)[i]]
    BY <1>8
  <2> HIDE DEF Body
  <2> QED
    BY <2>3, <2>4, <1>5
<1> QED
  BY <1>9, <1>10, <1>11, <1>12

----------------------------------------------------------------------------
(* Types                                                                   *)

\* The frame the client reads, its state before, and what it makes of it.
Before == [last |-> lastSeq, seen |-> handled, asks |-> up]
After  == IF Readable(Head(wire)) THEN OnLines(Head(wire), Before) ELSE Before

\* OnFrame, with the names above.
LEMMA OnFrameFields ==
    ASSUME TypeOK, OnFrame
    PROVE  /\ Before \in ClientState /\ After \in ClientState
           /\ wire # <<>> /\ Head(wire) \in Seq(Messages)
           /\ lastSeq' = After.last /\ handled' = After.seen /\ up' = After.asks
           /\ wire' = Tail(wire)
<1>1. Before \in ClientState /\ wire # <<>> /\ wire \in Seq(Seq(Messages))
  BY DEF TypeOK, OnFrame, Before, ClientState
<1>2. Head(wire) \in Seq(Messages) /\ seq \in 0 .. MaxSeq
  BY <1>1, Receiving DEF TypeOK
<1>3. After \in ClientState
  <2>1. PICK after \in [0 .. Len(Head(wire)) -> ClientState] :
           OnLines(Head(wire), Before) = after[Len(Head(wire))]
    BY <1>1, <1>2, OnLinesStages
  <2>2. Len(Head(wire)) \in 0 .. Len(Head(wire))
    BY <1>2
  <2>3. OnLines(Head(wire), Before) \in ClientState
    BY <2>1, <2>2
  <2> QED
    BY <1>1, <2>3 DEF After
<1> QED
  BY <1>1, <1>2, <1>3 DEF OnFrame, Before, After

\* The answer to a request is a sequence of messages.
LEMMA AnswerTyped ==
    ASSUME TypeOK, NEW from \in Nat
    PROVE  Answer(from) \in Seq(Messages)
<1>1. ring \in Seq(Int) /\ ToSet(ring) \subseteq 1 .. MaxSeq
  <2>1. ring \in Seq(1 .. MaxSeq) /\ 1 .. MaxSeq \subseteq Int
    BY DEF TypeOK
  <2> QED
    BY <2>1, SeqMonotonic DEF ToSet
<1>2. Replay(from) \in Seq(Int) /\ ToSet(Replay(from)) \subseteq ToSet(ring)
  <2>1. from \in Int
    OBVIOUS
  <2> QED
    BY <1>1, <2>1, SlotsFromHolds DEF Replay
<1>3. ASSUME NEW i \in 1 .. Len(Replay(from)) PROVE Event(Here, Replay(from)[i]) \in Messages
  <2>1. Replay(from)[i] \in 1 .. MaxSeq
    <3>1. i \in DOMAIN Replay(from)
      BY <1>2
    <3>2. Replay(from)[i] \in ToSet(Replay(from))
      BY <3>1 DEF ToSet
    <3> QED
      BY <1>1, <1>2, <3>2
  <2> QED
    BY <2>1, MessageShapes
<1>4. Len(Replay(from)) \in Nat
  BY <1>2
<1>5. [i \in 1 .. Len(Replay(from)) |-> Event(Here, Replay(from)[i])] \in Seq(Messages)
  BY <1>3, <1>4, IsASeq
<1>6. \A t \in ControlTypes : <<Control(t)>> \in Seq(Messages)
  BY MessageShapes
<1> QED
  BY <1>5, <1>6 DEF Answer, ControlTypes

\* A number on its way to the ring or the channel is a number given out.
Numbered == \A p \in Publishers : pub[p].at # "idle" => pub[p].seq # 0

\* Every step keeps every variable's type and every channel's bound.
LEMMA NextTyped ==
    ASSUME TypeOK, Numbered, [Next]_vars
    PROVE  TypeOK' /\ Numbered'
<1> USE DEF TypeOK, Numbered
<1>1. ASSUME NEW p \in Publishers, AssignSeq(p) PROVE TypeOK' /\ Numbered'
  BY <1>1 DEF AssignSeq, serverVars, clientVars
<1>2. ASSUME NEW p \in Publishers, Retain(p) PROVE TypeOK' /\ Numbered'
  <2>1. pub[p].seq \in 1 .. MaxSeq
    <3>1. pub[p].seq \in 0 .. MaxSeq /\ pub[p].at # "idle"
      BY <1>2 DEF Retain
    <3> QED
      BY <3>1
  <2>2. pub' \in [Publishers -> [at : {"idle", "ring", "send"}, seq : 0 .. MaxSeq]]
        /\ Numbered'
    BY <1>2 DEF Retain
  <2>3. ring' \in Seq(1 .. MaxSeq) /\ Len(ring') <= RingSize
    <3>1. ring' = RingAppend(ring, pub[p].seq)
      BY <1>2 DEF Retain
    <3>2. CASE Len(ring) < RingSize
      BY <2>1, <3>1, <3>2, Sending DEF RingAppend
    <3>3. CASE ~ (Len(ring) < RingSize)
      <4>1. Tail(ring) \in Seq(1 .. MaxSeq) /\ Len(Tail(ring)) = Len(ring) - 1
        BY <3>3, Receiving
      <4> QED
        BY <2>1, <3>1, <3>3, <4>1, Sending DEF RingAppend
    <3> QED
      BY <3>2, <3>3
  <2> QED
    BY <1>2, <2>2, <2>3 DEF Retain, serverVars, clientVars
<1>3. ASSUME NEW p \in Publishers, Enqueue(p) PROVE TypeOK' /\ Numbered'
  <2>1. pub' \in [Publishers -> [at : {"idle", "ring", "send"}, seq : 0 .. MaxSeq]]
        /\ Numbered'
    BY <1>3 DEF Enqueue
  <2>2. Event(Here, pub[p].seq) \in Messages
    <3>1. pub[p].seq \in 0 .. MaxSeq /\ pub[p].seq # 0
      <4>1. pub[p].at # "idle"
        BY <1>3 DEF Enqueue
      <4> QED
        BY <4>1
    <3>2. pub[p].seq \in 1 .. MaxSeq + MaxForeign
      BY <3>1
    <3> QED
      BY <3>2, MessageShapes
  <2>3. events' \in Seq(Messages) /\ Len(events') <= EventsCap
    <3>1. events' = Offer(events, EventsCap, Event(Here, pub[p].seq))
      BY <1>3 DEF Enqueue
    <3> QED
      BY <2>2, <3>1, Offering
  <2> QED
    BY <1>3, <2>1, <2>3 DEF Enqueue, serverVars, clientVars
<1>4. ASSUME StreamEvent PROVE TypeOK' /\ Numbered'
  <2>1. Event(Peer, foreign + 1) \in Messages
    <3>1. foreign + 1 \in 1 .. MaxSeq + MaxForeign
      BY <1>4 DEF StreamEvent
    <3> QED
      BY <3>1, MessageShapes
  <2>2. events' \in Seq(Messages) /\ Len(events') <= EventsCap
    BY <1>4, <2>1, Offering DEF StreamEvent
  <2> QED
    BY <1>4, <2>2 DEF StreamEvent, serverVars, clientVars
<1>5. ASSUME FanOut PROVE TypeOK' /\ Numbered'
  <2>1. events' \in Seq(Messages) /\ Len(events') <= EventsCap /\ Head(events) \in Messages
    BY <1>5, Receiving DEF FanOut
  <2>2. sub' \in Seq(Messages) /\ Len(sub') <= SubCap
    BY <1>5, <2>1, Offering DEF FanOut
  <2> QED
    BY <1>5, <2>1, <2>2 DEF FanOut, publishVars, serverVars, clientVars
<1>6. ASSUME Dispatch PROVE TypeOK' /\ Numbered'
  <2>1. sub' \in Seq(Messages) /\ Len(sub') <= SubCap /\ Head(sub) \in Messages
    BY <1>6, Receiving DEF Dispatch
  <2>2. send' \in Seq(Messages) /\ Len(send') <= SendCap
    BY <1>6, <2>1, Offering DEF Dispatch
  <2> QED
    BY <1>6, <2>1, <2>2 DEF Dispatch, publishVars, clientVars
<1>7. ASSUME Accept PROVE TypeOK' /\ Numbered'
  <2>1. send' \in Seq(Messages) /\ Len(send') <= SendCap
    BY <1>7, MessageShapes DEF Accept, ControlTypes
  <2>2. up' \in Seq(1 .. MaxSeq + MaxForeign + 1)
    <3> DEFINE S == 1 .. MaxSeq + MaxForeign + 1
               first == lastSeq + 1
    <3>1. first \in S
      OBVIOUS
    <3>2. up' = <<first>> \/ up' = <<>>
      BY <1>7 DEF Accept
    <3> HIDE DEF S, first
    <3>3. <<>> \in Seq(S)
      OBVIOUS
    <3>4. <<first>> \in Seq(S)
      BY <3>1
    <3>5. up' \in Seq(S)
      BY <3>2, <3>3, <3>4, Zenon
    <3> QED
      BY <3>5 DEF S
  <2> QED
    BY <1>7, <2>1, <2>2 DEF Accept, publishVars, clientVars
<1>8. ASSUME Register PROVE TypeOK' /\ Numbered'
  BY <1>8 DEF Register, publishVars, serverVars, clientVars
<1>9. ASSUME Close PROVE TypeOK' /\ Numbered'
  BY <1>9 DEF Close, publishVars
<1>10. ASSUME Coalesce PROVE TypeOK' /\ Numbered'
  <2>1. send' \in Seq(Messages) /\ Len(send') <= SendCap /\ Head(send) \in Messages
    BY <1>10, Receiving DEF Coalesce
  <2>2. buf' \in Seq(Messages)
    BY <1>10, <2>1, Sending DEF Coalesce
  <2> QED
    BY <1>10, <2>1, <2>2 DEF Coalesce, publishVars, clientVars
<1>11. ASSUME FlushBuf PROVE TypeOK' /\ Numbered'
  <2>1. wire' \in Seq(Seq(Messages)) /\ Len(wire') <= WireCap
    <3>1. wire' = Append(wire, buf) /\ buf \in Seq(Messages) /\ Len(wire) < WireCap
      BY <1>11 DEF FlushBuf
    <3> QED
      BY <3>1, Sending
  <2> QED
    BY <1>11, <2>1 DEF FlushBuf, publishVars, clientVars
<1>12. ASSUME ReadRequest PROVE TypeOK' /\ Numbered'
  <2>1. up' \in Seq(1 .. MaxSeq + MaxForeign + 1) /\ Head(up) \in Nat
    <3> DEFINE S == 1 .. MaxSeq + MaxForeign + 1
    <3>1. up \in Seq(S) /\ up # <<>> /\ up' = Tail(up) /\ S \subseteq Nat
      BY <1>12 DEF ReadRequest
    <3> HIDE DEF S
    <3>2. up' \in Seq(S) /\ Head(up) \in S
      BY ONLY <3>1, Receiving
    <3> QED
      BY <3>1, <3>2 DEF S
  <2>2. replies' \in Seq(Messages)
    BY <1>12, <2>1, AnswerTyped DEF ReadRequest
  <2>3. tokens' \in 0 .. MsgBurst
    BY <1>12 DEF ReadRequest
  <2>4. cut' \in BOOLEAN
    <3>1. cut' = (cut \/ tokens = 0)
      BY <1>12 DEF ReadRequest
    <3> QED
      BY <3>1, Zenon
  <2>5. UNCHANGED <<pub, ring, events, seq, foreign, sub, send, buf, conn, sessions, wire,
                    lastSeq, handled>>
    BY <1>12 DEF ReadRequest, publishVars
  <2> QED
    BY <2>1, <2>2, <2>3, <2>4, <2>5
<1>13. ASSUME WriteReply PROVE TypeOK' /\ Numbered'
  <2>1. replies' \in Seq(Messages) /\ Head(replies) \in Messages
    BY <1>13, Receiving DEF WriteReply
  <2>2. send' \in Seq(Messages) /\ Len(send') <= SendCap
    BY <1>13, <2>1, Offering DEF WriteReply
  <2> QED
    BY <1>13, <2>1, <2>2 DEF WriteReply, publishVars
<1>14. ASSUME RefillTokens PROVE TypeOK' /\ Numbered'
  BY <1>14 DEF RefillTokens, publishVars, clientVars
<1>15. ASSUME OnFrame PROVE TypeOK' /\ Numbered'
  <2>1. /\ After \in ClientState /\ wire # <<>>
        /\ lastSeq' = After.last /\ handled' = After.seen /\ up' = After.asks
        /\ wire' = Tail(wire)
    BY <1>15, OnFrameFields
  <2>2. wire' \in Seq(Seq(Messages)) /\ Len(wire') <= WireCap
    BY <2>1, Receiving
  <2>3. /\ lastSeq' \in 0 .. MaxSeq + MaxForeign /\ handled' \subseteq Messages
        /\ up' \in Seq(1 .. MaxSeq + MaxForeign + 1)
    BY <2>1 DEF ClientState
  <2> QED
    BY <1>15, <2>2, <2>3 DEF OnFrame, publishVars, serverVars
<1>16. CASE UNCHANGED vars
  BY <1>16 DEF vars, publishVars, serverVars, clientVars
<1> HIDE DEF TypeOK, Numbered
<1> QED
  BY <1>1, <1>2, <1>3, <1>4, <1>5, <1>6, <1>7, <1>8, <1>9, <1>10, <1>11, <1>12, <1>13,
     <1>14, <1>15, <1>16 DEF Next, Publish, WritePump, ReadPump

\* Every variable keeps its type and every channel its capacity
\* (broadcaster.go, handler.go, client.ts).
THEOREM TypeCorrect == Spec => [](TypeOK /\ Numbered)
<1>1. Init => TypeOK /\ Numbered
  <2> SUFFICES ASSUME Init PROVE TypeOK /\ Numbered
    OBVIOUS
  <2>1. pub \in [Publishers -> [at : {"idle", "ring", "send"}, seq : 0 .. MaxSeq]]
        /\ Numbered
    BY DEF Init, Numbered
  <2>2. \A S : <<>> \in Seq(S)
    OBVIOUS
  <2>3. Len(<<>>) = 0
    OBVIOUS
  <2>4. /\ ring \in Seq(1 .. MaxSeq) /\ events \in Seq(Messages) /\ sub \in Seq(Messages)
        /\ send \in Seq(Messages) /\ buf \in Seq(Messages) /\ replies \in Seq(Messages)
        /\ wire \in Seq(Seq(Messages)) /\ up \in Seq(1 .. MaxSeq + MaxForeign + 1)
    BY <2>2, Zenon DEF Init
  <2>5. /\ Len(ring) <= RingSize /\ Len(events) <= EventsCap /\ Len(sub) <= SubCap
        /\ Len(send) <= SendCap /\ Len(wire) <= WireCap
    BY <2>3 DEF Init
  <2>6. /\ seq \in 0 .. MaxSeq /\ foreign \in 0 .. MaxForeign
        /\ conn \in {"closed", "accepted", "open"} /\ sessions \in 0 .. MaxSessions
        /\ tokens \in 0 .. MsgBurst /\ lastSeq \in 0 .. MaxSeq + MaxForeign
        /\ handled \subseteq Messages
    BY DEF Init
  <2>7. cut \in BOOLEAN
    BY Zenon DEF Init
  <2> QED
    BY <2>1, <2>4, <2>5, <2>6, <2>7, Zenon DEF TypeOK
<1>2. (TypeOK /\ Numbered) /\ [Next]_vars => (TypeOK /\ Numbered)'
  BY NextTyped
<1> QED
  BY <1>1, <1>2, PTL DEF Spec

----------------------------------------------------------------------------
(* What is on its way, and how the steps move it                           *)

OnWire == UNION {ToSet(wire[i]) : i \in DOMAIN wire}
Live   == ToSet(sub) \cup ToSet(events)
Coming == ToSet(replies) \cup ToSet(send) \cup ToSet(buf) \cup OnWire

\* These steps move nothing.
LEMMA OthersMoveNothing ==
    ASSUME NEW p, AssignSeq(p) \/ Retain(p) \/ Register \/ RefillTokens \/ UNCHANGED vars
    PROVE  UNCHANGED <<events, sub, send, buf, replies, wire, up, lastSeq, handled, cut>>
  BY DEF AssignSeq, Retain, Register, RefillTokens, vars, publishVars, serverVars, clientVars

\* A published event may enter the channel.
LEMMA EnqueueMoves ==
    ASSUME TypeOK, Numbered, NEW p \in Publishers, Enqueue(p)
    PROVE  /\ events' \in {events, Append(events, Event(Here, pub[p].seq))}
           /\ ToSet(events') \subseteq ToSet(events) \cup {Event(Here, pub[p].seq)}
           /\ Event(Here, pub[p].seq) \in Messages
<1>1. pub[p].seq \in 1 .. MaxSeq + MaxForeign
  <2>1. pub[p].seq \in 0 .. MaxSeq /\ pub[p].seq # 0
    <3>1. pub[p].at # "idle"
      BY DEF Enqueue
    <3> QED
      BY <3>1 DEF TypeOK, Numbered
  <2> QED
    BY <2>1
<1>2. Event(Here, pub[p].seq) \in Messages
  BY <1>1, MessageShapes
<1>3. /\ events' = Offer(events, EventsCap, Event(Here, pub[p].seq))
      /\ events \in Seq(Messages) /\ Len(events) <= EventsCap
  BY DEF Enqueue, TypeOK
<1> QED
  BY <1>2, <1>3, Offering

\* A peer's event may enter the channel.
LEMMA StreamEventMoves ==
    ASSUME TypeOK, StreamEvent
    PROVE  ToSet(events') \subseteq ToSet(events) \cup {Event(Peer, foreign + 1)}
<1>1. Event(Peer, foreign + 1) \in Messages
  <2>1. foreign + 1 \in 1 .. MaxSeq + MaxForeign
    BY DEF StreamEvent, TypeOK
  <2> QED
    BY <2>1, MessageShapes
<1>2. /\ events' = Offer(events, EventsCap, Event(Peer, foreign + 1))
      /\ events \in Seq(Messages) /\ Len(events) <= EventsCap
  BY DEF StreamEvent, TypeOK
<1> QED
  BY <1>1, <1>2, Offering

\* The oldest event leaves the channel for the dispatcher's, if it has room.
LEMMA FanOutMoves ==
    ASSUME TypeOK, FanOut
    PROVE  /\ events # <<>> /\ events' = Tail(events)
           /\ sub' \in {sub, Append(sub, Head(events))}
           /\ ToSet(events) = {Head(events)} \cup ToSet(events')
           /\ ToSet(sub') \subseteq ToSet(sub) \cup {Head(events)}
           /\ Live' \subseteq Live
<1>1. /\ events # <<>> /\ events' = Tail(events) /\ events \in Seq(Messages)
      /\ sub \in Seq(Messages) /\ Len(sub) <= SubCap
      /\ sub' = Offer(sub, SubCap, Head(events))
  BY DEF FanOut, TypeOK
<1>2. Head(events) \in Messages /\ ToSet(events) = {Head(events)} \cup ToSet(events')
  BY <1>1, Receiving
<1>3. /\ sub' \in {sub, Append(sub, Head(events))}
      /\ ToSet(sub') \subseteq ToSet(sub) \cup {Head(events)}
  BY <1>1, <1>2, Offering
<1> QED
  BY <1>1, <1>2, <1>3 DEF Live

\* The oldest event leaves the dispatcher's channel for the connection's, if
\* there is one and it has room.
LEMMA DispatchMoves ==
    ASSUME TypeOK, Dispatch
    PROVE  /\ sub # <<>> /\ sub' = Tail(sub)
           /\ send' \in {send, Append(send, Head(sub))}
           /\ conn # "open" => send' = send
           /\ ToSet(sub) = {Head(sub)} \cup ToSet(sub')
           /\ ToSet(send) \subseteq ToSet(send')
           /\ ToSet(send') \subseteq ToSet(send) \cup {Head(sub)}
<1>1. /\ sub # <<>> /\ sub' = Tail(sub) /\ sub \in Seq(Messages)
      /\ send \in Seq(Messages) /\ Len(send) <= SendCap
      /\ send' = IF conn = "open" THEN Offer(send, SendCap, Head(sub)) ELSE send
  BY DEF Dispatch, TypeOK
<1>2. Head(sub) \in Messages /\ ToSet(sub) = {Head(sub)} \cup ToSet(sub')
  BY <1>1, Receiving
<1>3. LET o == Offer(send, SendCap, Head(sub))
      IN  /\ o \in {send, Append(send, Head(sub))}
          /\ ToSet(send) \subseteq ToSet(o)
          /\ ToSet(o) \subseteq ToSet(send) \cup {Head(sub)}
  BY <1>1, <1>2, Offering
<1> QED
  BY <1>1, <1>2, <1>3

\* The batch takes the oldest queued message.
LEMMA CoalesceMoves ==
    ASSUME TypeOK, Coalesce
    PROVE  /\ send # <<>> /\ send' = Tail(send) /\ buf' = Append(buf, Head(send))
           /\ ToSet(send) = {Head(send)} \cup ToSet(send')
           /\ ToSet(buf') = ToSet(buf) \cup {Head(send)}
           /\ Coming' = Coming
<1>1. /\ send # <<>> /\ send' = Tail(send) /\ buf' = Append(buf, Head(send))
      /\ send \in Seq(Messages) /\ buf \in Seq(Messages)
      /\ UNCHANGED <<replies, wire>>
  BY DEF Coalesce, TypeOK
<1>2. Head(send) \in Messages /\ ToSet(send) = {Head(send)} \cup ToSet(send')
  BY <1>1, Receiving
<1>3. ToSet(buf') = ToSet(buf) \cup {Head(send)}
  BY <1>1, <1>2, Sending
<1>4. OnWire' = OnWire /\ ToSet(replies') = ToSet(replies)
  BY <1>1 DEF OnWire
<1> QED
  BY <1>1, <1>2, <1>3, <1>4 DEF Coming

\* The batch becomes the last frame on the wire.
LEMMA FlushBufMoves ==
    ASSUME TypeOK, FlushBuf
    PROVE  /\ wire' = Append(wire, buf) /\ buf # <<>> /\ buf' = <<>>
           /\ OnWire' = OnWire \cup ToSet(buf)
           /\ Coming' = Coming
<1>1. /\ wire' = Append(wire, buf) /\ buf # <<>> /\ buf' = <<>>
      /\ wire \in Seq(Seq(Messages)) /\ buf \in Seq(Messages)
      /\ UNCHANGED <<replies, send>>
  BY DEF FlushBuf, TypeOK
<1>2. ToSet(buf') = {}
  BY <1>1 DEF ToSet
<1>3. OnWire' = OnWire \cup ToSet(buf)
  <2>1. /\ DOMAIN wire' = DOMAIN wire \cup {Len(wire) + 1}
        /\ wire'[Len(wire) + 1] = buf
        /\ \A i \in DOMAIN wire : wire'[i] = wire[i]
    BY <1>1, Sending
  <2> QED
    BY <2>1 DEF OnWire
<1> QED
  BY <1>1, <1>2, <1>3 DEF Coming

\* A reply is queued, or lost at the full channel, which "cut" remembers.
LEMMA WriteReplyMoves ==
    ASSUME TypeOK, WriteReply
    PROVE  /\ replies # <<>> /\ replies' = Tail(replies)
           /\ ToSet(replies) = {Head(replies)} \cup ToSet(replies')
           /\ send' \in {send, Append(send, Head(replies))}
           /\ ToSet(send') \subseteq ToSet(send) \cup {Head(replies)}
           /\ Coming' \subseteq Coming
           /\ ~cut' => ~cut /\ Coming' = Coming
<1>1. /\ replies # <<>> /\ replies' = Tail(replies) /\ replies \in Seq(Messages)
      /\ send \in Seq(Messages) /\ Len(send) <= SendCap
      /\ send' = Offer(send, SendCap, Head(replies))
      /\ cut' = (cut \/ Len(send) = SendCap)
      /\ UNCHANGED <<buf, wire>>
  BY DEF WriteReply, TypeOK
<1>2. Head(replies) \in Messages /\ ToSet(replies) = {Head(replies)} \cup ToSet(replies')
  BY <1>1, Receiving
<1>3. /\ send' \in {send, Append(send, Head(replies))}
      /\ ToSet(send) \subseteq ToSet(send')
      /\ ToSet(send') \subseteq ToSet(send) \cup {Head(replies)}
  BY <1>1, <1>2, Offering
<1>4. ~cut' => ~cut /\ ToSet(send') = ToSet(send) \cup {Head(replies)}
  <2> SUFFICES ASSUME ~cut' PROVE ~cut /\ ToSet(send') = ToSet(send) \cup {Head(replies)}
    OBVIOUS
  <2>1. ~cut /\ Len(send) # SendCap
    BY <1>1, Zenon
  <2>2. Len(send) < SendCap
    BY <1>1, <2>1
  <2>3. send' = Append(send, Head(replies))
    BY <1>1, <2>2 DEF Offer
  <2>4. ToSet(Append(send, Head(replies))) = ToSet(send) \cup {Head(replies)}
    BY <1>1, <1>2, Sending
  <2> QED
    BY <2>1, <2>3, <2>4, Zenon
<1>5. OnWire' = OnWire /\ ToSet(buf') = ToSet(buf)
  BY <1>1 DEF OnWire
<1> QED
  BY <1>1, <1>2, <1>3, <1>4, <1>5 DEF Coming

\* The first frame leaves the wire.
LEMMA OnFrameMoves ==
    ASSUME TypeOK, OnFrame
    PROVE  /\ wire' = Tail(wire) /\ wire # <<>> /\ 1 \in DOMAIN wire
           /\ \A i \in DOMAIN wire' : i + 1 \in DOMAIN wire /\ wire'[i] = wire[i + 1]
           /\ OnWire = ToSet(Head(wire)) \cup OnWire'
           /\ UNCHANGED <<seq, pub, ring, foreign, events, sub, conn, send, buf, replies, cut>>
<1>1. /\ wire' = Tail(wire) /\ wire # <<>> /\ wire \in Seq(Seq(Messages))
      /\ UNCHANGED <<seq, pub, ring, foreign, events, sub, conn, send, buf, replies, cut>>
  BY DEF OnFrame, TypeOK, publishVars, serverVars
<1>2. /\ Head(wire) = wire[1] /\ Len(wire) \in Nat \ {0} /\ Len(wire') = Len(wire) - 1
      /\ \A i \in 1 .. Len(wire') : wire'[i] = wire[i + 1]
      /\ DOMAIN wire = 1 .. Len(wire) /\ DOMAIN wire' = 1 .. Len(wire')
  BY <1>1, Receiving
<1>3. \A i \in DOMAIN wire' : i + 1 \in DOMAIN wire /\ wire'[i] = wire[i + 1]
  BY <1>2
<1>4. \A i \in DOMAIN wire : i = 1 \/ (i - 1 \in DOMAIN wire' /\ (i - 1) + 1 = i)
  BY <1>2
<1>5. 1 \in DOMAIN wire
  BY <1>2
<1>6. \A i \in DOMAIN wire : i = 1 \/ \E j \in DOMAIN wire' : wire'[j] = wire[i]
  BY <1>3, <1>4
<1>7. OnWire = ToSet(wire[1]) \cup OnWire'
  BY <1>3, <1>5, <1>6 DEF OnWire
<1> QED
  BY <1>1, <1>2, <1>3, <1>5, <1>7

----------------------------------------------------------------------------
(* The welcome                                                             *)

\* Nothing but Accept makes a welcome, and a closed connection has nothing
\* on its way.
OneWelcome ==
    /\ \A m \in ToSet(events) \cup ToSet(sub) \cup ToSet(replies) : m.type # "ack"
    /\ conn = "closed" => /\ send = <<>> /\ buf = <<>> /\ wire = <<>>
                          /\ up = <<>> /\ replies = <<>>

\* No answer to a request holds a welcome.
LEMMA AnswerHasNoWelcome ==
    ASSUME TypeOK, NEW from \in Nat
    PROVE  \A m \in ToSet(Answer(from)) : m.type # "ack"
<1> DEFINE evs == [i \in 1 .. Len(Replay(from)) |-> Event(Here, Replay(from)[i])]
<1>1. ASSUME NEW t \in {"limited", "unknown", "stale_state"}
      PROVE  \A m \in ToSet(<<Control(t)>>) : m.type # "ack"
  BY DEF ToSet, Control
<1>2. \A m \in ToSet(evs \o <<Control("replay_complete")>>) : m.type # "ack"
  <2>1. ring \in Seq(Int) /\ from \in Int
    <3>1. ring \in Seq(1 .. MaxSeq) /\ 1 .. MaxSeq \subseteq Int
      BY DEF TypeOK
    <3> QED
      BY <3>1, SeqMonotonic
  <2>2. Len(Replay(from)) \in Nat
    BY <2>1, SlotsFromHolds DEF Replay
  <2>3. evs \in Seq({Event(Here, x) : x \in {Replay(from)[i] : i \in 1 .. Len(Replay(from))}})
    BY <2>2, IsASeq
  <2>4. \A i \in 1 .. Len(evs) : evs[i].type = "event"
    BY <2>2, <2>3 DEF Event
  <2>5. Len(evs) \in Nat /\ \A i \in DOMAIN (evs \o <<Control("replay_complete")>>) :
           \/ i \in 1 .. Len(evs) /\ (evs \o <<Control("replay_complete")>>)[i] = evs[i]
           \/ (evs \o <<Control("replay_complete")>>)[i] = Control("replay_complete")
    BY <2>3
  <2> HIDE DEF evs
  <2>6. Control("replay_complete").type # "ack"
    BY DEF Control
  <2> QED
    BY <2>4, <2>5, <2>6 DEF ToSet
<1> QED
  BY <1>1, <1>2 DEF Answer

\* No step but Accept makes a welcome, and Close empties the connection.
LEMMA NextOneWelcome ==
    ASSUME TypeOK, Numbered, OneWelcome, [Next]_vars
    PROVE  OneWelcome'
<1> DEFINE Plain(M) == \A m \in M : m.type # "ack"
           Off == conn = "closed" => /\ send = <<>> /\ buf = <<>> /\ wire = <<>>
                                     /\ up = <<>> /\ replies = <<>>
<1>0. /\ \A o, n : Event(o, n).type # "ack"
      /\ ToSet(<<>>) = {}
      /\ Plain(ToSet(events)) /\ Plain(ToSet(sub)) /\ Plain(ToSet(replies)) /\ Off
  BY DEF Event, ToSet, OneWelcome
<1> DEFINE Goal == /\ Plain(ToSet(events')) /\ Plain(ToSet(sub')) /\ Plain(ToSet(replies'))
                   /\ Off'
<1> SUFFICES Goal
  BY DEF OneWelcome
<1>1. ASSUME \/ \E p \in Publishers : AssignSeq(p) \/ Retain(p)
             \/ Register \/ RefillTokens \/ UNCHANGED vars
      PROVE  Goal
  BY <1>0, <1>1 DEF AssignSeq, Retain, Register, RefillTokens, vars, publishVars,
                    serverVars, clientVars
<1>2. ASSUME NEW p \in Publishers, Enqueue(p) PROVE Goal
  <2>1. Plain(ToSet(events'))
    BY <1>0, <1>2, EnqueueMoves
  <2> QED
    BY <1>0, <1>2, <2>1 DEF Enqueue, serverVars
<1>3. ASSUME StreamEvent PROVE Goal
  <2>1. Plain(ToSet(events'))
    BY <1>0, <1>3, StreamEventMoves
  <2> QED
    BY <1>0, <1>3, <2>1 DEF StreamEvent, serverVars
<1>4. ASSUME FanOut PROVE Goal
  <2>1. Plain(ToSet(events')) /\ Plain(ToSet(sub'))
    BY <1>0, <1>4, FanOutMoves
  <2> QED
    BY <1>0, <1>4, <2>1 DEF FanOut, serverVars
<1>5. ASSUME Dispatch PROVE Goal
  <2>1. Plain(ToSet(sub'))
    BY <1>0, <1>5, DispatchMoves
  <2>2. Off'
    BY <1>0, <1>5, DispatchMoves DEF Dispatch
  <2> QED
    BY <1>0, <1>5, <2>1, <2>2 DEF Dispatch
<1>6. ASSUME Accept PROVE Goal
  BY <1>0, <1>6 DEF Accept
<1>7. ASSUME Close PROVE Goal
  BY <1>0, <1>7 DEF Close
<1>8. ASSUME Coalesce \/ FlushBuf PROVE Goal
  BY <1>0, <1>8 DEF Coalesce, FlushBuf
<1>9. ASSUME ReadRequest PROVE Goal
  <2>1. Head(up) \in Nat /\ replies' = Answer(Head(up))
    <3>1. up \in Seq(1 .. MaxSeq + MaxForeign + 1) /\ up # <<>>
          /\ replies' = Answer(Head(up))
      BY <1>9 DEF TypeOK, ReadRequest
    <3>2. Head(up) \in 1 .. MaxSeq + MaxForeign + 1
      BY <3>1, Receiving
    <3> QED
      BY <3>1, <3>2
  <2>2. Plain(ToSet(replies'))
    BY <2>1, AnswerHasNoWelcome
  <2> QED
    BY <1>0, <1>9, <2>2 DEF ReadRequest
<1>10. ASSUME WriteReply PROVE Goal
  <2>1. Plain(ToSet(replies'))
    BY <1>0, <1>10, WriteReplyMoves
  <2>2. Off'
    BY <1>0, <1>10 DEF WriteReply
  <2> QED
    BY <1>0, <1>10, <2>1, <2>2 DEF WriteReply
<1>11. ASSUME OnFrame PROVE Goal
  BY <1>0, <1>11, OnFrameMoves
<1> HIDE DEF Goal
<1> QED
  BY <1>1, <1>2, <1>3, <1>4, <1>5, <1>6, <1>7, <1>8, <1>9, <1>10, <1>11
     DEF Next, Publish, WritePump, ReadPump

\* The welcome, wherever it is, has nothing before it on the connection.
LEMMA NextWelcomeFirst ==
    ASSUME TypeOK, Numbered, OneWelcome, WelcomeFirst, [Next]_vars
    PROVE  WelcomeFirst'
<1> DEFINE Wired == \A i \in DOMAIN wire : \A j \in DOMAIN wire[i] :
                       wire[i][j].type = "ack" => i = 1 /\ j = 1
           Buffered == \A j \in DOMAIN buf : buf[j].type = "ack" => j = 1 /\ wire = <<>>
           Sent == \A j \in DOMAIN send :
                      send[j].type = "ack" => j = 1 /\ buf = <<>> /\ wire = <<>>
<1>0. Wired /\ Buffered /\ Sent
  BY DEF WelcomeFirst
<1> DEFINE Goal == Wired' /\ Buffered' /\ Sent'
<1> SUFFICES Goal
  BY DEF WelcomeFirst
<1>b. /\ send \in Seq(Messages) /\ buf \in Seq(Messages) /\ wire \in Seq(Seq(Messages))
      /\ \A o, n : Event(o, n).type # "ack"
      /\ DOMAIN <<>> = {}
  BY DEF TypeOK, Event
<1>c. ASSUME NEW m \in Messages, m.type # "ack", send' \in {send, Append(send, m)},
             UNCHANGED <<buf, wire>>
      PROVE  Goal
  <2>1. \A j \in DOMAIN send' : send'[j].type = "ack" => j \in DOMAIN send /\ send[j].type = "ack"
    <3>1. CASE send' = send
      BY <3>1
    <3>2. CASE send' = Append(send, m)
      BY <3>2, <1>b, <1>c
    <3> QED
      BY <3>1, <3>2, <1>c
  <2> QED
    BY <1>0, <1>c, <2>1
<1>1. ASSUME UNCHANGED <<send, buf, wire>> PROVE Goal
  BY <1>0, <1>1
<1>2. ASSUME Dispatch PROVE Goal
  <2>1. /\ Head(sub) \in Messages /\ Head(sub) \in ToSet(sub)
        /\ send' \in {send, Append(send, Head(sub))}
    <3>1. sub \in Seq(Messages) /\ sub # <<>>
      BY <1>2 DEF TypeOK, Dispatch
    <3> QED
      BY <1>2, <3>1, DispatchMoves, Receiving
  <2>2. Head(sub).type # "ack"
    BY <2>1 DEF OneWelcome
  <2> QED
    BY <1>2, <1>c, <2>1, <2>2 DEF Dispatch
<1>3. ASSUME Accept PROVE Goal
  <2>1. send' = <<Control("ack")>> /\ buf' = <<>> /\ wire' = <<>>
    BY <1>3 DEF Accept, OneWelcome
  <2> QED
    BY <2>1, <1>b
<1>4. ASSUME Close PROVE Goal
  BY <1>4, <1>b DEF Close
<1>5. ASSUME Coalesce PROVE Goal
  <2>1. /\ send # <<>> /\ send' = Tail(send) /\ buf' = Append(buf, Head(send))
        /\ wire' = wire
    BY <1>5 DEF Coalesce
  <2>2. /\ Head(send) = send[1] /\ 1 \in DOMAIN send /\ Head(send) \in Messages
        /\ \A j \in DOMAIN send' : j + 1 \in DOMAIN send /\ j + 1 # 1 /\ send'[j] = send[j + 1]
    BY <2>1, <1>b, Receiving
  <2>3. Sent'
    BY <2>2, <1>0
  <2>4. \A j \in DOMAIN buf' : \/ j \in DOMAIN buf /\ buf'[j] = buf[j]
                               \/ j = Len(buf) + 1 /\ buf'[j] = Head(send)
    BY <2>1, <2>2, <1>b
  <2>5. Head(send).type = "ack" => buf = <<>> /\ wire = <<>> /\ Len(buf) + 1 = 1
    BY <2>2, <1>0
  <2>6. Buffered'
    BY <2>1, <2>4, <2>5, <1>0
  <2> QED
    BY <2>1, <2>3, <2>6, <1>0
<1>6. ASSUME FlushBuf PROVE Goal
  <2>1. /\ wire' = Append(wire, buf) /\ buf # <<>> /\ buf' = <<>> /\ send' = send
    BY <1>6 DEF FlushBuf
  <2>2. \A i \in DOMAIN wire' : \/ i \in DOMAIN wire /\ wire'[i] = wire[i]
                                \/ i = Len(wire) + 1 /\ wire'[i] = buf
    BY <2>1, <1>b
  <2>3. wire = <<>> => Len(wire) + 1 = 1
    OBVIOUS
  <2>4. Wired'
    BY <2>2, <2>3, <1>0
  <2>5. Buffered' /\ Sent'
    BY <2>1, <1>0, <1>b
  <2> QED
    BY <2>4, <2>5
<1>7. ASSUME WriteReply PROVE Goal
  <2>1. /\ Head(replies) \in Messages /\ Head(replies) \in ToSet(replies)
        /\ send' \in {send, Append(send, Head(replies))}
    <3>1. replies \in Seq(Messages) /\ replies # <<>>
      BY <1>7 DEF TypeOK, WriteReply
    <3> QED
      BY <1>7, <3>1, WriteReplyMoves, Receiving
  <2>2. Head(replies).type # "ack"
    BY <2>1 DEF OneWelcome
  <2> QED
    BY <1>7, <1>c, <2>1, <2>2 DEF WriteReply
<1>8. ASSUME OnFrame PROVE Goal
  <2>1. /\ wire # <<>> /\ UNCHANGED <<send, buf>>
        /\ \A i \in DOMAIN wire' : i + 1 \in DOMAIN wire /\ wire'[i] = wire[i + 1]
    BY <1>8, OnFrameMoves
  <2>2. \A i \in DOMAIN wire' : i \in Nat \ {0} /\ i + 1 # 1
    <3>1. wire' \in Seq(Seq(Messages))
      <4>1. wire # <<>> /\ wire' = Tail(wire)
        BY <1>8, OnFrameMoves
      <4> QED
        BY <1>b, <4>1
    <3> QED
      BY <3>1
  <2>3. Wired'
    BY <2>1, <2>2, <1>0
  <2> QED
    BY <2>1, <2>3, <1>0
<1>9. ASSUME \/ \E p \in Publishers : Publish(p)
             \/ StreamEvent \/ FanOut \/ Register \/ ReadRequest \/ RefillTokens
             \/ UNCHANGED vars
      PROVE  UNCHANGED <<send, buf, wire>>
  BY <1>9 DEF Publish, AssignSeq, Retain, Enqueue, StreamEvent, FanOut, Register,
              ReadRequest, RefillTokens, vars, publishVars, serverVars
<1> HIDE DEF Goal
<1> QED
  BY <1>1, <1>2, <1>3, <1>4, <1>5, <1>6, <1>7, <1>8, <1>9
     DEF Next, Publish, WritePump, ReadPump

\* The inductive invariant of the welcome.
LEMMA WelcomeInvariant == Spec => [](OneWelcome /\ WelcomeFirst)
<1>1. Init => OneWelcome /\ WelcomeFirst
  BY DEF Init, OneWelcome, WelcomeFirst, ToSet
<1>2. (TypeOK /\ Numbered) /\ (OneWelcome /\ WelcomeFirst) /\ [Next]_vars
         => (OneWelcome /\ WelcomeFirst)'
  BY NextOneWelcome, NextWelcomeFirst
<1>3. Spec => [](TypeOK /\ Numbered)
  BY TypeCorrect
<1> QED
  BY <1>1, <1>2, <1>3, PTL DEF Spec

\* Nothing the dispatcher or the read pump writes is ever ahead of the welcome
\* of its connection (handler.go, HandleWebSocket queues the welcome before it
\* registers the connection).
THEOREM WelcomeIsFirst == Spec => []WelcomeFirst
  BY WelcomeInvariant, PTL

----------------------------------------------------------------------------
(* The ring, when Publish calls do not overlap                             *)

\* At most one Publish call is between its number and its channel.  Nothing in
\* broadcaster.go enforces it: it is a premise of the theorems below.
InTurn == \A p, q \in Publishers : pub[p].at # "idle" /\ pub[q].at # "idle" => p = q

\* The last number that entered the ring.
Stored == IF \E p \in Publishers : pub[p].at = "ring" THEN seq - 1 ELSE seq

\* The ring holds the latest numbers, each at its place.
LatestInRing ==
    /\ \A p \in Publishers : pub[p].at # "idle" => pub[p].seq = seq
    /\ Len(ring) = IF Stored < RingSize THEN Stored ELSE RingSize
    /\ \A i \in 1 .. Len(ring) : ring[i] = Stored - Len(ring) + i

\* What the call in progress means for Stored.
LEMMA StoredByCall ==
    ASSUME TypeOK, Numbered, LatestInRing
    PROVE  /\ Stored \in 0 .. seq /\ seq \in Nat
           /\ \A p \in Publishers : pub[p].at = "ring" => Stored = seq - 1
           /\ ~(\E p \in Publishers : pub[p].at = "ring") => Stored = seq
<1>1. seq \in Nat /\ \A p \in Publishers : pub[p].at = "ring" => pub[p].seq \in Nat \ {0}
  <2>1. \A p \in Publishers : pub[p].seq \in Nat
    BY DEF TypeOK
  <2> QED
    BY <2>1 DEF TypeOK, Numbered
<1>2. \A p \in Publishers : pub[p].at = "ring" => seq # 0
  BY <1>1 DEF LatestInRing
<1> QED
  BY <1>1, <1>2 DEF Stored

\* A number is retained at the end of the ring; the oldest makes room for it.
LEMMA NextInRing ==
    ASSUME TypeOK, Numbered, LatestInRing, InTurn, InTurn', [Next]_vars
    PROVE  LatestInRing' /\ seq' \in Nat /\ seq <= seq' /\ Stored <= Stored'
<1> USE DEF LatestInRing
<1>a. /\ seq \in Nat /\ Stored \in 0 .. seq /\ ring \in Seq(Int) /\ Len(ring) \in Nat
      /\ \A p \in Publishers : pub[p] \in [at : {"idle", "ring", "send"}, seq : 0 .. MaxSeq]
  <2>1. ring \in Seq(1 .. MaxSeq) /\ 1 .. MaxSeq \subseteq Int
    BY DEF TypeOK
  <2>2. ring \in Seq(Int)
    BY <2>1, SeqMonotonic
  <2>3. \A p \in Publishers : pub[p] \in [at : {"idle", "ring", "send"}, seq : 0 .. MaxSeq]
    BY DEF TypeOK
  <2> QED
    BY <2>2, <2>3, StoredByCall
<1>b. pub \in [Publishers -> [at : {"idle", "ring", "send"}, seq : 0 .. MaxSeq]]
  BY DEF TypeOK
<1>1. ASSUME NEW p \in Publishers, AssignSeq(p)
      PROVE  LatestInRing' /\ seq' \in Nat /\ seq <= seq' /\ Stored <= Stored'
  <2>1. /\ seq' = seq + 1 /\ ring' = ring /\ pub[p].at = "idle"
        /\ pub' = [pub EXCEPT ![p] = [at |-> "ring", seq |-> seq + 1]]
    BY <1>1 DEF AssignSeq
  <2>2. /\ pub'[p].at = "ring" /\ pub'[p].seq = seq'
        /\ \A q \in Publishers : q # p => pub'[q] = pub[q]
    BY <1>b, <2>1
  <2>3. \A q \in Publishers : q # p => pub'[q].at = "idle" /\ pub[q].at = "idle"
    BY <2>2 DEF InTurn
  <2>4. Stored = seq /\ Stored' = seq
    <3>1. ~(\E q \in Publishers : pub[q].at = "ring")
      BY <2>1, <2>3
    <3>2. \E q \in Publishers : pub'[q].at = "ring"
      BY <2>2
    <3> QED
      BY <3>1, <3>2, <2>1, <1>a DEF Stored
  <2>5. \A q \in Publishers : pub'[q].at # "idle" => pub'[q].seq = seq'
    BY <2>2, <2>3
  <2>6. /\ Len(ring') = IF Stored' < RingSize THEN Stored' ELSE RingSize
        /\ \A i \in 1 .. Len(ring') : ring'[i] = Stored' - Len(ring') + i
    BY <2>1, <2>4
  <2> QED
    BY <1>a, <2>1, <2>4, <2>5, <2>6
<1>2. ASSUME NEW p \in Publishers, Retain(p)
      PROVE  LatestInRing' /\ seq' \in Nat /\ seq <= seq' /\ Stored <= Stored'
  <2>1. /\ seq' = seq /\ ring' = RingAppend(ring, seq) /\ pub[p].at = "ring"
        /\ pub' = [pub EXCEPT ![p].at = "send"]
    BY <1>2 DEF Retain
  <2>2. /\ pub'[p].at = "send" /\ pub'[p].seq = seq
        /\ \A q \in Publishers : q # p => pub'[q] = pub[q]
    BY <1>b, <2>1
  <2>3. \A q \in Publishers : q # p => pub'[q].at = "idle"
    BY <2>1, <2>2 DEF InTurn
  <2>4. Stored = seq - 1 /\ Stored' = seq
    <3>1. ~(\E q \in Publishers : pub'[q].at = "ring")
      BY <2>2, <2>3
    <3> QED
      BY <3>1, <2>1, StoredByCall DEF Stored
  <2>5. /\ Len(ring') = IF Stored' < RingSize THEN Stored' ELSE RingSize
        /\ \A i \in 1 .. Len(ring') : ring'[i] = Stored' - Len(ring') + i
    <3>1. CASE Len(ring) < RingSize
      <4>1. ring' = Append(ring, seq)
        BY <2>1, <3>1 DEF RingAppend
      <4>2. /\ Len(ring') = Len(ring) + 1 /\ ring'[Len(ring) + 1] = seq
            /\ \A i \in 1 .. Len(ring) : ring'[i] = ring[i]
        BY <4>1, <1>a
      <4>3. Len(ring) = Stored /\ Len(ring') = Stored'
        BY <3>1, <2>4, <4>2, <1>a
      <4> QED
        BY <3>1, <4>2, <4>3, <2>4, <1>a
    <3>2. CASE ~(Len(ring) < RingSize)
      <4>1. ring' = Append(Tail(ring), seq)
        BY <2>1, <3>2 DEF RingAppend
      <4>2. Len(ring) = RingSize /\ Stored >= RingSize
        BY <3>2, <1>a
      <4>3. /\ Tail(ring) \in Seq(Int) /\ Len(Tail(ring)) = RingSize - 1
            /\ \A i \in 1 .. RingSize - 1 : Tail(ring)[i] = ring[i + 1]
        BY <4>2, <1>a
      <4>4. /\ Len(ring') = RingSize /\ ring'[RingSize] = seq
            /\ \A i \in 1 .. RingSize - 1 : ring'[i] = ring[i + 1]
        BY <4>1, <4>3, <1>a
      <4>5. ASSUME NEW i \in 1 .. RingSize PROVE ring'[i] = Stored' - RingSize + i
        <5>1. CASE i = RingSize
          BY <5>1, <4>4, <2>4, <1>a
        <5>2. CASE i # RingSize
          <6>1. i \in 1 .. RingSize - 1 /\ i + 1 \in 1 .. Len(ring)
            BY <5>2, <4>2
          <6>2. ring[i + 1] = Stored - Len(ring) + (i + 1)
            BY <6>1
          <6> QED
            BY <6>1, <6>2, <4>2, <4>4, <2>4, <1>a
        <5> QED
          BY <5>1, <5>2
      <4>6. ~(Stored' < RingSize)
        BY <4>2, <2>4, <1>a
      <4> QED
        BY <4>4, <4>5, <4>6
    <3> QED
      BY <3>1, <3>2
  <2> QED
    BY <1>a, <2>1, <2>2, <2>3, <2>4, <2>5
<1>3. ASSUME NEW p \in Publishers, Enqueue(p)
      PROVE  LatestInRing' /\ seq' \in Nat /\ seq <= seq' /\ Stored <= Stored'
  <2>1. /\ seq' = seq /\ ring' = ring /\ pub[p].at = "send"
        /\ pub' = [pub EXCEPT ![p].at = "idle"]
    BY <1>3 DEF Enqueue
  <2>2. /\ pub'[p].at = "idle"
        /\ \A q \in Publishers : q # p => pub'[q] = pub[q] /\ pub[q].at = "idle"
    BY <1>b, <2>1 DEF InTurn
  <2>3. Stored = seq /\ Stored' = seq
    <3>1. ~(\E q \in Publishers : pub[q].at = "ring") /\ ~(\E q \in Publishers : pub'[q].at = "ring")
      BY <2>1, <2>2
    <3> QED
      BY <3>1, <2>1 DEF Stored
  <2>4. LatestInRing'
    <3>1. \A q \in Publishers : pub'[q].at # "idle" => pub'[q].seq = seq'
      BY <1>a, <2>1, <2>2 DEF LatestInRing
    <3>2. /\ Len(ring') = IF Stored' < RingSize THEN Stored' ELSE RingSize
          /\ \A i \in 1 .. Len(ring') : ring'[i] = Stored' - Len(ring') + i
      BY <1>a, <2>1, <2>3 DEF LatestInRing
    <3> QED
      BY <3>1, <3>2 DEF LatestInRing
  <2>5. seq \in Nat
    BY <1>a
  <2> QED
    BY <2>1, <2>3, <2>4, <2>5
<1>4. ASSUME UNCHANGED <<seq, pub, ring>>
      PROVE  LatestInRing' /\ seq' \in Nat /\ seq <= seq' /\ Stored <= Stored'
  <2>1. Stored' = Stored
    BY <1>4 DEF Stored
  <2>2. LatestInRing'
    BY <1>4, <2>1
  <2>3. Stored <= Stored
    BY <1>a
  <2> QED
    BY <1>a, <1>4, <2>1, <2>2, <2>3
<1>5. \/ \E p \in Publishers : AssignSeq(p) \/ Retain(p) \/ Enqueue(p)
      \/ UNCHANGED <<seq, pub, ring>>
  BY DEF Next, Publish, WritePump, ReadPump, StreamEvent, FanOut, Dispatch, Accept, Register,
         Close, Coalesce, FlushBuf, ReadRequest, WriteReply, RefillTokens, OnFrame, vars,
         publishVars
<1> HIDE DEF LatestInRing
<1> QED
  BY <1>1, <1>2, <1>3, <1>4, <1>5

\* What the ring's answer to a request holds.
LEMMA RingAnswers ==
    ASSUME TypeOK, Numbered, LatestInRing, NEW from \in Nat \ {0}
    PROVE  /\ Replay(from) \in Seq(Int)
           /\ \A n \in ToSet(Replay(from)) : from <= n /\ n \in 1 .. Stored
           /\ Evicted(from) => from \notin ToSet(ring)
           /\ ~Evicted(from) => \A n \in from .. Stored : n \in ToSet(Replay(from))
<1>1. ring \in Seq(Int) /\ Len(ring) \in Nat /\ Stored \in Nat /\ DOMAIN ring = 1 .. Len(ring)
  <2>1. ring \in Seq(1 .. MaxSeq) /\ 1 .. MaxSeq \subseteq Int
    BY DEF TypeOK
  <2>2. ring \in Seq(Int)
    BY <2>1, SeqMonotonic
  <2> QED
    BY <2>2, StoredByCall
<1>2. /\ Replay(from) \in Seq(Int)
      /\ \A x : x \in ToSet(Replay(from)) <=> x \in ToSet(ring) /\ x >= from
  BY <1>1, SlotsFromHolds DEF Replay
<1>3. /\ Len(ring) = IF Stored < RingSize THEN Stored ELSE RingSize
      /\ \A i \in DOMAIN ring : ring[i] = Stored - Len(ring) + i
  BY <1>1 DEF LatestInRing
<1>4. \A n : n \in ToSet(ring) <=> n \in Stored - Len(ring) + 1 .. Stored
  <2>1. ASSUME NEW n \in ToSet(ring) PROVE n \in Stored - Len(ring) + 1 .. Stored
    BY <2>1, <1>1, <1>3 DEF ToSet
  <2>2. ASSUME NEW n \in Stored - Len(ring) + 1 .. Stored PROVE n \in ToSet(ring)
    <3>1. n - Stored + Len(ring) \in DOMAIN ring
      BY <1>1
    <3>2. ring[n - Stored + Len(ring)] = n
      BY <1>1, <1>3, <3>1
    <3> QED
      BY <3>1, <3>2 DEF ToSet
  <2> QED
    BY <2>1, <2>2
<1>5. /\ Len(ring) <= Stored
      /\ ring # <<>> => ring[1] = Stored - Len(ring) + 1
      /\ ring = <<>> => Stored = 0
  <2>1. ring # <<>> => 1 \in DOMAIN ring
    BY <1>1
  <2>2. ring = <<>> => Len(ring) = 0
    OBVIOUS
  <2> QED
    BY <1>1, <1>3, <2>1, <2>2
<1>6. Evicted(from) => from \notin ToSet(ring)
  BY <1>1, <1>4, <1>5 DEF Evicted
<1>7. ~Evicted(from) => \A n \in from .. Stored : n \in ToSet(Replay(from))
  <2> SUFFICES ASSUME ~Evicted(from), NEW n \in from .. Stored PROVE n \in ToSet(Replay(from))
    OBVIOUS
  <2>1. ring # <<>> /\ from >= Stored - Len(ring) + 1
    BY <1>1, <1>5 DEF Evicted
  <2>2. n \in Stored - Len(ring) + 1 .. Stored /\ n >= from
    BY <1>1, <2>1
  <2> QED
    BY <1>2, <1>4, <2>2
<1>8. \A n \in ToSet(Replay(from)) : from <= n /\ n \in 1 .. Stored
  BY <1>1, <1>2, <1>4, <1>5
<1> QED
  BY <1>2, <1>6, <1>7, <1>8

\* The inductive invariant of the ring.
LEMMA RingInvariant == Spec /\ []InTurn => []LatestInRing
<1>1. Init => LatestInRing
  BY DEF Init, LatestInRing, Stored
<1>2. (TypeOK /\ Numbered) /\ LatestInRing /\ InTurn /\ InTurn' /\ [Next]_vars => LatestInRing'
  BY NextInRing
<1>3. Spec => [](TypeOK /\ Numbered)
  BY TypeCorrect
<1> QED
  BY <1>1, <1>2, <1>3, PTL DEF Spec

\* As long as Publish calls take turns, a replay leaves out no retained event
\* and calls "evicted" only what is no longer retained (broadcaster.go, Replay).
THEOREM ReplayIsComplete == Spec /\ []InTurn => []ReplayCoversRange
<1>1. (TypeOK /\ Numbered) /\ LatestInRing => ReplayCoversRange
  <2> SUFFICES ASSUME TypeOK, Numbered, LatestInRing, NEW from \in 1 .. seq
               PROVE  IF Evicted(from)
                      THEN from \notin ToSet(ring)
                      ELSE \A n \in (from .. seq) \ Unretained : n \in ToSet(Replay(from))
    BY DEF ReplayCoversRange
  <2>1. from \in Nat \ {0} /\ seq \in Nat
    BY DEF TypeOK
  <2>2. \A n \in (from .. seq) \ Unretained : n \in from .. Stored
    <3>1. CASE \E p \in Publishers : pub[p].at = "ring"
      <4>1. seq \in Unretained
        BY <3>1 DEF Unretained, LatestInRing
      <4>2. Stored = seq - 1
        BY <3>1, StoredByCall
      <4> QED
        BY <2>1, <4>1, <4>2
    <3>2. CASE ~(\E p \in Publishers : pub[p].at = "ring")
      BY <3>2, StoredByCall
    <3> QED
      BY <3>1, <3>2
  <2> QED
    BY <2>1, <2>2, RingAnswers
<1> QED
  BY <1>1, TypeCorrect, RingInvariant, PTL

----------------------------------------------------------------------------
(* Holes: what the client knows, and what it still waits for               *)

\* Seen, Holes and what is below, of a client state c and the messages M that
\* are still to come; the messages on the server side of the connection, Live,
\* may or may not reach the client.
SeenBy(c) == {e.seq : e \in {e \in c.seen : e.origin = Here}}

HolesOf(c) == {n \in 1 .. seq : /\ n \notin SeenBy(c)
                                /\ \E a, b \in SeenBy(c) : a < n /\ n < b}

AtMost(f, M) == \A m \in M : m.type = "event" => f <= m.seq

\* A number the client has handled, and nothing below it is on its way.
Floor(c, M, f) ==
    /\ f \in SeenBy(c) /\ f <= c.last
    /\ AtMost(f, M) /\ AtMost(f, Live)
    /\ \A i \in DOMAIN c.asks : f <= c.asks[i]

\* A request that covers n is on its way, or an answer that fills the hole is.
Awaited(c, M, n) ==
    \/ \E i \in DOMAIN c.asks : c.asks[i] <= n
    \/ \E m \in M : m = Event(Here, n) \/ m.type = "stale_state"

\* What the client has handled was published; its last event has entered the
\* ring, and what it knows beyond the ring it knows without a gap.
HandledBy(c) ==
    /\ c.seen \subseteq {Event(Here, n) : n \in 1 .. seq}
    /\ c.last > 0 => c.last \in SeenBy(c) /\ c.last <= Stored
    /\ \A b \in SeenBy(c) : b <= Stored \/ 1 .. b \subseteq SeenBy(c)

\* Before its first event a client has asked for nothing and handled nothing.
Untouched(c, M) ==
    c.last = 0 => /\ c.seen = {} /\ c.asks = <<>>
                  /\ \A m \in M : m.type # "stale_state"

Founded(c, M) == c.last > 0 => \E f \in SeenBy(c) : Floor(c, M, f)

HolesAwaited(c, M) == ~cut => \A n \in HolesOf(c) : Awaited(c, M, n)

Recovering(c, M) ==
    HandledBy(c) /\ Untouched(c, M) /\ Founded(c, M) /\ HolesAwaited(c, M)

\* A message on the way is a control message or an event of the ring.
Published(M) ==
    \A m \in M : m.type = "event" => /\ m = Event(Here, m.seq)
                                     /\ m.seq \in 1 .. Stored

\* One line keeps the client's account in order: a new hole above the last
\* event is asked for, and there is none below the floor.
LEMMA LineKeepsRecovering ==
    ASSUME Client = "documented", seq \in 0 .. MaxSeq, Stored \in 0 .. seq,
           NEW c \in ClientState, NEW m \in Messages, NEW M,
           Recovering(c, {m} \cup M), Published({m}),
           c.last = 0 /\ m.type = "event" => AtMost(m.seq, M) /\ AtMost(m.seq, Live)
    PROVE  Recovering(OnMessage(c, m), M)
<1> DEFINE d == OnMessage(c, m)
<1>1. /\ c.last \in Nat /\ c.seen \subseteq Messages /\ seq \in Nat /\ Stored \in Nat
      /\ c.asks \in Seq(1 .. MaxSeq + MaxForeign + 1)
  BY DEF ClientState
<1>2. /\ HandledBy(c) /\ Untouched(c, {m} \cup M) /\ Founded(c, {m} \cup M)
      /\ HolesAwaited(c, {m} \cup M)
  BY DEF Recovering
<1>3. SeenBy(c) \subseteq 1 .. seq
  <2>1. \A e \in c.seen : e.seq \in 1 .. seq
    BY <1>2 DEF HandledBy, Event
  <2> QED
    BY <2>1 DEF SeenBy
<1>4. CASE m.type = "event"
  <2>1. m = Event(Here, m.seq) /\ m.seq \in 1 .. Stored /\ m.seq \in 1 .. seq /\ m.origin = Here
    <3>1. m = Event(Here, m.seq) /\ m.seq \in 1 .. Stored
      BY <1>4 DEF Published
    <3>2. Event(Here, m.seq).origin = Here
      BY DEF Event
    <3> QED
      BY <1>1, <3>1, <3>2
  <2>2. /\ d.last = Later(m.seq, c.last) /\ d.seen = c.seen \cup {m}
        /\ d.asks = IF MissesEvents(c, m) THEN Append(c.asks, c.last + 1) ELSE c.asks
    BY <1>4, OnMessageFields
  <2> HIDE DEF d
  <2>3. SeenBy(d) = SeenBy(c) \cup {m.seq}
    BY <2>1, <2>2 DEF SeenBy
  <2>4. /\ d.last \in Nat /\ d.last > 0 /\ d.last >= c.last /\ d.last >= m.seq
        /\ d.last \in {c.last, m.seq}
    BY <1>1, <2>1, <2>2 DEF Later
  <2>5. HandledBy(d)
    <3>1. d.seen \subseteq {Event(Here, n) : n \in 1 .. seq}
      BY <1>2, <2>1, <2>2 DEF HandledBy
    <3>2. d.last \in SeenBy(d) /\ d.last <= Stored
      BY <1>1, <1>2, <2>1, <2>3, <2>4 DEF HandledBy
    <3>3. \A b \in SeenBy(d) : b <= Stored \/ 1 .. b \subseteq SeenBy(d)
      BY <1>2, <2>1, <2>3 DEF HandledBy
    <3> QED
      BY <3>1, <3>2, <3>3 DEF HandledBy
  <2>6. /\ \A i \in DOMAIN c.asks : i \in DOMAIN d.asks /\ d.asks[i] = c.asks[i]
        /\ \A i \in DOMAIN d.asks : i \in DOMAIN c.asks \/ d.asks[i] = c.last + 1
        /\ MissesEvents(c, m) => \E i \in DOMAIN d.asks : d.asks[i] = c.last + 1
        /\ ~MissesEvents(c, m) => d.asks = c.asks
    <3>1. CASE MissesEvents(c, m)
      <4>1. c.last + 1 \in Nat /\ c.asks \in Seq(Nat)
        BY <1>1
      <4>2. /\ d.asks = Append(c.asks, c.last + 1) /\ Len(c.asks) \in Nat
            /\ DOMAIN c.asks = 1 .. Len(c.asks)
            /\ DOMAIN d.asks = 1 .. Len(c.asks) + 1
        BY <2>2, <3>1, <4>1
      <4>3. /\ d.asks[Len(c.asks) + 1] = c.last + 1
            /\ \A i \in 1 .. Len(c.asks) : d.asks[i] = c.asks[i]
        BY <4>1, <4>2
      <4> QED
        BY <3>1, <4>2, <4>3
    <3>2. CASE ~MissesEvents(c, m)
      BY <2>2, <3>2
    <3> QED
      BY <3>1, <3>2
  <2>7. \E f \in SeenBy(d) : /\ Floor(d, M, f) /\ f <= m.seq
                             /\ c.last > 0 => f \in SeenBy(c)
                             /\ c.last = 0 => SeenBy(c) = {}
    <3>1. CASE c.last > 0
      <4>1. PICK f \in SeenBy(c) : Floor(c, {m} \cup M, f)
        BY <1>2, <3>1 DEF Founded
      <4>2. f \in SeenBy(d) /\ f <= d.last /\ f <= c.last + 1
        BY <4>1, <1>1, <1>3, <2>3, <2>4 DEF Floor
      <4>3. f <= m.seq /\ AtMost(f, M) /\ AtMost(f, Live)
        BY <4>1, <1>4 DEF Floor, AtMost
      <4>4. \A i \in DOMAIN d.asks : f <= d.asks[i]
        BY <4>1, <4>2, <2>6 DEF Floor
      <4> QED
        BY <3>1, <4>1, <4>2, <4>3, <4>4 DEF Floor
    <3>2. CASE c.last = 0
      <4>1. c.seen = {} /\ c.asks = <<>> /\ SeenBy(c) = {}
        BY <1>2, <3>2 DEF Untouched, SeenBy
      <4>2. ~MissesEvents(c, m)
        BY <3>2 DEF MissesEvents
      <4>3. d.asks = <<>> /\ m.seq \in SeenBy(d)
        BY <4>1, <4>2, <2>3, <2>6
      <4>4. AtMost(m.seq, M) /\ AtMost(m.seq, Live)
        BY <1>4, <3>2
      <4>5. m.seq <= m.seq /\ m.seq <= d.last
        BY <2>1, <2>4
      <4>6. Floor(d, M, m.seq)
        BY <4>3, <4>4, <4>5 DEF Floor
      <4> QED
        BY <3>2, <4>1, <4>3, <4>5, <4>6
    <3> QED
      BY <1>1, <3>1, <3>2
  <2>8. HolesAwaited(d, M)
    <3> SUFFICES ASSUME ~cut, NEW n \in HolesOf(d) PROVE Awaited(d, M, n)
      BY DEF HolesAwaited
    <3>1. PICK a \in SeenBy(d), b \in SeenBy(d) : a < n /\ n < b
      BY DEF HolesOf
    <3>2. n \in 1 .. seq /\ n \notin SeenBy(c) /\ n # m.seq
      BY <2>3 DEF HolesOf
    <3>3. PICK f \in SeenBy(d) : /\ Floor(d, M, f) /\ f <= m.seq
                                 /\ c.last > 0 => f \in SeenBy(c)
                                 /\ c.last = 0 => SeenBy(c) = {}
      BY <2>7
    <3>4. c.last > 0
      <4>1. ASSUME c.last = 0 PROVE FALSE
        <5>1. a = m.seq /\ b = m.seq
          BY <4>1, <3>3, <2>3
        <5> QED
          BY <5>1, <3>1, <3>2, <2>1
      <4> QED
        BY <4>1, <1>1
    <3>5. c.last \in SeenBy(c) /\ f \in SeenBy(c)
      BY <3>3, <3>4, <1>2 DEF HandledBy
    <3>6. CASE n \in HolesOf(c)
      <4>1. Awaited(c, {m} \cup M, n)
        BY <1>2, <3>6 DEF HolesAwaited
      <4>2. m # Event(Here, n) /\ m.type # "stale_state"
        BY <1>4, <3>2, <2>1 DEF Event
      <4> QED
        BY <4>1, <4>2, <2>6 DEF Awaited
    <3>7. CASE n \notin HolesOf(c)
      <4>1. \A x, y \in SeenBy(c) : ~(x < n /\ n < y)
        BY <3>2, <3>7 DEF HolesOf
      <4>2. a \in SeenBy(c) \/ f < n
        BY <3>1, <3>3, <2>1, <2>3, <1>3, <3>2, <3>5
      <4>3. b \notin SeenBy(c)
        BY <4>1, <4>2, <3>1, <3>5
      <4>4. b = m.seq /\ n < m.seq
        BY <4>3, <3>1, <2>3
      <4>5. a \in SeenBy(c)
        BY <4>4, <3>1, <2>1, <2>3, <3>2
      <4>6. c.last < n
        BY <4>1, <4>5, <3>1, <3>2, <3>5, <1>1
      <4>7. MissesEvents(c, m)
        BY <4>4, <4>6, <3>2, <3>4, <1>1, <2>1 DEF MissesEvents
      <4> QED
        BY <4>6, <4>7, <2>6, <1>1, <3>2 DEF Awaited
    <3> QED
      BY <3>6, <3>7
  <2>9. Untouched(d, M) /\ Founded(d, M)
    BY <2>4, <2>7 DEF Untouched, Founded
  <2> QED
    BY <2>5, <2>8, <2>9 DEF Recovering, d
<1>5. CASE m.type = "stale_state"
  <2>1. /\ d.last = c.last /\ d.asks = c.asks
        /\ d.seen = c.seen \cup {Event(Here, n) : n \in 1 .. seq}
    BY <1>5, OnMessageFields
  <2> HIDE DEF d
  <2>2. SeenBy(d) = 1 .. seq /\ SeenBy(c) \subseteq SeenBy(d)
    <3>1. d.seen = {Event(Here, n) : n \in 1 .. seq}
      BY <1>2, <2>1 DEF HandledBy
    <3>2. \A n : Event(Here, n).origin = Here /\ Event(Here, n).seq = n
      BY DEF Event
    <3>3. SeenBy(d) = 1 .. seq
      BY <3>1, <3>2 DEF SeenBy
    <3> QED
      BY <3>3, <1>3
  <2>3. c.last > 0
    BY <1>1, <1>2, <1>5 DEF Untouched
  <2>4. HandledBy(d)
    <3>1. \A b \in SeenBy(d) : 1 .. b \subseteq SeenBy(d)
      BY <2>2, <1>1
    <3> QED
      BY <3>1, <1>2, <2>1, <2>2 DEF HandledBy
  <2>5. Untouched(d, M) /\ HolesAwaited(d, M)
    BY <2>1, <2>2, <2>3 DEF Untouched, HolesAwaited, HolesOf
  <2>6. Founded(d, M)
    <3>1. PICK f \in SeenBy(c) : Floor(c, {m} \cup M, f)
      BY <1>2, <2>3 DEF Founded
    <3>2. Floor(d, M, f)
      BY <3>1, <2>1, <2>2 DEF Floor, AtMost
    <3> QED
      BY <3>1, <3>2, <2>2 DEF Founded
  <2> QED
    BY <2>4, <2>5, <2>6 DEF Recovering, d
<1>6. CASE m.type # "event" /\ m.type # "stale_state"
  <2>1. d = c
    BY <1>6, OnMessageFields
  <2> HIDE DEF d
  <2>2. Untouched(d, M)
    BY <1>2, <2>1 DEF Untouched
  <2>3. Founded(d, M)
    BY <1>2, <2>1 DEF Founded, Floor, AtMost
  <2>4. HolesAwaited(d, M)
    <3> SUFFICES ASSUME ~cut, NEW n \in HolesOf(c) PROVE Awaited(c, M, n)
      BY <2>1 DEF HolesAwaited
    <3>1. Awaited(c, {m} \cup M, n)
      BY <1>2 DEF HolesAwaited
    <3>2. m # Event(Here, n)
      BY <1>6 DEF Event
    <3> QED
      BY <3>1, <3>2, <1>6 DEF Awaited
  <2> QED
    BY <1>2, <2>1, <2>2, <2>3, <2>4 DEF Recovering, d
<1> QED
  BY <1>4, <1>5, <1>6

----------------------------------------------------------------------------
(* Order on the way, which matters until the client has its first event    *)

Precede(A, B) ==
    \A a \in A, b \in B : a.type = "event" /\ b.type = "event" => a.seq <= b.seq

Rising(c) == \A i, j \in DOMAIN c : i < j => Precede({c[i]}, {c[j]})

\* The events' numbers do not fall from the client's end to the broadcaster's.
Ordered ==
    /\ \A i \in DOMAIN wire : Rising(wire[i])
    /\ \A i, j \in DOMAIN wire : i < j => Precede(ToSet(wire[i]), ToSet(wire[j]))
    /\ Rising(buf) /\ Rising(send) /\ Rising(sub) /\ Rising(events)
    /\ Precede(OnWire, ToSet(buf)) /\ Precede(OnWire, ToSet(send)) /\ Precede(OnWire, Live)
    /\ Precede(ToSet(buf), ToSet(send)) /\ Precede(ToSet(buf), Live)
    /\ Precede(ToSet(send), Live)
    /\ Precede(ToSet(sub), ToSet(events))

\* Appending what no message exceeds keeps a channel rising.
LEMMA RisingAppend ==
    ASSUME NEW S, NEW c \in Seq(S), NEW v \in S, Rising(c), Precede(ToSet(c), {v})
    PROVE  Rising(Append(c, v))
<1>1. /\ Len(c) \in Nat /\ DOMAIN Append(c, v) = 1 .. Len(c) + 1 /\ DOMAIN c = 1 .. Len(c)
      /\ Append(c, v)[Len(c) + 1] = v /\ \A i \in 1 .. Len(c) : Append(c, v)[i] = c[i]
  OBVIOUS
<1>2. ASSUME NEW i \in DOMAIN Append(c, v), NEW j \in DOMAIN Append(c, v), i < j
      PROVE  Precede({Append(c, v)[i]}, {Append(c, v)[j]})
  <2>1. i \in DOMAIN c /\ Append(c, v)[i] = c[i] /\ c[i] \in ToSet(c)
    BY <1>1, <1>2 DEF ToSet
  <2>2. CASE j = Len(c) + 1
    BY <1>1, <2>1, <2>2 DEF Precede
  <2>3. CASE j # Len(c) + 1
    <3>1. j \in DOMAIN c /\ Append(c, v)[j] = c[j]
      BY <1>1, <2>3
    <3> QED
      BY <1>2, <2>1, <3>1 DEF Rising
  <2> QED
    BY <2>2, <2>3
<1> QED
  BY <1>2 DEF Rising

\* The head of a rising channel precedes what follows it.
LEMMA RisingTail ==
    ASSUME NEW S, NEW c \in Seq(S), c # <<>>, Rising(c)
    PROVE  Rising(Tail(c)) /\ Precede({Head(c)}, ToSet(Tail(c)))
<1>1. /\ 1 \in DOMAIN c /\ Head(c) = c[1]
      /\ \A i \in DOMAIN Tail(c) : i + 1 \in DOMAIN c /\ 1 < i + 1 /\ Tail(c)[i] = c[i + 1]
      /\ \A i, j \in DOMAIN Tail(c) : i < j => i + 1 < j + 1
  OBVIOUS
<1>2. Rising(Tail(c))
  BY <1>1 DEF Rising
<1>3. \A i \in DOMAIN Tail(c) : Precede({c[1]}, {Tail(c)[i]})
  BY <1>1 DEF Rising
<1> QED
  BY <1>1, <1>2, <1>3 DEF Precede, ToSet

\* The steps that move events keep the order; a published event is the latest.
LEMMA NextOrdered ==
    ASSUME TypeOK, Numbered, LatestInRing, InTurn, OneWelcome, Ordered,
           Published(Coming), Published(Live), replies = <<>>, ~StreamEvent, [Next]_vars
    PROVE  Ordered'
<1>a. /\ events \in Seq(Messages) /\ sub \in Seq(Messages) /\ send \in Seq(Messages)
      /\ buf \in Seq(Messages) /\ wire \in Seq(Seq(Messages))
  BY DEF TypeOK
<1>b. \A c : c = <<>> => Rising(c) /\ ToSet(c) = {}
  BY DEF Rising, ToSet
<1>1. ASSUME NEW p \in Publishers, Enqueue(p) PROVE Ordered'
  <2> DEFINE e == Event(Here, pub[p].seq)
  <2>1. /\ events' \in {events, Append(events, e)} /\ e \in Messages
        /\ ToSet(events') \subseteq ToSet(events) \cup {e}
        /\ UNCHANGED <<sub, send, buf, wire>>
    BY <1>1, EnqueueMoves DEF Enqueue, serverVars
  <2>2. e.seq = Stored
    <3>1. pub[p].at = "send" /\ pub[p].seq = seq
      BY <1>1 DEF Enqueue, LatestInRing
    <3>2. ~(\E q \in Publishers : pub[q].at = "ring")
      BY <3>1 DEF InTurn
    <3>3. e.seq = pub[p].seq
      BY DEF Event
    <3> HIDE DEF e
    <3> QED
      BY <3>1, <3>2, <3>3, StoredByCall
  <2> HIDE DEF e
  <2>3. Precede(Coming, {e}) /\ Precede(Live, {e})
    BY <2>2 DEF Precede, Published
  <2>4. Precede(OnWire, {e}) /\ Precede(ToSet(buf), {e}) /\ Precede(ToSet(send), {e})
        /\ Precede(ToSet(sub), {e}) /\ Precede(ToSet(events), {e})
    BY <2>3 DEF Coming, Live, Precede
  <2>5. Rising(events')
    BY <1>a, <2>1, <2>4, RisingAppend DEF Ordered
  <2>6. Live' \subseteq Live \cup {e} /\ OnWire' = OnWire
    BY <2>1 DEF Live, OnWire
  <2>7. /\ Precede(OnWire, Live') /\ Precede(ToSet(buf), Live') /\ Precede(ToSet(send), Live')
        /\ Precede(ToSet(sub), ToSet(events'))
    BY <2>1, <2>4, <2>6 DEF Ordered, Precede
  <2> QED
    BY <2>1, <2>5, <2>6, <2>7 DEF Ordered
<1>2. ASSUME FanOut PROVE Ordered'
  <2>1. /\ events # <<>> /\ events' = Tail(events) /\ sub' \in {sub, Append(sub, Head(events))}
        /\ ToSet(events) = {Head(events)} \cup ToSet(events')
        /\ ToSet(sub') \subseteq ToSet(sub) \cup {Head(events)}
        /\ Live' \subseteq Live /\ UNCHANGED <<send, buf, wire>>
    BY <1>2, FanOutMoves DEF FanOut, serverVars
  <2>2. Head(events) \in Messages /\ Rising(events') /\ Precede({Head(events)}, ToSet(events'))
    BY <1>a, <2>1, RisingTail, Receiving DEF Ordered
  <2>3. Precede(ToSet(sub), {Head(events)})
    BY <2>1 DEF Ordered, Precede
  <2>4. Rising(sub')
    BY <1>a, <2>1, <2>2, <2>3, RisingAppend DEF Ordered
  <2>5. Precede(ToSet(sub'), ToSet(events'))
    BY <2>1, <2>2 DEF Ordered, Precede
  <2>6. OnWire' = OnWire
    BY <2>1 DEF OnWire
  <2>7. /\ Precede(OnWire, Live') /\ Precede(ToSet(buf), Live') /\ Precede(ToSet(send), Live')
    BY <2>1 DEF Ordered, Precede
  <2> QED
    BY <2>1, <2>2, <2>4, <2>5, <2>6, <2>7 DEF Ordered
<1>3. ASSUME Dispatch PROVE Ordered'
  <2> DEFINE e == Head(sub)
  <2>1. /\ sub # <<>> /\ sub' = Tail(sub) /\ send' \in {send, Append(send, e)}
        /\ ToSet(sub) = {e} \cup ToSet(sub')
        /\ ToSet(send') \subseteq ToSet(send) \cup {e}
        /\ UNCHANGED <<events, buf, wire>>
    BY <1>3, DispatchMoves DEF Dispatch
  <2>2. e \in Messages /\ Rising(sub') /\ Precede({e}, ToSet(sub'))
    BY <1>a, <2>1, RisingTail, Receiving DEF Ordered
  <2> HIDE DEF e
  <2>3. e \in Live /\ Live' \subseteq Live /\ OnWire' = OnWire
    BY <2>1 DEF Live, OnWire
  <2>4. Rising(send')
    <3>1. Precede(ToSet(send), {e})
      BY <2>3 DEF Ordered, Precede
    <3> QED
      BY <1>a, <2>1, <2>2, <3>1, RisingAppend DEF Ordered
  <2>5. Precede({e}, Live')
    <3>1. Precede({e}, ToSet(events'))
      BY <2>1 DEF Ordered, Precede
    <3> QED
      BY <2>2, <3>1 DEF Precede, Live
  <2>6. /\ Precede(OnWire, ToSet(send')) /\ Precede(OnWire, Live')
        /\ Precede(ToSet(buf), ToSet(send')) /\ Precede(ToSet(buf), Live')
        /\ Precede(ToSet(send'), Live') /\ Precede(ToSet(sub'), ToSet(events'))
    BY <2>1, <2>3, <2>5 DEF Ordered, Precede
  <2> QED
    BY <2>1, <2>2, <2>3, <2>4, <2>6 DEF Ordered
<1>4. ASSUME Accept PROVE Ordered'
  <2>1. /\ send' = <<Control("ack")>> /\ buf' = <<>> /\ wire' = <<>>
        /\ UNCHANGED <<events, sub>>
    BY <1>4 DEF Accept, OneWelcome
  <2>2. /\ Rising(send') /\ \A M : Precede(ToSet(send'), M)
    <3>1. \A i \in DOMAIN send' : send'[i].type = "ack"
      BY <2>1 DEF Control
    <3> QED
      BY <3>1 DEF Rising, Precede, ToSet
  <2>3. ToSet(buf') = {} /\ OnWire' = {} /\ Rising(buf') /\ DOMAIN wire' = {} /\ Live' = Live
    BY <1>b, <2>1 DEF OnWire, Live
  <2>4. \A M : Precede({}, M)
    BY DEF Precede
  <2> QED
    BY <2>1, <2>2, <2>3, <2>4 DEF Ordered
<1>5. ASSUME Close PROVE Ordered'
  <2>1. send' = <<>> /\ buf' = <<>> /\ wire' = <<>> /\ UNCHANGED <<events, sub>>
    BY <1>5 DEF Close
  <2>2. /\ ToSet(buf') = {} /\ ToSet(send') = {} /\ OnWire' = {} /\ Rising(buf')
        /\ Rising(send') /\ DOMAIN wire' = {} /\ Live' = Live
    BY <1>b, <2>1 DEF OnWire, Live
  <2>3. \A M : Precede({}, M)
    BY DEF Precede
  <2> QED
    BY <2>1, <2>2, <2>3 DEF Ordered
<1>6. ASSUME Coalesce PROVE Ordered'
  <2> DEFINE e == Head(send)
  <2>1. /\ send # <<>> /\ send' = Tail(send) /\ buf' = Append(buf, e)
        /\ ToSet(send) = {e} \cup ToSet(send') /\ ToSet(buf') = ToSet(buf) \cup {e}
        /\ UNCHANGED <<events, sub, wire>>
    BY <1>6, CoalesceMoves DEF Coalesce
  <2>2. e \in Messages /\ Rising(send') /\ Precede({e}, ToSet(send'))
    BY <1>a, <2>1, RisingTail, Receiving DEF Ordered
  <2> HIDE DEF e
  <2>3. Precede(ToSet(buf), {e})
    BY <2>1 DEF Ordered, Precede
  <2>4. Rising(buf')
    BY <1>a, <2>1, <2>2, <2>3, RisingAppend DEF Ordered
  <2>5. Live' = Live /\ OnWire' = OnWire
    BY <2>1 DEF Live, OnWire
  <2>6. /\ Precede(OnWire, ToSet(buf')) /\ Precede(OnWire, ToSet(send'))
        /\ Precede(ToSet(buf'), ToSet(send')) /\ Precede(ToSet(buf'), Live)
        /\ Precede(ToSet(send'), Live)
    BY <2>1, <2>2 DEF Ordered, Precede
  <2> QED
    BY <2>1, <2>2, <2>4, <2>5, <2>6 DEF Ordered
<1>7. ASSUME FlushBuf PROVE Ordered'
  <2>1. /\ wire' = Append(wire, buf) /\ buf' = <<>> /\ OnWire' = OnWire \cup ToSet(buf)
        /\ UNCHANGED <<events, sub, send>>
    BY <1>7, FlushBufMoves DEF FlushBuf
  <2>2. /\ Len(wire) \in Nat /\ DOMAIN wire = 1 .. Len(wire)
        /\ DOMAIN wire' = 1 .. Len(wire) + 1
        /\ wire'[Len(wire) + 1] = buf /\ \A i \in DOMAIN wire : wire'[i] = wire[i]
    BY <1>a, <2>1
  <2>3. \A i \in DOMAIN wire' : Rising(wire'[i])
    BY <2>2 DEF Ordered
  <2>4. \A i \in DOMAIN wire : Precede(ToSet(wire[i]), ToSet(buf))
    BY DEF Ordered, Precede, OnWire
  <2>5. \A i, j \in DOMAIN wire' : i < j => Precede(ToSet(wire'[i]), ToSet(wire'[j]))
    BY <2>2, <2>4 DEF Ordered
  <2>6. ToSet(buf') = {} /\ Rising(buf') /\ Live' = Live
    BY <1>b, <2>1 DEF Live
  <2>7. /\ Precede(OnWire', {}) /\ Precede({}, ToSet(send)) /\ Precede({}, Live)
        /\ Precede(OnWire', ToSet(send)) /\ Precede(OnWire', Live)
    BY <2>1 DEF Ordered, Precede
  <2> QED
    BY <2>1, <2>3, <2>5, <2>6, <2>7 DEF Ordered
<1>8. ASSUME OnFrame PROVE Ordered'
  <2>1. /\ wire # <<>> /\ UNCHANGED <<events, sub, send, buf>>
        /\ \A i \in DOMAIN wire' : i + 1 \in DOMAIN wire /\ wire'[i] = wire[i + 1]
        /\ OnWire' \subseteq OnWire
    BY <1>8, OnFrameMoves
  <2>2. \A i, j \in DOMAIN wire' : i < j => i + 1 < j + 1
    <3>1. DOMAIN wire' \subseteq Nat
      <4>1. wire # <<>> /\ wire' = Tail(wire)
        BY <1>8, OnFrameMoves
      <4> QED
        BY <1>a, <4>1
    <3> QED
      BY <3>1
  <2>3. \A i \in DOMAIN wire' : Rising(wire'[i])
    BY <2>1 DEF Ordered
  <2>4. \A i, j \in DOMAIN wire' : i < j => Precede(ToSet(wire'[i]), ToSet(wire'[j]))
    BY <2>1, <2>2 DEF Ordered
  <2>5. Live' = Live
    BY <2>1 DEF Live
  <2>6. /\ Precede(OnWire', ToSet(buf)) /\ Precede(OnWire', ToSet(send))
        /\ Precede(OnWire', Live)
    BY <2>1 DEF Ordered, Precede
  <2> QED
    BY <2>1, <2>3, <2>4, <2>5, <2>6 DEF Ordered
<1>9. ASSUME UNCHANGED <<events, sub, send, buf, wire>> PROVE Ordered'
  <2>1. Live' = Live /\ OnWire' = OnWire
    BY <1>9 DEF Live, OnWire
  <2> QED
    BY <1>9, <2>1 DEF Ordered
<1>10. ASSUME \/ \E p \in Publishers : AssignSeq(p) \/ Retain(p)
              \/ Register \/ ReadRequest \/ RefillTokens \/ UNCHANGED vars
       PROVE  UNCHANGED <<events, sub, send, buf, wire>>
  BY <1>10 DEF AssignSeq, Retain, Register, ReadRequest, RefillTokens, vars, publishVars,
               serverVars
<1>11. ~WriteReply
  BY DEF WriteReply
<1> QED
  BY <1>1, <1>2, <1>3, <1>4, <1>5, <1>6, <1>7, <1>8, <1>9, <1>10, <1>11
     DEF Next, Publish, WritePump, ReadPump

----------------------------------------------------------------------------
(* Every hole is waited for                                                *)

\* For as long as the peer sent nothing: the client's account is in order, and
\* until it has its first event nothing overtakes anything.
HoleInv ==
    /\ Recovering(Before, Coming)
    /\ Published(Coming) /\ Published(Live)
    /\ \A m \in Live : m.type = "event"
    /\ lastSeq = 0 => replies = <<>> /\ Ordered

\* The definitions above, of the state itself.
LEMMA OfTheState ==
    SeenBy(Before) = Seen /\ HolesOf(Before) = Holes
  BY DEF SeenBy, Before, Seen, HolesOf, Holes

\* A step that leaves the client alone keeps its account, if what it waits for
\* is still to come and nothing appears below the floor.
LEMMA ServerKeepsRecovering ==
    ASSUME Recovering(Before, Coming), UNCHANGED <<lastSeq, handled>>,
           seq \in Nat, seq' \in Nat, Stored \in Nat, Stored' \in Nat,
           seq <= seq', Stored <= Stored',
           lastSeq = 0 => up' = <<>> /\ \A m \in Coming' : m.type # "stale_state",
           \A f \in Seen : Floor(Before, Coming, f) =>
              /\ AtMost(f, Coming') /\ AtMost(f, Live')
              /\ \A i \in DOMAIN up' : f <= up'[i],
           ~cut' => ~cut /\ \A n \in Holes : Awaited(Before, Coming, n)
                                             => Awaited(Before', Coming', n)
    PROVE  Recovering(Before, Coming)'
<1>1. /\ HandledBy(Before) /\ Untouched(Before, Coming) /\ Founded(Before, Coming)
      /\ HolesAwaited(Before, Coming)
  BY DEF Recovering
<1>2. /\ Before.last = lastSeq /\ Before.seen = handled /\ Before.asks = up
      /\ Before'.last = lastSeq /\ Before'.seen = handled /\ Before'.asks = up'
  BY DEF Before
<1>3. SeenBy(Before) = Seen /\ SeenBy(Before)' = Seen /\ SeenBy(Before') = Seen
  BY <1>2, OfTheState DEF SeenBy
<1>4. Seen \subseteq 1 .. seq
  <2>1. \A e \in handled : e.seq \in 1 .. seq
    BY <1>1, <1>2 DEF HandledBy, Event
  <2> QED
    BY <2>1 DEF Seen
<1>5. HandledBy(Before)'
  <2>1. {Event(Here, n) : n \in 1 .. seq} \subseteq {Event(Here, n) : n \in 1 .. seq'}
    OBVIOUS
  <2>2. /\ handled \subseteq {Event(Here, n) : n \in 1 .. seq}
        /\ lastSeq > 0 => lastSeq \in Seen /\ lastSeq <= Stored
        /\ \A b \in Seen : b <= Stored \/ 1 .. b \subseteq Seen
    BY <1>1, <1>2, <1>3 DEF HandledBy
  <2>3. /\ handled \subseteq {Event(Here, n) : n \in 1 .. seq'}
        /\ lastSeq > 0 => lastSeq \in Seen /\ lastSeq <= Stored'
        /\ \A b \in Seen : b <= Stored' \/ 1 .. b \subseteq Seen
    <3>1. handled \subseteq {Event(Here, n) : n \in 1 .. seq'}
      BY <2>1, <2>2
    <3>2. lastSeq > 0 => lastSeq \in Seen /\ lastSeq <= Stored'
      <4> SUFFICES ASSUME lastSeq > 0 PROVE lastSeq \in Seen /\ lastSeq <= Stored'
        OBVIOUS
      <4>1. lastSeq \in Seen /\ lastSeq <= Stored
        BY <2>2
      <4>2. lastSeq \in Int
        BY <4>1, <1>4
      <4> QED
        BY <4>1, <4>2
    <3>3. \A b \in Seen : b <= Stored' \/ 1 .. b \subseteq Seen
      <4> SUFFICES ASSUME NEW b \in Seen, ~(1 .. b \subseteq Seen) PROVE b <= Stored'
        OBVIOUS
      <4>1. b <= Stored /\ b \in Int
        BY <2>2, <1>4
      <4> QED
        BY <4>1
    <3> QED
      BY <3>1, <3>2, <3>3
  <2> QED
    BY <2>3, <1>2, <1>3 DEF HandledBy
<1>6. Untouched(Before, Coming)'
  BY <1>1, <1>2 DEF Untouched
<1>7. Founded(Before, Coming)'
  <2> SUFFICES ASSUME lastSeq > 0 PROVE \E f \in Seen : Floor(Before, Coming, f)'
    BY <1>2, <1>3 DEF Founded
  <2>1. PICK f \in Seen : Floor(Before, Coming, f)
    BY <1>1, <1>2, <1>3 DEF Founded
  <2>2. f <= lastSeq
    BY <2>1, <1>2 DEF Floor
  <2>3. Floor(Before, Coming, f)'
    BY <2>1, <2>2, <1>2, <1>3 DEF Floor
  <2> QED
    BY <2>1, <2>3
<1>8. HolesAwaited(Before, Coming)'
  <2> SUFFICES ASSUME ~cut', NEW n \in HolesOf(Before)' PROVE Awaited(Before, Coming, n)'
    BY DEF HolesAwaited
  <2>1. n \in Holes
    <3>1. n \in 1 .. seq' /\ n \notin Seen /\ \E a, b \in Seen : a < n /\ n < b
      BY <1>3 DEF HolesOf
    <3> QED
      BY <3>1, <1>4 DEF Holes
  <2>2. Awaited(Before, Coming, n)
    BY <2>1, <1>1, OfTheState DEF HolesAwaited
  <2>3. Awaited(Before', Coming', n)
    BY <2>1, <2>2
  <2> QED
    BY <2>3 DEF Awaited
<1> QED
  BY <1>5, <1>6, <1>7, <1>8 DEF Recovering

\* A step that only moves messages towards the client, or loses some of those
\* it has no claim to, keeps the account; a published event is above the floor.
LEMMA FlowKeepsHoleInv ==
    ASSUME TypeOK, Recovering(Before, Coming), Published(Coming), Published(Live),
           \A m \in Live : m.type = "event",
           UNCHANGED <<lastSeq, handled, up>>,
           seq' \in Nat, Stored \in Nat, Stored' \in Nat, seq <= seq', Stored <= Stored',
           NEW E, \A e \in E : e = Event(Here, Stored) /\ Stored > 0,
           Coming' \subseteq Coming \cup Live, Live' \subseteq Live \cup E,
           ~cut' => ~cut /\ Coming \subseteq Coming'
    PROVE  /\ Recovering(Before, Coming)'
           /\ Published(Coming)' /\ Published(Live)'
           /\ \A m \in Live' : m.type = "event"
<1>1. \A e \in E : e.type = "event" /\ e.seq = Stored /\ e = Event(Here, e.seq)
  BY DEF Event
<1>2. \A m \in Live' : m.type = "event"
  BY <1>1
<1>3. Published(Coming)' /\ Published(Live)'
  BY <1>1 DEF Published
<1>4. seq \in Nat
  BY DEF TypeOK
<1>5. /\ HandledBy(Before) /\ Untouched(Before, Coming)
      /\ Before.last = lastSeq /\ Before.asks = up /\ Before'.asks = up
  BY DEF Recovering, Before
<1>6. lastSeq = 0 => up' = <<>> /\ \A m \in Coming' : m.type # "stale_state"
  BY <1>5 DEF Untouched
<1>7. ASSUME NEW f \in Seen, Floor(Before, Coming, f)
      PROVE  AtMost(f, Coming') /\ AtMost(f, Live') /\ \A i \in DOMAIN up' : f <= up'[i]
  <2>1. /\ f <= lastSeq /\ AtMost(f, Coming) /\ AtMost(f, Live)
        /\ \A i \in DOMAIN up : f <= up[i]
    BY <1>5, <1>7 DEF Floor
  <2>2. f \in Nat /\ f > 0
    <3>1. \A e \in handled : e.seq \in 1 .. seq
      BY <1>5 DEF HandledBy, Before, Event
    <3> QED
      BY <3>1, <1>4 DEF Seen
  <2>3. f <= Stored
    <3>1. lastSeq \in Nat /\ lastSeq > 0
      BY <2>1, <2>2 DEF TypeOK
    <3>2. lastSeq <= Stored
      BY <3>1, <1>5 DEF HandledBy
    <3> QED
      BY <2>1, <2>2, <3>1, <3>2
  <2> QED
    BY <2>1, <2>3, <1>1 DEF AtMost
<1>8. ~cut' => ~cut /\ \A n \in Holes : Awaited(Before, Coming, n)
                                        => Awaited(Before', Coming', n)
  BY <1>5 DEF Awaited
<1>9. Recovering(Before, Coming)'
  BY <1>4, <1>6, <1>7, <1>8, ServerKeepsRecovering
<1> QED
  BY <1>2, <1>3, <1>9

\* A replay's numbers, made into messages.
LEMMA ReplayMessages ==
    ASSUME NEW r \in Seq(Int)
    PROVE  LET evs == [i \in 1 .. Len(r) |-> Event(Here, r[i])]
           IN  /\ evs \in Seq({Event(Here, x) : x \in ToSet(r)}) /\ Len(evs) = Len(r)
               /\ \A i \in 1 .. Len(r) : evs[i] = Event(Here, r[i])
<1> DEFINE S == {Event(Here, x) : x \in ToSet(r)}
           evs == [i \in 1 .. Len(r) |-> Event(Here, r[i])]
<1>1. \A i \in 1 .. Len(r) : r[i] \in ToSet(r)
  BY DEF ToSet
<1>2. \A i \in 1 .. Len(r) : Event(Here, r[i]) \in S
  BY <1>1
<1>3. Len(r) \in Nat
  OBVIOUS
<1> HIDE DEF S
<1>4. evs \in Seq(S)
  BY <1>2, <1>3, IsASeq
<1>5. Len(evs) = Len(r)
  BY <1>3
<1> QED
  BY <1>4, <1>5 DEF S

\* A request is answered with every retained event it asks for, or with the
\* order to refetch; a hole below the last event is always still retained.
LEMMA AnswerFillsHoles ==
    ASSUME TypeOK, Numbered, LatestInRing, Client = "documented", HoleInv, ReadRequest
    PROVE  HoleInv'
<1> DEFINE from == Head(up)
<1>1. /\ up # <<>> /\ up \in Seq(1 .. MaxSeq + MaxForeign + 1) /\ up' = Tail(up)
      /\ replies = <<>> /\ replies' = Answer(from) /\ cut' = (cut \/ tokens = 0)
      /\ tokens \in Nat
      /\ UNCHANGED <<seq, pub, events, sub, send, buf, wire, lastSeq, handled>>
  BY DEF ReadRequest, TypeOK, publishVars
<1>2. /\ from \in Nat \ {0} /\ from = up[1] /\ 1 \in DOMAIN up
      /\ \A i \in DOMAIN up' : i + 1 \in DOMAIN up /\ up'[i] = up[i + 1]
      /\ \A i \in DOMAIN up : i = 1 \/ (i - 1 \in DOMAIN up' /\ up'[i - 1] = up[i])
  <2>1. from \in 1 .. MaxSeq + MaxForeign + 1
    BY <1>1, Receiving
  <2> QED
    BY <1>1, <2>1
<1> HIDE DEF from
<1>3. /\ Recovering(Before, Coming) /\ Published(Coming) /\ Published(Live)
      /\ \A m \in Live : m.type = "event"
  BY DEF HoleInv
<1>4. lastSeq \in Nat /\ lastSeq > 0 /\ seq \in Nat /\ Stored \in 0 .. seq
  <2>1. lastSeq = 0 => up = <<>>
    BY <1>3 DEF Recovering, Untouched, Before
  <2> QED
    BY <1>1, <2>1, StoredByCall DEF TypeOK
<1>5. Stored' = Stored /\ Live' = Live /\ OnWire' = OnWire
  BY <1>1 DEF Stored, Live, OnWire
<1>6. ASSUME NEW m \in ToSet(Answer(from))
      PROVE  \/ m.type # "event"
             \/ \E n \in 1 .. Stored : m = Event(Here, n) /\ from <= n
  <2> DEFINE evs == [i \in 1 .. Len(Replay(from)) |-> Event(Here, Replay(from)[i])]
  <2>1. /\ Replay(from) \in Seq(Int) /\ Len(Replay(from)) \in Nat
        /\ \A n \in ToSet(Replay(from)) : from <= n /\ n \in 1 .. Stored
    BY <1>2, RingAnswers
  <2>2. ASSUME NEW i \in DOMAIN Answer(from), m = Answer(from)[i]
        PROVE  \/ m.type # "event"
               \/ \E n \in 1 .. Stored : m = Event(Here, n) /\ from <= n
    <3>1. CASE \E t \in {"limited", "stale_state"} : Answer(from) = <<Control(t)>>
      BY <3>1, <2>2 DEF Control
    <3>2. CASE Answer(from) = evs \o <<Control("replay_complete")>>
      <4>1. evs \in Seq({Event(Here, x) : x \in ToSet(Replay(from))})
        BY <2>1, ReplayMessages
      <4>2. Control("replay_complete").type # "event"
        BY DEF Control
      <4> HIDE DEF evs
      <4>3. \/ m \in {Event(Here, x) : x \in ToSet(Replay(from))}
            \/ m = Control("replay_complete")
        BY <4>1, <3>2, <2>2
      <4> QED
        BY <2>1, <4>2, <4>3
    <3>3. \/ Answer(from) = <<Control("limited")>> \/ Answer(from) = <<Control("stale_state")>>
          \/ Answer(from) = evs \o <<Control("replay_complete")>>
      BY DEF Answer
    <3> QED
      BY <3>1, <3>2, <3>3
  <2> QED
    BY <2>2 DEF ToSet
<1>7. Coming' = Coming \cup ToSet(Answer(from))
  <2>1. ToSet(replies) = {}
    BY <1>1 DEF ToSet
  <2> QED
    BY <1>1, <1>5, <2>1 DEF Coming
<1>8. \A n : Event(Here, n).type = "event" /\ Event(Here, n).seq = n
  BY DEF Event
<1>9. Published(Coming)'
  BY <1>3, <1>5, <1>6, <1>7, <1>8 DEF Published
<1>10. Recovering(Before, Coming)'
  <2>1. ASSUME NEW f \in Seen, Floor(Before, Coming, f)
        PROVE  AtMost(f, Coming') /\ AtMost(f, Live') /\ \A i \in DOMAIN up' : f <= up'[i]
    <3>1. /\ AtMost(f, Coming) /\ AtMost(f, Live) /\ \A i \in DOMAIN up : f <= up[i]
      BY <2>1 DEF Floor, Before
    <3>2. f <= from /\ f \in Int
      <4>1. \A e \in handled : e.seq \in 1 .. seq
        BY <1>3 DEF Recovering, HandledBy, Before, Event
      <4> QED
        BY <3>1, <4>1, <1>2, <1>4 DEF Seen
    <3> QED
      BY <3>1, <3>2, <1>2, <1>5, <1>6, <1>7, <1>8 DEF AtMost
  <2>2. ASSUME ~cut', NEW n \in Holes, Awaited(Before, Coming, n)
        PROVE  Awaited(Before', Coming', n)
    <3>1. CASE \E m \in Coming : m = Event(Here, n) \/ m.type = "stale_state"
      BY <3>1, <1>7 DEF Awaited
    <3>2. CASE \E i \in DOMAIN up : i # 1 /\ up[i] <= n
      BY <3>2, <1>2 DEF Awaited, Before
    <3>3. CASE from <= n
      <4>1. tokens > 0
        <5>1. tokens # 0
          BY <2>2, <1>1, Zenon
        <5> QED
          BY <5>1, <1>1
      <4>2. CASE Evicted(from)
        <5>1. Answer(from) = <<Control("stale_state")>>
          BY <4>1, <4>2 DEF Answer
        <5>2. Control("stale_state") \in ToSet(Answer(from))
          BY <5>1 DEF ToSet
        <5> QED
          BY <5>2, <1>7 DEF Awaited, Control
      <4>3. CASE ~Evicted(from)
        <5>1. n \in from .. Stored
          <6>1. PICK b \in Seen : n < b /\ n \notin Seen /\ n \in 1 .. seq
            BY <2>2 DEF Holes
          <6>2. b <= Stored \/ 1 .. b \subseteq Seen
            BY <1>3, OfTheState DEF Recovering, HandledBy
          <6>3. b \in 1 .. seq
            BY <1>3 DEF Recovering, HandledBy, Before, Event, Seen
          <6> QED
            BY <6>1, <6>2, <6>3, <1>2, <1>4, <3>3
        <5>2. n \in ToSet(Replay(from)) /\ Replay(from) \in Seq(Int)
          BY <5>1, <4>3, <1>2, RingAnswers
        <5>3. PICK k \in 1 .. Len(Replay(from)) : Replay(from)[k] = n
          BY <5>2 DEF ToSet
        <5> DEFINE evs == [i \in 1 .. Len(Replay(from)) |-> Event(Here, Replay(from)[i])]
        <5>4. Answer(from) = evs \o <<Control("replay_complete")>>
          BY <4>1, <4>3 DEF Answer
        <5>5. evs \in Seq({Event(Here, x) : x \in ToSet(Replay(from))}) /\ Len(evs) = Len(Replay(from))
          BY <5>2, ReplayMessages
        <5>6. evs[k] = Event(Here, n)
          BY <5>3
        <5> HIDE DEF evs
        <5>7. k \in DOMAIN Answer(from) /\ Answer(from)[k] = Event(Here, n)
          BY <5>3, <5>4, <5>5, <5>6
        <5> QED
          BY <5>7, <1>7 DEF Awaited, ToSet
      <4> QED
        BY <4>2, <4>3
    <3> QED
      BY <3>1, <3>2, <3>3, <2>2, <1>2 DEF Awaited, Before
  <2>3. ~cut' => ~cut
    BY <1>1, Zenon
  <2> QED
    BY <1>1, <1>3, <1>4, <1>5, <2>1, <2>2, <2>3, ServerKeepsRecovering
<1> QED
  BY <1>1, <1>3, <1>4, <1>5, <1>9, <1>10 DEF HoleInv, Published

\* A frame's lines keep the account one after the other; until the first event
\* nothing that follows a line is below it.
LEMMA FrameKeepsHoleInv ==
    ASSUME TypeOK, Numbered, LatestInRing, Client = "documented", HoleInv, OnFrame
    PROVE  /\ Recovering(Before, Coming)' /\ Published(Coming)' /\ Published(Live)'
           /\ \A m \in Live' : m.type = "event"
           /\ lastSeq' = 0 => lastSeq = 0
<1> DEFINE frame == Head(wire)
           n == Len(frame)
           Others == ToSet(replies) \cup ToSet(send) \cup ToSet(buf) \cup OnWire'
           Left(k) == {frame[j] : j \in k + 1 .. n} \cup Others
<1>1. /\ Before \in ClientState /\ After \in ClientState /\ frame \in Seq(Messages)
      /\ wire # <<>> /\ frame = wire[1] /\ 1 \in DOMAIN wire
      /\ wire \in Seq(Seq(Messages)) /\ wire' = Tail(wire)
      /\ lastSeq' = After.last /\ handled' = After.seen /\ up' = After.asks
  <2>1. wire \in Seq(Seq(Messages)) /\ wire # <<>>
    BY DEF TypeOK, OnFrame
  <2>2. Head(wire) = wire[1]
    BY <2>1
  <2> QED
    BY <2>1, <2>2, OnFrameFields, OnFrameMoves
<1>2. /\ UNCHANGED <<seq, pub, events, sub, send, buf, replies, cut>>
      /\ OnWire = ToSet(frame) \cup OnWire'
      /\ \A i \in DOMAIN wire' : i + 1 \in DOMAIN wire /\ wire'[i] = wire[i + 1]
  BY OnFrameMoves
<1>3. n \in Nat /\ DOMAIN frame = 1 .. n /\ \A i \in 1 .. n : frame[i] \in Messages
  BY <1>1
<1>4. PICK after \in [0 .. n -> ClientState] :
         /\ after[0] = Before
         /\ \A i \in 1 .. n : after[i] = OnMessage(after[i - 1], frame[i])
         /\ OnLines(frame, Before) = after[n]
  <2>1. seq \in 0 .. MaxSeq
    BY DEF TypeOK
  <2> HIDE DEF frame
  <2> QED
    BY <1>1, <2>1, OnLinesStages
<1>5. After = after[n]
  BY <1>4 DEF After, Readable
<1>6. Coming' = Others /\ Coming = ToSet(frame) \cup Others /\ Live' = Live /\ Stored' = Stored
  BY <1>2 DEF Coming, Live, Stored
<1>7. /\ Recovering(Before, Coming) /\ Published(Coming) /\ Published(Live)
      /\ \A m \in Live : m.type = "event"
      /\ lastSeq = 0 => replies = <<>> /\ Ordered
  BY DEF HoleInv
<1>8. ASSUME lastSeq = 0, NEW k \in 1 .. n, frame[k].type = "event"
      PROVE  AtMost(frame[k].seq, Left(k)) /\ AtMost(frame[k].seq, Live)
  <2> DEFINE m == frame[k]
  <2>1. Ordered /\ ToSet(replies) = {} /\ m \in ToSet(frame) /\ m \in OnWire
    BY <1>2, <1>3, <1>7, <1>8 DEF ToSet
  <2>2. AtMost(m.seq, Live) /\ AtMost(m.seq, ToSet(send)) /\ AtMost(m.seq, ToSet(buf))
    BY <1>8, <2>1 DEF Ordered, Precede, AtMost
  <2>3. AtMost(m.seq, OnWire')
    <3>1. ASSUME NEW i \in DOMAIN wire', NEW x \in ToSet(wire'[i]), x.type = "event"
          PROVE  m.seq <= x.seq
      <4>1. i + 1 \in DOMAIN wire /\ 1 < i + 1 /\ wire'[i] = wire[i + 1]
        <5>1. i \in Nat \ {0}
          BY <1>1
        <5> QED
          BY <5>1, <1>2
      <4>2. Precede(ToSet(wire[1]), ToSet(wire[i + 1]))
        BY <1>1, <2>1, <4>1 DEF Ordered
      <4> QED
        BY <4>1, <4>2, <3>1, <2>1, <1>1, <1>8 DEF Precede
    <3> QED
      BY <3>1 DEF AtMost, OnWire
  <2>4. AtMost(m.seq, {frame[j] : j \in k + 1 .. n})
    <3>1. Rising(frame)
      BY <1>1, <2>1 DEF Ordered
    <3>2. ASSUME NEW j \in k + 1 .. n, frame[j].type = "event" PROVE m.seq <= frame[j].seq
      <4>1. j \in DOMAIN frame /\ k \in DOMAIN frame /\ k < j
        BY <1>3
      <4> QED
        BY <3>1, <3>2, <4>1, <1>8 DEF Rising, Precede
    <3> QED
      BY <3>2 DEF AtMost
  <2> QED
    BY <2>1, <2>2, <2>3, <2>4 DEF AtMost
<1> DEFINE P == {k \in Nat : k <= n => /\ Recovering(after[k], Left(k))
                                       /\ after[k].last = 0 => lastSeq = 0}
<1>9. 0 \in P
  <2>1. Left(0) = Coming
    BY <1>3, <1>6 DEF ToSet
  <2>2. Before.last = lastSeq
    BY DEF Before
  <2> QED
    BY <2>1, <2>2, <1>4, <1>7
<1>10. ASSUME NEW k \in P PROVE k + 1 \in P
  <2>1. k \in Nat /\ (k <= n => /\ Recovering(after[k], Left(k))
                                /\ after[k].last = 0 => lastSeq = 0)
    OBVIOUS
  <2> SUFFICES ASSUME k + 1 <= n
               PROVE  /\ Recovering(after[k + 1], Left(k + 1))
                      /\ after[k + 1].last = 0 => lastSeq = 0
    BY <2>1
  <2> DEFINE m == frame[k + 1]
  <2>2. /\ k + 1 \in 1 .. n /\ (k + 1) - 1 = k /\ k \in 0 .. n
        /\ Recovering(after[k], Left(k)) /\ (after[k].last = 0 => lastSeq = 0)
    BY <2>1, <1>3
  <2>3. after[k] \in ClientState /\ m \in Messages /\ after[k + 1] = OnMessage(after[k], m)
    BY <2>2, <1>3, <1>4
  <2>4. Left(k) = {m} \cup Left(k + 1)
    <3>1. k + 1 .. n = {k + 1} \cup (k + 1 + 1 .. n)
      BY <2>2, <1>3
    <3> HIDE DEF Others
    <3> QED
      BY <3>1
  <2>5. Published({m})
    <3>1. m \in Coming
      BY <2>2, <1>3, <1>6 DEF ToSet
    <3> HIDE DEF m
    <3> QED
      BY <3>1, <1>7 DEF Published
  <2>6. after[k].last = 0 /\ m.type = "event"
           => AtMost(m.seq, Left(k + 1)) /\ AtMost(m.seq, Live)
    <3> HIDE DEF Left
    <3> QED
      BY <2>2, <1>8
  <2>7. seq \in 0 .. MaxSeq /\ Stored \in 0 .. seq
    BY StoredByCall DEF TypeOK
  <2> HIDE DEF m, Left, n
  <2>8. Recovering(OnMessage(after[k], m), Left(k + 1))
    BY <2>2, <2>3, <2>4, <2>5, <2>6, <2>7, LineKeepsRecovering
  <2>9. OnMessage(after[k], m).last = 0 => after[k].last = 0
    <3>1. CASE m.type = "event"
      <4>1. OnMessage(after[k], m).last = Later(m.seq, after[k].last)
        BY <2>3, <2>7, <3>1, OnMessageFields
      <4>2. m.seq \in Nat /\ m.seq > 0 /\ after[k].last \in Nat
        BY <2>3, <3>1, MessageShapes DEF ClientState
      <4> QED
        BY <4>1, <4>2 DEF Later
    <3>2. CASE m.type # "event"
      BY <2>3, <2>7, <3>2, OnMessageFields
    <3> QED
      BY <3>1, <3>2
  <2> QED
    BY <2>2, <2>3, <2>8, <2>9
<1>11. n \in P
  <2> HIDE DEF P
  <2>1. P \in SUBSET Nat
    BY DEF P
  <2> QED
    BY <2>1, <1>3, <1>9, <1>10, NatInductionSet
<1>12. Left(n) = Others
  BY <1>3
<1>13. Recovering(After, Others) /\ (After.last = 0 => lastSeq = 0)
  <2> HIDE DEF Left, n, Others
  <2>1. Recovering(after[n], Left(n)) /\ (after[n].last = 0 => lastSeq = 0)
    BY <1>3, <1>11
  <2> QED
    BY <2>1, <1>5, <1>12
<1>14. Before' = After
  <2>1. After = [last |-> After.last, seen |-> After.seen, asks |-> After.asks]
    BY <1>1 DEF ClientState
  <2> QED
    BY <2>1, <1>1 DEF Before
<1>15. Recovering(Before', Coming')
  BY <1>6, <1>13, <1>14
<1>16. Recovering(Before, Coming)'
  BY <1>15, <1>2, <1>6 DEF Recovering, HandledBy, Untouched, Founded, Floor, HolesAwaited,
                           HolesOf, Awaited, SeenBy, AtMost
<1>17. Published(Coming)' /\ Published(Live)' /\ \A m \in Live' : m.type = "event"
  BY <1>6, <1>7 DEF Published
<1> QED
  BY <1>1, <1>13, <1>16, <1>17

\* Every step keeps the account, as long as Publish calls take turns.
LEMMA NextHoleInv ==
    ASSUME TypeOK, Numbered, LatestInRing, OneWelcome, InTurn, InTurn',
           Client = "documented", foreign' = 0, HoleInv, [Next]_vars
    PROVE  HoleInv'
<1>1. /\ Recovering(Before, Coming) /\ Published(Coming) /\ Published(Live)
      /\ \A m \in Live : m.type = "event"
      /\ lastSeq = 0 => replies = <<>> /\ Ordered
  BY DEF HoleInv
<1>2. /\ seq \in Nat /\ seq' \in Nat /\ seq <= seq'
      /\ Stored \in Nat /\ Stored' \in Nat /\ Stored <= Stored'
  <2>1. Stored \in 0 .. seq /\ seq \in Nat /\ LatestInRing' /\ seq' \in Nat /\ seq <= seq'
        /\ Stored <= Stored'
    BY StoredByCall, NextInRing
  <2>2. Stored' \in Int
    BY <2>1 DEF Stored
  <2> QED
    BY <2>1, <2>2
<1>3. ~StreamEvent
  BY DEF StreamEvent, TypeOK
<1>4. lastSeq = 0 => up = <<>>
  BY <1>1 DEF Recovering, Untouched, Before
<1> DEFINE Goal == /\ Recovering(Before, Coming)' /\ Published(Coming)' /\ Published(Live)'
                   /\ \A m \in Live' : m.type = "event"
                   /\ lastSeq' = 0 => lastSeq = 0 /\ replies' = <<>>
<1>5. ASSUME Goal PROVE HoleInv'
  <2>1. lastSeq' = 0 => Ordered'
    BY <1>1, <1>3, <1>5, NextOrdered
  <2> QED
    BY <1>5, <2>1 DEF HoleInv
<1>6. ASSUME UNCHANGED <<lastSeq, handled, up>>, lastSeq = 0 => replies' = <<>>,
             NEW E, \A e \in E : e = Event(Here, Stored) /\ Stored > 0,
             Coming' \subseteq Coming \cup Live, Live' \subseteq Live \cup E,
             ~cut' => ~cut /\ Coming \subseteq Coming'
      PROVE  Goal
  BY <1>1, <1>2, <1>6, FlowKeepsHoleInv
<1> HIDE DEF Goal
<1>7. ASSUME NEW p \in Publishers, Enqueue(p) PROVE Goal
  <2>1. /\ ToSet(events') \subseteq ToSet(events) \cup {Event(Here, pub[p].seq)}
        /\ UNCHANGED <<sub, send, buf, replies, wire, up, lastSeq, handled, cut>>
    BY <1>7, EnqueueMoves DEF Enqueue, serverVars, clientVars
  <2>2. pub[p].seq = Stored /\ Stored > 0
    <3>1. pub[p].at = "send" /\ pub[p].seq = seq /\ pub[p].seq # 0
      BY <1>7 DEF Enqueue, LatestInRing, Numbered
    <3>2. ~(\E q \in Publishers : pub[q].at = "ring")
      BY <3>1 DEF InTurn
    <3> QED
      BY <1>2, <3>1, <3>2, StoredByCall
  <2> DEFINE E == {Event(Here, Stored)}
  <2>3. Coming' = Coming /\ Live' \subseteq Live \cup E
    BY <2>1, <2>2 DEF Coming, OnWire, Live
  <2>4. \A e \in E : e = Event(Here, Stored) /\ Stored > 0
    BY <2>2
  <2> HIDE DEF E
  <2> QED
    BY <1>1, <1>6, <2>1, <2>3, <2>4
<1>8. ASSUME FanOut PROVE Goal
  <2>1. UNCHANGED <<send, buf, replies, wire, up, lastSeq, handled, cut>> /\ Live' \subseteq Live
    BY <1>8, FanOutMoves DEF FanOut, serverVars, clientVars
  <2>2. Coming' = Coming
    BY <2>1 DEF Coming, OnWire
  <2> QED
    BY <1>1, <1>6, <2>1, <2>2
<1>9. ASSUME Dispatch PROVE Goal
  <2>1. /\ UNCHANGED <<events, buf, replies, wire, up, lastSeq, handled, cut>>
        /\ ToSet(sub) = {Head(sub)} \cup ToSet(sub')
        /\ ToSet(send) \subseteq ToSet(send')
        /\ ToSet(send') \subseteq ToSet(send) \cup {Head(sub)}
    BY <1>9, DispatchMoves DEF Dispatch, clientVars
  <2>2. Coming \subseteq Coming' /\ Coming' \subseteq Coming \cup Live /\ Live' \subseteq Live
    BY <2>1 DEF Coming, OnWire, Live
  <2> QED
    BY <1>1, <1>6, <2>1, <2>2
<1>10. ASSUME Coalesce \/ FlushBuf PROVE Goal
  <2>1. /\ UNCHANGED <<events, sub, replies, up, lastSeq, handled, cut>> /\ Coming' = Coming
    BY <1>10, CoalesceMoves, FlushBufMoves DEF Coalesce, FlushBuf, clientVars
  <2>2. Live' = Live
    BY <2>1 DEF Live
  <2> QED
    BY <1>1, <1>6, <2>1, <2>2
<1>11. ASSUME WriteReply PROVE Goal
  <2>1. /\ UNCHANGED <<events, sub, up, lastSeq, handled>> /\ Coming' \subseteq Coming
        /\ (~cut' => ~cut /\ Coming' = Coming) /\ replies # <<>>
    BY <1>11, WriteReplyMoves DEF WriteReply
  <2>2. Live' = Live
    BY <2>1 DEF Live
  <2> QED
    BY <1>1, <1>6, <2>1, <2>2
<1>12. ASSUME \/ \E p \in Publishers : AssignSeq(p) \/ Retain(p)
              \/ Register \/ RefillTokens \/ UNCHANGED vars
       PROVE  Goal
  <2>1. UNCHANGED <<events, sub, send, buf, replies, wire, up, lastSeq, handled, cut>>
    BY <1>12, OthersMoveNothing
  <2>2. Live' = Live /\ Coming' = Coming
    BY <2>1 DEF Live, Coming, OnWire
  <2> QED
    BY <1>1, <1>6, <2>1, <2>2
<1>13. ASSUME Accept PROVE Goal
  <2>1. /\ UNCHANGED <<events, sub, replies, lastSeq, handled, cut>>
        /\ send' = <<Control("ack")>> /\ buf' = <<>> /\ wire' = <<>> /\ replies' = <<>>
        /\ send = <<>> /\ buf = <<>> /\ wire = <<>> /\ up = <<>>
        /\ up' = IF lastSeq > 0 THEN <<lastSeq + 1>> ELSE <<>>
    BY <1>13 DEF Accept, OneWelcome, clientVars
  <2>2. Live' = Live /\ Coming = {} /\ Coming' = {Control("ack")}
    BY <2>1 DEF Live, Coming, OnWire, ToSet
  <2>3. Control("ack").type = "ack"
    BY DEF Control
  <2>4. lastSeq = 0 => up' = <<>> /\ \A m \in Coming' : m.type # "stale_state"
    BY <2>1, <2>2, <2>3
  <2>5. ASSUME NEW f \in Seen, Floor(Before, Coming, f)
        PROVE  AtMost(f, Coming') /\ AtMost(f, Live') /\ \A i \in DOMAIN up' : f <= up'[i]
    <3>1. f <= lastSeq /\ AtMost(f, Live) /\ f \in Int
      <4>1. \A e \in handled : e.seq \in 1 .. seq
        BY <1>1 DEF Recovering, HandledBy, Before, Event
      <4> QED
        BY <2>5, <4>1 DEF Floor, Before, Seen
    <3>2. lastSeq \in Nat
      BY DEF TypeOK
    <3>3. \A i \in DOMAIN up' : up'[i] = lastSeq + 1
      BY <2>1
    <3> QED
      BY <3>1, <3>2, <3>3, <2>2, <2>3 DEF AtMost
  <2>6. \A n : ~Awaited(Before, Coming, n)
    BY <2>1, <2>2 DEF Awaited, Before
  <2>7. Recovering(Before, Coming)'
    BY <1>1, <1>2, <2>1, <2>4, <2>5, <2>6, ServerKeepsRecovering
  <2>8. Published(Coming)' /\ Published(Live)'
    BY <1>1, <1>2, <2>2, <2>3 DEF Published
  <2> QED
    BY <1>1, <2>1, <2>2, <2>7, <2>8 DEF Goal
<1>14. ASSUME Close PROVE Goal
  <2>1. /\ UNCHANGED <<events, sub, lastSeq, handled>>
        /\ send' = <<>> /\ buf' = <<>> /\ wire' = <<>> /\ replies' = <<>> /\ up' = <<>>
        /\ cut' = (cut \/ Holes # {})
    BY <1>14 DEF Close
  <2>2. Live' = Live /\ Coming' = {}
    BY <2>1 DEF Live, Coming, OnWire, ToSet
  <2>3. ~cut' => ~cut /\ Holes = {}
    BY <2>1, Zenon
  <2>4. lastSeq = 0 => up' = <<>> /\ \A m \in Coming' : m.type # "stale_state"
    BY <2>1, <2>2
  <2>5. ASSUME NEW f \in Seen, Floor(Before, Coming, f)
        PROVE  AtMost(f, Coming') /\ AtMost(f, Live') /\ \A i \in DOMAIN up' : f <= up'[i]
    BY <2>1, <2>2, <2>5 DEF Floor, AtMost
  <2>6. Recovering(Before, Coming)'
    BY <1>1, <1>2, <2>1, <2>3, <2>4, <2>5, ServerKeepsRecovering
  <2>7. Published(Coming)' /\ Published(Live)'
    BY <1>1, <1>2, <2>2 DEF Published
  <2> QED
    BY <1>1, <2>1, <2>2, <2>6, <2>7 DEF Goal
<1>15. ASSUME OnFrame PROVE Goal
  <2>1. UNCHANGED replies
    BY <1>15, OnFrameMoves
  <2> QED
    BY <1>1, <1>15, <2>1, FrameKeepsHoleInv DEF Goal
<1>16. ASSUME ReadRequest PROVE HoleInv'
  BY <1>16, AnswerFillsHoles
<1> QED
  BY <1>3, <1>5, <1>7, <1>8, <1>9, <1>10, <1>11, <1>12, <1>13, <1>14, <1>15, <1>16
     DEF Next, Publish, WritePump, ReadPump

\* The client's account is in order until the peer sends something.
LEMMA HoleInvariant ==
    ASSUME Client = "documented"
    PROVE  Spec /\ []InTurn => [](foreign = 0 => HoleInv)
<1>1. Init => HoleInv
  <2> SUFFICES ASSUME Init PROVE HoleInv
    OBVIOUS
  <2>1. /\ handled = {} /\ lastSeq = 0 /\ up = <<>> /\ replies = <<>> /\ send = <<>>
        /\ buf = <<>> /\ wire = <<>> /\ events = <<>> /\ sub = <<>>
    BY DEF Init
  <2>2. Coming = {} /\ Live = {} /\ OnWire = {}
    BY <2>1 DEF Coming, Live, OnWire, ToSet
  <2>3. Before.last = 0 /\ Before.seen = {} /\ Before.asks = <<>> /\ SeenBy(Before) = {}
    BY <2>1 DEF Before, SeenBy
  <2>4. Recovering(Before, Coming)
    BY <2>2, <2>3 DEF Recovering, HandledBy, Untouched, Founded, HolesAwaited, HolesOf
  <2>5. Ordered
    BY <2>1, <2>2 DEF Ordered, Rising, Precede, ToSet
  <2> QED
    BY <2>1, <2>2, <2>4, <2>5 DEF HoleInv, Published
<1>2. TypeOK /\ [Next]_vars /\ foreign' = 0 => foreign = 0
  <2> SUFFICES ASSUME TypeOK, [Next]_vars, foreign' = 0 PROVE foreign = 0
    OBVIOUS
  <2>1. StreamEvent => foreign' = foreign + 1
    BY DEF StreamEvent
  <2>2. ~StreamEvent => foreign' = foreign
    BY DEF Next, Publish, WritePump, ReadPump, AssignSeq, Retain, Enqueue, FanOut, Dispatch,
           Accept, Register, Close, Coalesce, FlushBuf, ReadRequest, WriteReply,
           RefillTokens, OnFrame, vars, publishVars
  <2> QED
    BY <2>1, <2>2 DEF TypeOK
<1>3. (TypeOK /\ Numbered) /\ LatestInRing /\ (OneWelcome /\ WelcomeFirst) /\ InTurn /\ InTurn'
         /\ (foreign = 0 => HoleInv) /\ [Next]_vars => (foreign = 0 => HoleInv)'
  BY <1>2, NextHoleInv
<1> QED
  BY <1>1, <1>3, TypeCorrect, RingInvariant, WelcomeInvariant, PTL DEF Spec

\* As long as Publish calls take turns and the peer sends nothing, a client that
\* follows the protocol is left with a hole only if an answer it relied on was
\* lost (broadcaster.go Replay, handler.go handleRetry, client.ts onFrame).
THEOREM HolesAreCut ==
    ASSUME Client = "documented"
    PROVE  Spec /\ []InTurn => []HolesOnlyWhenCut
<1>1. (foreign = 0 => HoleInv) => HolesOnlyWhenCut
  <2> SUFFICES ASSUME HoleInv, Quiet, ~cut PROVE Holes = {}
    BY DEF HolesOnlyWhenCut, NoSilentHole
  <2>1. \A n \in Holes : Awaited(Before, Coming, n)
    BY OfTheState DEF HoleInv, Recovering, HolesAwaited
  <2>2. Coming = {} /\ Before.asks = <<>>
    BY DEF Quiet, Coming, OnWire, ToSet, Before
  <2> QED
    BY <2>1, <2>2 DEF Awaited
<1> QED
  BY <1>1, HoleInvariant, PTL

=============================================================================

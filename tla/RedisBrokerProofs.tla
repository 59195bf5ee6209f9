------------------------- MODULE RedisBrokerProofs -------------------------
(***************************************************************************)
(* The safety of the Redis broker for any number of streams and events and *)
(* any buffer size.  ClosedInv says who can have closed a channel; from it *)
(* follow what a panic and a zero event need.  OrderInv orders a stream's  *)
(* buffer and its inbox separately and against each other, which is what   *)
(* a step of the pump keeps; EventInv says what a repeated PUBLISH is.     *)
(***************************************************************************)
EXTENDS RedisBroker, Integers, SequenceTheorems, TLAPS

LEMMA PublishedNat == ASSUME event \in Seq(Nat) PROVE published \in Nat
  BY DEF published

\* What appending to a queue does to its elements.
LEMMA AppendFacts ==
    ASSUME NEW q \in Seq(Nat), NEW e \in Nat
    PROVE  /\ Append(q, e) \in Seq(Nat)
           /\ Len(Append(q, e)) = Len(q) + 1
           /\ DOMAIN Append(q, e) = 1 .. Len(q) + 1
           /\ \A i \in 1 .. Len(q) : Append(q, e)[i] = q[i]
           /\ Append(q, e)[Len(q) + 1] = e
  OBVIOUS

\* What taking the first element leaves in a queue.
LEMMA TailFacts ==
    ASSUME NEW q \in Seq(Nat), q # <<>>
    PROVE  /\ Tail(q) \in Seq(Nat)
           /\ Len(q) \in Nat \ {0}
           /\ Len(Tail(q)) = Len(q) - 1
           /\ DOMAIN Tail(q) = 1 .. Len(q) - 1
           /\ \A i \in 1 .. Len(q) - 1 : Tail(q)[i] = q[i + 1]
           /\ Head(q) = q[1] /\ Head(q) \in Nat
  OBVIOUS

----------------------------------------------------------------------------
(* Who closes channels. *)

\* A channel is closed by the Unsubscribe of its stream, or by its pump when the feed
\* has ended; a stream not yet opened has no pump.
ClosedInv ==
    /\ \A s \in closed : stream[s] = "done" \/ (pump[s] = "ended" /\ s \in ended)
    /\ \A s \in Streams : stream[s] = "new" => pump[s] = "none"

ControlInv == TypeOK /\ ClosedInv /\ PanicNeedsDeparture /\ BlankNeedsEndedFeed

LEMMA InitControl == Init => ControlInv
<1> SUFFICES ASSUME Init PROVE ControlInv
  OBVIOUS
<1>1. <<>> \in Seq(Nat) /\ Len(<<>>) = 0
  OBVIOUS
<1>2. /\ inbox \in [Streams -> Seq(Nat)] /\ buf \in [Streams -> Seq(Nat)]
      /\ \A s \in Streams : Len(buf[s]) <= Capacity
  BY <1>1, RedisAssumption DEF Init
<1>3. /\ event \in Seq(Nat)
      /\ linked \subseteq Streams /\ ended \subseteq Streams /\ closed \subseteq Streams
      /\ blank \subseteq Streams /\ got \in [Streams -> Nat]
  BY DEF Init
<1>4. /\ pump \in [Streams -> {"none", "running", "ended"}]
      /\ stream \in [Streams -> {"new", "open", "leaving", "done"}]
  BY DEF Init
<1>5. panicked \in BOOLEAN /\ PanicNeedsDeparture
  BY Zenon DEF Init, PanicNeedsDeparture
<1>6. ClosedInv /\ BlankNeedsEndedFeed
  BY DEF Init, ClosedInv, BlankNeedsEndedFeed
<1> QED BY <1>2, <1>3, <1>4, <1>5, <1>6, Zenon DEF ControlInv, TypeOK

\* A call of Publish and a repetition are both a PUBLISH of some event.
LEMMA TakenSomething ==
    ASSUME event \in Seq(Nat), Publish \/ \E e \in 1 .. published : Resend(e)
    PROVE  \E e \in 1 .. published + 1 : Taken(e)
<1>1. published \in Nat
  BY PublishedNat
<1>2. CASE Publish
  <2>1. published + 1 \in 1 .. published + 1 /\ Taken(published + 1)
    BY <1>1, <1>2 DEF Publish
  <2> QED BY <2>1
<1>3. ASSUME NEW e \in 1 .. published, Resend(e)
      PROVE  e \in 1 .. published + 1 /\ Taken(e)
  BY <1>1, <1>3 DEF Resend
<1> QED BY <1>2, <1>3

LEMMA ControlStep == ControlInv /\ [Next]_vars => ControlInv'
<1> SUFFICES ASSUME ControlInv, [Next]_vars PROVE ControlInv'
  OBVIOUS
<1> USE RedisAssumption
    DEF ControlInv, TypeOK, ClosedInv, PanicNeedsDeparture, BlankNeedsEndedFeed
<1>1. ASSUME NEW s \in Streams, ConnectionLost(s) PROVE ControlInv'
  BY <1>1 DEF ConnectionLost, client
<1>2. ASSUME NEW s \in Streams, Reconnect(s) PROVE ControlInv'
  BY <1>2 DEF Reconnect, client
<1>3. ASSUME NEW s \in Streams, FeedEnds(s) PROVE ControlInv'
  BY <1>3 DEF FeedEnds, client
<1>4. ASSUME NEW s \in Streams, Subscribe(s) PROVE ControlInv'
  BY <1>4 DEF Subscribe
<1>5. ASSUME NEW e \in Nat, Taken(e) PROVE ControlInv'
  <2>1. published + 1 \in Nat
    BY PublishedNat
  <2>e. event' \in Seq(Nat)
    BY <1>5, AppendFacts DEF Taken
  <2>2. ASSUME NEW s \in Streams PROVE inbox'[s] \in Seq(Nat)
    <3>1. Append(inbox[s], published + 1) \in Seq(Nat)
      BY <2>1, AppendFacts
    <3> QED BY <1>5, <3>1 DEF Taken
  <2>3. inbox' \in [Streams -> Seq(Nat)]
    BY <1>5, <2>2 DEF Taken
  <2> QED BY <1>5, <2>e, <2>3 DEF Taken, client
<1>6. ASSUME NEW s \in Streams, Pump(s), ~panicked PROVE ControlInv'
  <2>1. Tail(inbox[s]) \in Seq(Nat) /\ Head(inbox[s]) \in Nat
    BY <1>6, TailFacts DEF Pump
  <2>2. inbox' \in [Streams -> Seq(Nat)]
    BY <1>6, <2>1 DEF Pump
  <2>3. ASSUME NEW t \in Streams
        PROVE  buf'[t] \in Seq(Nat) /\ Len(buf'[t]) <= Capacity
    BY <1>6, <2>1, AppendFacts DEF Pump
  <2>4. buf' \in [Streams -> Seq(Nat)]
    <3>1. buf \in [Streams -> Seq(Nat)]
      OBVIOUS
    <3> HIDE DEF ControlInv, TypeOK, ClosedInv, PanicNeedsDeparture, BlankNeedsEndedFeed
    <3>2. DOMAIN buf' = Streams /\ buf' = [t \in Streams |-> buf'[t]]
      BY <1>6, <3>1 DEF Pump
    <3> QED BY <2>3, <3>2
  <2> QED BY <1>6, <2>2, <2>3, <2>4, SMTT(30) DEF Pump, redis, client
<1>7. ASSUME NEW s \in Streams, PumpEnds(s) PROVE ControlInv'
  BY <1>7 DEF PumpEnds, redis, client
<1>8. ASSUME NEW s \in Streams, Unsubscribe(s) PROVE ControlInv'
  BY <1>8 DEF Unsubscribe, redis
<1>9. ASSUME NEW s \in Streams, Forward(s) PROVE ControlInv'
  <2>1. CASE buf[s] # <<>>
    <3>1. /\ Tail(buf[s]) \in Seq(Nat) /\ Len(Tail(buf[s])) <= Capacity
          /\ Head(buf[s]) \in Nat
      BY <2>1, TailFacts
    <3>2. /\ buf' = [buf EXCEPT ![s] = Tail(buf[s])] /\ got' = [got EXCEPT ![s] = Head(buf[s])]
          /\ UNCHANGED <<event, linked, ended, stream, blank, inbox, pump, closed, panicked>>
      BY <1>9, <2>1 DEF Forward, redis
    <3>3. ASSUME NEW t \in Streams PROVE buf'[t] \in Seq(Nat) /\ Len(buf'[t]) <= Capacity
      BY <3>1, <3>2
    <3>4. buf' \in [Streams -> Seq(Nat)] /\ got' \in [Streams -> Nat]
      BY <3>1, <3>2
    <3> QED BY <3>2, <3>3, <3>4
  <2>2. CASE buf[s] = <<>>
    BY <1>9, <2>2 DEF Forward, redis
  <2> QED BY <2>1, <2>2
<1>10. ASSUME NEW s \in Streams, ClientGone(s) PROVE ControlInv'
  BY <1>10 DEF ClientGone, redis
<1>11. CASE UNCHANGED vars
  BY <1>11 DEF vars, redis, client
<1>12. Publish \/ (\E e \in 1 .. published : Resend(e)) => \E e \in Nat : Taken(e)
  <2>1. event \in Seq(Nat) /\ published \in Nat
    BY PublishedNat
  <2> HIDE DEF ControlInv, TypeOK, ClosedInv, PanicNeedsDeparture, BlankNeedsEndedFeed
  <2> QED BY <2>1, TakenSomething
<1> QED
  BY <1>1, <1>2, <1>3, <1>4, <1>5, <1>6, <1>7, <1>8, <1>9, <1>10, <1>11, <1>12 DEF Next

LEMMA AlwaysControl == Spec => []ControlInv
  BY InitControl, ControlStep, PTL DEF Spec

\* The state keeps its types, and the pump fills no channel beyond its capacity.
THEOREM RedisTypes == Spec => []TypeOK
<1>1. ControlInv => TypeOK
  BY DEF ControlInv
<1> QED BY AlwaysControl, <1>1, PTL

\* However connections drop, feeds end and events are published, the process goes down
\* only after some stream has unsubscribed.
THEOREM PanicsNeedDeparture == Spec => []PanicNeedsDeparture
<1>1. ControlInv => PanicNeedsDeparture
  BY DEF ControlInv
<1> QED BY AlwaysControl, <1>1, PTL

\* The handler's unchecked receive yields zero events only after ps.Channel() has ended.
THEOREM BlanksNeedEndedFeed == Spec => []BlankNeedsEndedFeed
<1>1. ControlInv => BlankNeedsEndedFeed
  BY DEF ControlInv
<1> QED BY AlwaysControl, <1>1, PTL

----------------------------------------------------------------------------
(* The order of a stream's events. *)

Ascending(q) == \A i, j \in DOMAIN q : i < j => q[i] < q[j]

\* All of buf lies before all of inbox; both lie between what the client has got and
\* what was published.
OrderInv ==
    \A s \in Streams :
        /\ Ascending(buf[s]) /\ Ascending(inbox[s])
        /\ \A i \in DOMAIN buf[s], j \in DOMAIN inbox[s] : buf[s][i] < inbox[s][j]
        /\ \A i \in DOMAIN buf[s] : got[s] < buf[s][i] /\ buf[s][i] <= published
        /\ \A j \in DOMAIN inbox[s] : got[s] < inbox[s][j] /\ inbox[s][j] <= published
        /\ got[s] <= published

\* The event of a PUBLISH is itself or an earlier one.
EventInv == \A n \in 1 .. published : event[n] \in 1 .. n

\* The messages on their way to a stream are in the order in which Redis took them.
MessagesInOrder ==
    \A s \in Streams :
        LET pending == buf[s] \o inbox[s] IN
        /\ \A i, j \in DOMAIN pending : i < j => pending[i] < pending[j]
        /\ \A i \in DOMAIN pending : got[s] < pending[i] /\ pending[i] <= published

\* Of two PUBLISH commands the later carries the later event, or was sent again.
LEMMA LaterFollows ==
    ASSUME event \in Seq(Nat), EventInv,
           NEW m \in 1 .. published, NEW n \in 1 .. published, m < n
    PROVE  Follows(n, m)
<1>1. published \in Nat /\ event[m] \in 1 .. m /\ event[n] \in 1 .. n
  BY PublishedNat DEF EventInv
<1> QED BY <1>1 DEF Follows, Resent

LEMMA MessagesGiveEvents ==
    TypeOK /\ OrderInv /\ EventInv /\ MessagesInOrder => InOrder
<1> SUFFICES ASSUME TypeOK, OrderInv, EventInv, MessagesInOrder, NEW s \in Streams
             PROVE  LET pending == buf[s] \o inbox[s] IN
                    /\ \A i, j \in DOMAIN pending : i < j => Follows(pending[j], pending[i])
                    /\ \A i \in DOMAIN pending :
                          /\ pending[i] \in 1 .. published
                          /\ got[s] # 0 => Follows(pending[i], got[s])
  BY DEF InOrder
<1> DEFINE pending == buf[s] \o inbox[s]
<1>1. /\ event \in Seq(Nat) /\ published \in Nat
      /\ got[s] \in Nat /\ got[s] <= published
  BY PublishedNat DEF TypeOK, OrderInv
<1>2. pending \in Seq(Nat)
  BY ConcatProperties DEF TypeOK
<1>3. /\ \A i, j \in DOMAIN pending : i < j => pending[i] < pending[j]
      /\ \A i \in DOMAIN pending : got[s] < pending[i] /\ pending[i] <= published
  BY DEF MessagesInOrder
<1> HIDE DEF pending
<1>4. ASSUME NEW i \in DOMAIN pending
      PROVE  pending[i] \in 1 .. published /\ (got[s] # 0 => got[s] \in 1 .. published)
  <2>1. pending[i] \in Nat
    BY <1>2
  <2> QED BY <1>1, <1>3, <2>1
<1>5. ASSUME NEW i \in DOMAIN pending, got[s] # 0 PROVE Follows(pending[i], got[s])
  BY <1>1, <1>3, <1>4, <1>5, LaterFollows
<1>6. ASSUME NEW i \in DOMAIN pending, NEW j \in DOMAIN pending, i < j
      PROVE  Follows(pending[j], pending[i])
  BY <1>1, <1>3, <1>4, <1>6, LaterFollows
<1>7. /\ \A i, j \in DOMAIN pending : i < j => Follows(pending[j], pending[i])
      /\ \A i \in DOMAIN pending :
            /\ pending[i] \in 1 .. published
            /\ got[s] # 0 => Follows(pending[i], got[s])
  BY <1>4, <1>5, <1>6
<1> QED BY <1>7 DEF pending

\* OrderInv says of the two queues of a stream what MessagesInOrder says of their
\* concatenation.
LEMMA OrderIsInOrder == TypeOK /\ OrderInv => MessagesInOrder
<1> SUFFICES ASSUME TypeOK, OrderInv, NEW s \in Streams
             PROVE  LET pending == buf[s] \o inbox[s] IN
                    /\ \A i, j \in DOMAIN pending : i < j => pending[i] < pending[j]
                    /\ \A i \in DOMAIN pending :
                          got[s] < pending[i] /\ pending[i] <= published
  BY DEF MessagesInOrder
<1> DEFINE b == buf[s]
           q == inbox[s]
           pending == b \o q
<1>1. b \in Seq(Nat) /\ q \in Seq(Nat)
  BY DEF TypeOK
<1>2. /\ Len(b) \in Nat /\ Len(q) \in Nat
      /\ DOMAIN b = 1 .. Len(b) /\ DOMAIN q = 1 .. Len(q)
      /\ DOMAIN pending = 1 .. Len(b) + Len(q)
      /\ \A i \in 1 .. Len(b) : pending[i] = b[i]
      /\ \A i \in Len(b) + 1 .. Len(b) + Len(q) : pending[i] = q[i - Len(b)]
  <2>1. /\ pending \in Seq(Nat) /\ Len(pending) = Len(b) + Len(q)
        /\ \A i \in 1 .. Len(b) + Len(q) :
              pending[i] = IF i <= Len(b) THEN b[i] ELSE q[i - Len(b)]
    BY <1>1, ConcatProperties
  <2> HIDE DEF b, q, pending
  <2>2. /\ Len(b) \in Nat /\ DOMAIN b = 1 .. Len(b)
        /\ Len(q) \in Nat /\ DOMAIN q = 1 .. Len(q)
        /\ DOMAIN pending = 1 .. Len(pending)
    BY <1>1, <2>1
  <2>3. ASSUME NEW i \in 1 .. Len(b) PROVE pending[i] = b[i]
    BY <2>1, <2>2
  <2>4. ASSUME NEW i \in Len(b) + 1 .. Len(b) + Len(q) PROVE pending[i] = q[i - Len(b)]
    <3>1. i \in 1 .. Len(b) + Len(q) /\ ~(i <= Len(b))
      BY <2>2
    <3> QED BY <2>1, <3>1
  <2> QED BY <2>1, <2>2, <2>3, <2>4
<1>3. /\ Ascending(b) /\ Ascending(q)
      /\ \A i \in DOMAIN b, j \in DOMAIN q : b[i] < q[j]
      /\ \A i \in DOMAIN b : got[s] < b[i] /\ b[i] <= published
      /\ \A j \in DOMAIN q : got[s] < q[j] /\ q[j] <= published
  BY DEF OrderInv
<1> HIDE DEF b, q, pending
<1>4. ASSUME NEW i \in DOMAIN pending
      PROVE  \/ i \in DOMAIN b /\ pending[i] = b[i]
             \/ /\ i - Len(b) \in DOMAIN q /\ i > Len(b)
                /\ pending[i] = q[i - Len(b)]
  BY <1>2
<1>5. ASSUME NEW i \in DOMAIN pending
      PROVE  got[s] < pending[i] /\ pending[i] <= published
  BY <1>3, <1>4
<1>6. ASSUME NEW i \in DOMAIN pending, NEW j \in DOMAIN pending, i < j
      PROVE  pending[i] < pending[j]
  <2>1. CASE i \in DOMAIN b /\ j \in DOMAIN b
    BY <1>2, <1>3, <1>6, <2>1 DEF Ascending
  <2>2. CASE i \in DOMAIN b /\ j \notin DOMAIN b
    BY <1>2, <1>3, <1>4, <2>2
  <2>3. CASE i \notin DOMAIN b
    <3>1. /\ i - Len(b) \in DOMAIN q /\ j - Len(b) \in DOMAIN q
          /\ i - Len(b) < j - Len(b)
          /\ pending[i] = q[i - Len(b)] /\ pending[j] = q[j - Len(b)]
      BY <1>2, <1>6, <2>3
    <3> QED BY <1>3, <3>1 DEF Ascending
  <2> QED BY <2>1, <2>2, <2>3
<1>7. /\ \A i, j \in DOMAIN pending : i < j => pending[i] < pending[j]
      /\ \A i \in DOMAIN pending : got[s] < pending[i] /\ pending[i] <= published
  BY <1>5, <1>6
<1> QED BY <1>7 DEF pending, b, q

LEMMA InitOrder == Init => OrderInv
<1>1. DOMAIN <<>> = {} /\ 0 <= 0
  OBVIOUS
<1>2. ASSUME Init, NEW s \in Streams
      PROVE  buf[s] = <<>> /\ inbox[s] = <<>> /\ got[s] = 0 /\ published = 0
  BY <1>2 DEF Init, published
<1> QED BY <1>1, <1>2 DEF OrderInv, Ascending

LEMMA InitEvent == Init => EventInv
  BY DEF Init, EventInv, published

LEMMA EventStep == TypeOK /\ EventInv /\ [Next]_vars => EventInv'
<1> SUFFICES ASSUME TypeOK, EventInv, [Next]_vars PROVE EventInv'
  OBVIOUS
<1>0. event \in Seq(Nat) /\ published \in Nat
  BY PublishedNat DEF TypeOK
<1>1. CASE UNCHANGED event
  BY <1>1 DEF EventInv, published
<1>2. ASSUME NEW e \in 1 .. published + 1, Taken(e) PROVE EventInv'
  <2>1. event' = Append(event, e) /\ e \in Nat
    BY <1>0, <1>2 DEF Taken
  <2>2. /\ published' = published + 1
        /\ \A n \in 1 .. published : event'[n] = event[n]
        /\ event'[published + 1] = e
    BY <1>0, <2>1, AppendFacts DEF published
  <2> QED BY <1>0, <2>2 DEF EventInv
<1>3. ASSUME NEW s \in Streams,
             \/ ConnectionLost(s) \/ Reconnect(s) \/ FeedEnds(s) \/ Subscribe(s)
             \/ Pump(s) \/ PumpEnds(s) \/ Unsubscribe(s) \/ Forward(s) \/ ClientGone(s)
      PROVE  UNCHANGED event
  BY <1>3 DEF ConnectionLost, Reconnect, FeedEnds, Subscribe, Pump, PumpEnds, Unsubscribe,
              Forward, ClientGone, redis
<1>4. CASE UNCHANGED vars
  BY <1>1, <1>4 DEF vars, redis
<1> QED BY <1>0, <1>1, <1>2, <1>3, <1>4, TakenSomething DEF Next

LEMMA OrderStep == TypeOK /\ OrderInv /\ [Next]_vars => OrderInv'
<1> SUFFICES ASSUME TypeOK, OrderInv, [Next]_vars PROVE OrderInv'
  OBVIOUS
<1>0. \A s \in Streams :
        /\ buf[s] \in Seq(Nat) /\ inbox[s] \in Seq(Nat) /\ got[s] \in Nat
        /\ Len(buf[s]) \in Nat /\ Len(inbox[s]) \in Nat
        /\ DOMAIN buf[s] = 1 .. Len(buf[s]) /\ DOMAIN inbox[s] = 1 .. Len(inbox[s])
        /\ \A i \in 1 .. Len(buf[s]) : buf[s][i] \in Nat
        /\ \A i \in 1 .. Len(inbox[s]) : inbox[s][i] \in Nat
  BY DEF TypeOK
<1>1. CASE UNCHANGED <<buf, inbox, got, published>>
  BY <1>1 DEF OrderInv
<1>2. ASSUME NEW e \in 1 .. published + 1, Taken(e) PROVE OrderInv'
  <2> SUFFICES ASSUME NEW s \in Streams
               PROVE  /\ Ascending(inbox'[s])
                      /\ \A i \in DOMAIN buf[s], j \in DOMAIN inbox'[s] :
                            buf[s][i] < inbox'[s][j]
                      /\ \A j \in DOMAIN inbox'[s] :
                            got[s] < inbox'[s][j] /\ inbox'[s][j] <= published + 1
    <3>1. published' = published + 1 /\ buf' = buf /\ got' = got /\ published \in Nat
      <4>1. event' = Append(event, e) /\ event \in Seq(Nat) /\ e \in Nat
        BY <1>2, PublishedNat DEF Taken, TypeOK
      <4>2. published' = published + 1 /\ published \in Nat
        BY <4>1, AppendFacts DEF published
      <4> QED BY <1>2, <4>2 DEF Taken, client
    <3> QED BY <1>0, <3>1 DEF OrderInv
  <2>1. published \in Nat
    BY PublishedNat DEF TypeOK
  <2>2. CASE inbox'[s] = inbox[s]
    BY <1>0, <2>1, <2>2 DEF OrderInv
  <2>3. CASE inbox'[s] = Append(inbox[s], published + 1)
    <3>1. /\ DOMAIN inbox'[s] = 1 .. Len(inbox[s]) + 1
          /\ \A i \in 1 .. Len(inbox[s]) : inbox'[s][i] = inbox[s][i]
          /\ inbox'[s][Len(inbox[s]) + 1] = published + 1
      BY <1>0, <2>1, <2>3, AppendFacts
    <3>2. ASSUME NEW j \in DOMAIN inbox'[s]
          PROVE  \/ j \in DOMAIN inbox[s] /\ inbox'[s][j] = inbox[s][j]
                 \/ j = Len(inbox[s]) + 1 /\ inbox'[s][j] = published + 1
      <4>1. Len(inbox[s]) \in Nat /\ DOMAIN inbox[s] = 1 .. Len(inbox[s])
        BY <1>0
      <4>2. j \in 1 .. Len(inbox[s]) \/ j = Len(inbox[s]) + 1
        BY <3>1, <4>1
      <4> QED BY <3>1, <4>1, <4>2
    <3>3. /\ Ascending(inbox[s])
          /\ \A i \in DOMAIN buf[s], j \in DOMAIN inbox[s] : buf[s][i] < inbox[s][j]
          /\ \A i \in DOMAIN buf[s] : buf[s][i] <= published
          /\ \A j \in DOMAIN inbox[s] : got[s] < inbox[s][j] /\ inbox[s][j] <= published
          /\ got[s] <= published
      BY DEF OrderInv
    <3>4. Ascending(inbox'[s])
      <4> SUFFICES ASSUME NEW i \in DOMAIN inbox'[s], NEW j \in DOMAIN inbox'[s], i < j
                   PROVE  inbox'[s][i] < inbox'[s][j]
        BY DEF Ascending
      <4>1. i \in DOMAIN inbox[s] /\ inbox'[s][i] = inbox[s][i]
        BY <1>0, <3>1, SMTT(30)
      <4>2. CASE j \in DOMAIN inbox[s]
        BY <1>0, <3>1, <3>3, <4>1, <4>2 DEF Ascending
      <4>3. CASE j \notin DOMAIN inbox[s]
        BY <1>0, <2>1, <3>2, <3>3, <4>1, <4>3
      <4> QED BY <4>2, <4>3
    <3>5. ASSUME NEW j \in DOMAIN inbox'[s], NEW i \in DOMAIN buf[s]
          PROVE  buf[s][i] < inbox'[s][j]
      <4>1. buf[s][i] \in Nat /\ buf[s][i] <= published
        BY <1>0, <3>3
      <4> QED BY <2>1, <3>2, <3>3, <4>1
    <3>6. ASSUME NEW j \in DOMAIN inbox'[s]
          PROVE  got[s] < inbox'[s][j] /\ inbox'[s][j] <= published + 1
      <4>1. CASE j \in DOMAIN inbox[s] /\ inbox'[s][j] = inbox[s][j]
        <5>1. inbox[s][j] \in Nat /\ got[s] < inbox[s][j] /\ inbox[s][j] <= published
          BY <1>0, <3>3, <4>1
        <5> QED BY <2>1, <4>1, <5>1
      <4>2. CASE inbox'[s][j] = published + 1
        <5>1. got[s] \in Nat /\ got[s] <= published
          BY <1>0, <3>3
        <5> QED BY <2>1, <4>2, <5>1
      <4> QED BY <3>2, <4>1, <4>2
    <3> QED BY <3>4, <3>5, <3>6
  <2> QED BY <1>2, <2>2, <2>3 DEF Taken
<1>3. ASSUME NEW s \in Streams, Pump(s) PROVE OrderInv'
  <2>1. /\ published' = published /\ got' = got
        /\ \A t \in Streams \ {s} : buf'[t] = buf[t] /\ inbox'[t] = inbox[t]
        /\ inbox'[s] = Tail(inbox[s]) /\ inbox[s] # <<>>
        /\ buf'[s] = buf[s] \/ buf'[s] = Append(buf[s], Head(inbox[s]))
    BY <1>3 DEF Pump, redis, client, TypeOK, published
  <2>2. /\ DOMAIN inbox'[s] = 1 .. Len(inbox[s]) - 1 /\ Len(inbox[s]) \in Nat \ {0}
        /\ \A i \in 1 .. Len(inbox[s]) - 1 : inbox'[s][i] = inbox[s][i + 1]
        /\ Head(inbox[s]) = inbox[s][1] /\ Head(inbox[s]) \in Nat
    BY <1>0, <2>1, TailFacts
  <2>3. /\ Ascending(buf[s]) /\ Ascending(inbox[s])
        /\ \A i \in DOMAIN buf[s], j \in DOMAIN inbox[s] : buf[s][i] < inbox[s][j]
        /\ \A i \in DOMAIN buf[s] : got[s] < buf[s][i] /\ buf[s][i] <= published
        /\ \A j \in DOMAIN inbox[s] : got[s] < inbox[s][j] /\ inbox[s][j] <= published
        /\ got[s] <= published
    BY DEF OrderInv
  <2>4. ASSUME NEW j \in DOMAIN inbox'[s]
        PROVE  /\ j + 1 \in DOMAIN inbox[s] /\ 1 \in DOMAIN inbox[s] /\ 1 < j + 1
               /\ inbox'[s][j] = inbox[s][j + 1] /\ inbox[s][1] < inbox[s][j + 1]
    <3>1. /\ j + 1 \in DOMAIN inbox[s] /\ 1 \in DOMAIN inbox[s] /\ 1 < j + 1
          /\ inbox'[s][j] = inbox[s][j + 1]
      <4>1. DOMAIN inbox[s] = 1 .. Len(inbox[s])
        BY <1>0
      <4>2. j \in 1 .. Len(inbox[s]) - 1
        BY <2>2
      <4> QED BY <2>2, <4>1, <4>2
    <3> QED BY <2>3, <3>1 DEF Ascending
  <2>5. Ascending(inbox'[s])
    <3> SUFFICES ASSUME NEW i \in DOMAIN inbox'[s], NEW j \in DOMAIN inbox'[s], i < j
                 PROVE  inbox'[s][i] < inbox'[s][j]
      BY DEF Ascending
    <3>1. i + 1 < j + 1
      BY <2>2
    <3> QED BY <2>3, <2>4, <3>1 DEF Ascending
  <2>6. ASSUME NEW i \in DOMAIN buf'[s]
        PROVE  \/ i \in DOMAIN buf[s] /\ buf'[s][i] = buf[s][i]
               \/ /\ i = Len(buf[s]) + 1 /\ i \notin DOMAIN buf[s]
                  /\ buf'[s][i] = inbox[s][1]
    <3>1. CASE buf'[s] = buf[s]
      BY <3>1
    <3>2. CASE buf'[s] = Append(buf[s], Head(inbox[s]))
      <4>1. /\ DOMAIN buf'[s] = 1 .. Len(buf[s]) + 1
            /\ \A k \in 1 .. Len(buf[s]) : buf'[s][k] = buf[s][k]
            /\ buf'[s][Len(buf[s]) + 1] = inbox[s][1]
        BY <1>0, <2>2, <3>2, AppendFacts
      <4>2. Len(buf[s]) \in Nat /\ DOMAIN buf[s] = 1 .. Len(buf[s])
        BY <1>0
      <4>3. i \in 1 .. Len(buf[s]) \/ i = Len(buf[s]) + 1
        BY <4>1, <4>2
      <4>4. Len(buf[s]) + 1 \notin DOMAIN buf[s]
        BY <4>2
      <4> QED BY <4>1, <4>2, <4>3, <4>4
    <3> QED BY <2>1, <3>1, <3>2
  <2>7. 1 \in DOMAIN inbox[s]
    BY <1>0, <2>2
  <2>8. Ascending(buf'[s])
    <3> SUFFICES ASSUME NEW i \in DOMAIN buf'[s], NEW j \in DOMAIN buf'[s], i < j
                 PROVE  buf'[s][i] < buf'[s][j]
      BY DEF Ascending
    <3>1. i \in DOMAIN buf[s] /\ buf'[s][i] = buf[s][i]
      <4>1. Len(buf[s]) \in Nat /\ DOMAIN buf[s] = 1 .. Len(buf[s])
        BY <1>0
      <4>2. j \in 1 .. Len(buf[s]) + 1 /\ (i \in 1 .. Len(buf[s]) \/ i = Len(buf[s]) + 1)
        BY <2>6, <4>1
      <4>3. i # Len(buf[s]) + 1
        BY <4>1, <4>2
      <4> QED BY <2>6, <4>3
    <3> QED BY <2>3, <2>6, <2>7, <3>1 DEF Ascending
  <2>9. ASSUME NEW i \in DOMAIN buf'[s]
        PROVE  /\ got[s] < buf'[s][i] /\ buf'[s][i] <= published
               /\ \A j \in DOMAIN inbox'[s] : buf'[s][i] < inbox'[s][j]
    BY <2>3, <2>4, <2>6, <2>7
  <2>10. ASSUME NEW j \in DOMAIN inbox'[s]
         PROVE  got[s] < inbox'[s][j] /\ inbox'[s][j] <= published
    BY <2>3, <2>4
  <2> QED BY <2>1, <2>3, <2>5, <2>8, <2>9, <2>10 DEF OrderInv
<1>4. ASSUME NEW s \in Streams, Forward(s), buf[s] # <<>> PROVE OrderInv'
  <2>1. /\ published' = published /\ inbox' = inbox
        /\ \A t \in Streams \ {s} : buf'[t] = buf[t] /\ got'[t] = got[t]
        /\ buf'[s] = Tail(buf[s]) /\ got'[s] = Head(buf[s])
    BY <1>4 DEF Forward, redis, TypeOK, published
  <2>2. /\ DOMAIN buf'[s] = 1 .. Len(buf[s]) - 1 /\ Len(buf[s]) \in Nat \ {0}
        /\ \A i \in 1 .. Len(buf[s]) - 1 : buf'[s][i] = buf[s][i + 1]
        /\ got'[s] = buf[s][1]
    BY <1>0, <1>4, <2>1, TailFacts
  <2>3. /\ Ascending(buf[s]) /\ Ascending(inbox[s])
        /\ \A i \in DOMAIN buf[s], j \in DOMAIN inbox[s] : buf[s][i] < inbox[s][j]
        /\ \A i \in DOMAIN buf[s] : got[s] < buf[s][i] /\ buf[s][i] <= published
        /\ \A j \in DOMAIN inbox[s] : got[s] < inbox[s][j] /\ inbox[s][j] <= published
    BY DEF OrderInv
  <2>4. ASSUME NEW j \in DOMAIN buf'[s]
        PROVE  /\ j + 1 \in DOMAIN buf[s] /\ 1 \in DOMAIN buf[s] /\ 1 < j + 1
               /\ buf'[s][j] = buf[s][j + 1] /\ buf[s][1] < buf[s][j + 1]
    BY <1>0, <2>2, <2>3, SMTT(30) DEF Ascending
  <2>5. Ascending(buf'[s])
    <3> SUFFICES ASSUME NEW i \in DOMAIN buf'[s], NEW j \in DOMAIN buf'[s], i < j
                 PROVE  buf'[s][i] < buf'[s][j]
      BY DEF Ascending
    <3>1. i + 1 < j + 1
      BY <2>2
    <3> QED BY <2>3, <2>4, <3>1 DEF Ascending
  <2>6. 1 \in DOMAIN buf[s]
    BY <1>0, <2>2
  <2>7. /\ got'[s] <= published
        /\ \A j \in DOMAIN inbox[s] : got'[s] < inbox[s][j]
    BY <2>2, <2>3, <2>6
  <2>8. ASSUME NEW i \in DOMAIN buf'[s]
        PROVE  /\ got'[s] < buf'[s][i] /\ buf'[s][i] <= published
               /\ \A j \in DOMAIN inbox[s] : buf'[s][i] < inbox[s][j]
    BY <2>2, <2>3, <2>4
  <2> QED BY <2>1, <2>3, <2>5, <2>7, <2>8 DEF OrderInv
<1>5. ASSUME NEW s \in Streams,
             \/ ConnectionLost(s) \/ Reconnect(s) \/ FeedEnds(s) \/ Subscribe(s)
             \/ PumpEnds(s) \/ Unsubscribe(s) \/ ClientGone(s)
      PROVE  UNCHANGED <<buf, inbox, got, published>>
  BY <1>5 DEF ConnectionLost, Reconnect, FeedEnds, Subscribe, PumpEnds, Unsubscribe,
              ClientGone, redis, client, published
<1>6. ASSUME NEW s \in Streams, Forward(s), buf[s] = <<>>
      PROVE  UNCHANGED <<buf, inbox, got, published>>
  BY <1>6 DEF Forward, redis, published
<1>7. CASE UNCHANGED vars
  BY <1>1, <1>7 DEF vars, redis, client, published
<1>8. TypeOK => event \in Seq(Nat)
  BY DEF TypeOK
<1> QED BY <1>1, <1>2, <1>3, <1>4, <1>5, <1>6, <1>7, <1>8, TakenSomething DEF Next

\* Over lost messages, dropped connections, full buffers and repeated commands, a stream's
\* client gets the messages in the order in which Redis took them, none of them twice: an
\* event comes again or late only when its PUBLISH was sent again.
THEOREM RedisStreamsInOrder == Spec => []InOrder
<1>1. ControlInv => TypeOK
  BY DEF ControlInv
<1>2. TypeOK /\ OrderInv /\ EventInv => InOrder
  BY OrderIsInOrder, MessagesGiveEvents
<1> QED BY AlwaysControl, InitOrder, OrderStep, InitEvent, EventStep, <1>1, <1>2, PTL
        DEF Spec

=============================================================================

---------------------------- MODULE RedisBroker ----------------------------
(***************************************************************************)
(* The broker over Redis Pub/Sub (internal/api/broker_redis.go), for one   *)
(* route, and the event streams that use it.  Each Subscribe starts a      *)
(* goroutine, the pump, that copies messages from ps.Channel() into the    *)
(* stream's channel and closes that channel when ps.Channel() ends.        *)
(* Unsubscribe only closes the channel: the pump and its Redis             *)
(* subscription stay.  A panic in a pump ends the process; net/http        *)
(* recovers a panic in a handler.                                          *)
(*                                                                         *)
(* A message is the number of the PUBLISH command that Redis took it from, *)
(* an event the number of the first such command.  Redis and the go-redis  *)
(* client are outside the repository: a message may be lost, a connection  *)
(* may drop and come back, ps.Channel() may end, which is how the comment  *)
(* in Unsubscribe expects pumps to be stopped, and a command whose reply   *)
(* is lost is sent again (NewRedisBroker keeps the default retries).       *)
(***************************************************************************)
EXTENDS Naturals, Sequences, FiniteSets

CONSTANTS
    Streams,    \* stream requests, each with its channel and its pump
    Capacity,   \* make(chan SSEEvent, 16)
    MaxResends, \* options.MaxRetries of the Redis client, 3 by default
    MaxEvents   \* bound: PUBLISH commands

ASSUME RedisAssumption ==
    Capacity \in Nat \ {0} /\ MaxResends \in Nat /\ MaxEvents \in Nat

VARIABLES
    event,      \* the event of each PUBLISH that Redis has taken, in their order
    linked,     \* the streams whose Redis subscription is connected
    ended,      \* the streams whose ps.Channel() was closed by the client library
    inbox,      \* the messages waiting in ps.Channel()
    pump,       \* the goroutine of each Subscribe
    buf,        \* the channels' buffers
    closed,     \* the closed channels
    stream,     \* where each request is in RouteByIDHandler
    got,        \* the last message written to the client
    blank,      \* the streams that have written the zero SSEEvent
    panicked    \* a pump sent on a closed channel or closed it again: the process is down

redis  == <<event, linked, ended>>
client == <<stream, got, blank>>
vars   == <<redis, client, inbox, pump, buf, closed, panicked>>

published == Len(event)

\* The n-th PUBLISH was a repetition.
Resent(n) == event[n] < n

TypeOK ==
    /\ event \in Seq(Nat)
    /\ linked \subseteq Streams /\ ended \subseteq Streams /\ closed \subseteq Streams
    /\ inbox \in [Streams -> Seq(Nat)]
    /\ pump \in [Streams -> {"none", "running", "ended"}]
    /\ buf \in [Streams -> Seq(Nat)]
    /\ \A s \in Streams : Len(buf[s]) <= Capacity
    /\ stream \in [Streams -> {"new", "open", "leaving", "done"}]
    /\ got \in [Streams -> Nat]
    /\ blank \subseteq Streams
    /\ panicked \in BOOLEAN

Init ==
    /\ event = <<>>
    /\ linked = {} /\ ended = {} /\ closed = {} /\ blank = {}
    /\ inbox = [s \in Streams |-> <<>>]
    /\ pump = [s \in Streams |-> "none"]
    /\ buf = [s \in Streams |-> <<>>]
    /\ stream = [s \in Streams |-> "new"]
    /\ got = [s \in Streams |-> 0]
    /\ panicked = FALSE

----------------------------------------------------------------------------
(* Redis and its client library. *)

\* The connection behind a subscription drops: what is published now is lost.
ConnectionLost(s) ==
    /\ s \in linked
    /\ linked' = linked \ {s}
    /\ UNCHANGED <<event, ended, client, inbox, pump, buf, closed, panicked>>

\* The library reconnects and subscribes again.
Reconnect(s) ==
    /\ pump[s] = "running" /\ s \notin linked \union ended
    /\ linked' = linked \union {s}
    /\ UNCHANGED <<event, ended, client, inbox, pump, buf, closed, panicked>>

\* The library gives up and closes ps.Channel().
FeedEnds(s) ==
    /\ pump[s] = "running" /\ s \notin linked \union ended
    /\ ended' = ended \union {s}
    /\ UNCHANGED <<event, linked, client, inbox, pump, buf, closed, panicked>>

----------------------------------------------------------------------------
(* The broker. *)

\* The error of ps.Receive is ignored: the stream opens whether or not the
\* subscription was established.
Subscribe(s) ==
    /\ stream[s] = "new"
    /\ stream' = [stream EXCEPT ![s] = "open"]
    /\ pump' = [pump EXCEPT ![s] = "running"]
    /\ linked' \in {linked, linked \union {s}}
    /\ UNCHANGED <<event, ended, got, blank, inbox, buf, closed, panicked>>

\* Redis takes a PUBLISH of event e and hands the message to every connected
\* subscription, in order, or it reaches nobody.
Taken(e) ==
    /\ published < MaxEvents
    /\ event' = Append(event, e)
    /\ \/ inbox' = [s \in Streams |->
                      IF s \in linked THEN Append(inbox[s], published + 1) ELSE inbox[s]]
       \/ UNCHANGED inbox
    /\ UNCHANGED <<linked, ended, client, pump, buf, closed, panicked>>

\* A call of Publish, at the moment its command is first taken: calls of several
\* handlers overlap.  What the call returns is ignored.
Publish == Taken(published + 1)

\* The connection broke before the reply came, and the library sends the command of
\* the call again.  Other calls may have been served since.
Resend(e) ==
    /\ e \in 1 .. published /\ ~Resent(e)
    /\ Cardinality({n \in 1 .. published : event[n] = e}) <= MaxResends
    /\ Taken(e)

\* Mutant: a subscriber that does not keep up is disconnected.
PumpMutantClosesSlow(s) ==
    /\ pump[s] = "running" /\ inbox[s] # <<>>
    /\ inbox' = [inbox EXCEPT ![s] = Tail(@)]
    /\ buf' = [buf EXCEPT ![s] =
                 IF Len(@) < Capacity THEN Append(@, Head(inbox[s])) ELSE @]
    /\ closed' = IF Len(buf[s]) < Capacity THEN closed ELSE closed \union {s}
    /\ panicked' = (panicked \/ s \in closed)
    /\ UNCHANGED <<redis, client, pump>>

\* Mutant: a message that does not fit is put back behind the others.
PumpMutantRequeues(s) ==
    /\ pump[s] = "running" /\ inbox[s] # <<>>
    /\ inbox' = [inbox EXCEPT ![s] = IF Len(buf[s]) < Capacity THEN Tail(@)
                                      ELSE Append(Tail(@), Head(@))]
    /\ buf' = [buf EXCEPT ![s] =
                 IF Len(@) < Capacity THEN Append(@, Head(inbox[s])) ELSE @]
    /\ panicked' = (panicked \/ s \in closed)
    /\ UNCHANGED <<redis, client, pump, closed>>

\* Mutant: the capacity is not respected.
PumpMutantOverfills(s) ==
    /\ pump[s] = "running" /\ inbox[s] # <<>>
    /\ inbox' = [inbox EXCEPT ![s] = Tail(@)]
    /\ buf' = [buf EXCEPT ![s] = Append(@, Head(inbox[s]))]
    /\ panicked' = (panicked \/ s \in closed)
    /\ UNCHANGED <<redis, client, pump, closed>>

\* One message: select { case ch <- evt: default: }.  The send panics on a closed
\* channel whatever the default case.
Pump(s) ==
    /\ pump[s] = "running" /\ inbox[s] # <<>>
    /\ inbox' = [inbox EXCEPT ![s] = Tail(@)]
    /\ buf' = [buf EXCEPT ![s] =
                 IF s \notin closed /\ Len(@) < Capacity THEN Append(@, Head(inbox[s])) ELSE @]
    /\ panicked' = (s \in closed)
    /\ UNCHANGED <<redis, client, pump, closed>>

\* The range over ps.Channel() ends and the deferred close(ch) runs.
PumpEnds(s) ==
    /\ pump[s] = "running" /\ s \in ended /\ inbox[s] = <<>>
    /\ pump' = [pump EXCEPT ![s] = "ended"]
    /\ closed' = closed \union {s}
    /\ panicked' = (s \in closed)
    /\ UNCHANGED <<redis, client, inbox, buf>>

\* close(ch), nothing else.  If the pump has closed it already the close panics,
\* which ends only the handler.
Unsubscribe(s) ==
    /\ stream[s] = "leaving"
    /\ stream' = [stream EXCEPT ![s] = "done"]
    /\ closed' = closed \union {s}
    /\ UNCHANGED <<redis, got, blank, inbox, pump, buf, panicked>>

----------------------------------------------------------------------------
(* The stream handler. *)

\* case evt := <-ch: the receive does not test whether the channel was closed, so a
\* closed, drained channel yields the zero event, again and again.
Forward(s) ==
    /\ stream[s] = "open"
    /\ \/ /\ buf[s] # <<>>
          /\ got' = [got EXCEPT ![s] = Head(buf[s])]
          /\ buf' = [buf EXCEPT ![s] = Tail(@)]
          /\ UNCHANGED blank
       \/ /\ buf[s] = <<>> /\ s \in closed
          /\ blank' = blank \union {s}
          /\ UNCHANGED <<got, buf>>
    /\ UNCHANGED <<redis, stream, inbox, pump, closed, panicked>>

\* case <-notify: the deferred Unsubscribe is next.
ClientGone(s) ==
    /\ stream[s] = "open"
    /\ stream' = [stream EXCEPT ![s] = "leaving"]
    /\ UNCHANGED <<redis, got, blank, inbox, pump, buf, closed, panicked>>

Next ==
    /\ ~panicked
    /\ \/ Publish \/ \E e \in 1 .. published : Resend(e)
       \/ \E s \in Streams :
            \/ ConnectionLost(s) \/ Reconnect(s) \/ FeedEnds(s)
            \/ Subscribe(s) \/ Pump(s) \/ PumpEnds(s) \/ Unsubscribe(s)
            \/ Forward(s) \/ ClientGone(s)

Spec == Init /\ [][Next]_vars

----------------------------------------------------------------------------
(* Properties *)

\* The comment in Unsubscribe: "closing channel suffices as goroutine exits when
\* ps.Channel closes on connection loss".  Were it so, no pump would ever send on
\* the channel it left closed, or close it again.
UnsubscribeSuffices == ~panicked

\* Message n may come behind message m: it is a later one, and its event is a later
\* one too unless the library sent it again.
Follows(n, m) == m < n /\ (event[m] < event[n] \/ Resent(n))

\* A stream sees its route's messages in the order in which Redis took them and none
\* twice, whatever was lost on the way.  So it sees an event again, or an older event
\* after a newer one, only when the event's PUBLISH was sent again.
InOrder ==
    \A s \in Streams :
        LET pending == buf[s] \o inbox[s] IN
        /\ \A i, j \in DOMAIN pending : i < j => Follows(pending[j], pending[i])
        /\ \A i \in DOMAIN pending :
              /\ pending[i] \in 1 .. published
              /\ got[s] # 0 => Follows(pending[i], got[s])

\* The process goes down only over a stream whose client has left: while nobody
\* leaves, lost connections and ended feeds do no harm to the other streams.
PanicNeedsDeparture ==
    panicked => \E s \in Streams : stream[s] = "done"

\* A handler writes zero events only when its Redis feed has ended, never through an
\* Unsubscribe or a full buffer.
BlankNeedsEndedFeed == blank \subseteq ended

=============================================================================

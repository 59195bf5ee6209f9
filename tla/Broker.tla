------------------------------- MODULE Broker -------------------------------
(***************************************************************************)
(* The in-process event broker (internal/api/broker.go) and the event      *)
(* streams of RouteByIDHandler that use it.  Every stream request owns one *)
(* buffered channel: it subscribes, forwards what it receives until its    *)
(* client goes away, and unsubscribes.  Handlers publish at any time.      *)
(* Subscribe, Publish and the map deletion of Unsubscribe run under the    *)
(* broker's mutex; the close that ends Unsubscribe does not.               *)
(*                                                                         *)
(* An event is the number of its publication on its route.                 *)
(***************************************************************************)
EXTENDS Naturals, Sequences

CONSTANTS
    Streams,    \* stream requests, each with its channel
    Routes,
    Capacity,   \* make(chan SSEEvent, 8)
    MaxEvents   \* bound: publications on a route

ASSUME BrokerAssumption ==
    Capacity \in Nat \ {0} /\ MaxEvents \in Nat /\ Routes # {}

VARIABLES
    subs,       \* Broker.subs: the channels subscribed to each route
    closed,     \* the closed channels
    buf,        \* the channels' buffers
    stream,     \* where each request is in the handler
    route,      \* the route it asked for
    got,        \* the last event it has written to its client
    missed,     \* the events dropped because its buffer was full
    first,      \* publications on its route before it subscribed
    calls,      \* calls of Publish made by handlers
    published,  \* calls of Publish completed
    panicked    \* a send on a closed channel, or a second close

chans   == <<subs, closed, buf>>
clients == <<stream, route, got, missed, first>>
vars    == <<chans, clients, calls, published, panicked>>

TypeOK ==
    /\ subs \in [Routes -> SUBSET Streams]
    /\ closed \subseteq Streams
    /\ buf \in [Streams -> Seq(Nat)]
    /\ \A s \in Streams : Len(buf[s]) <= Capacity
    /\ stream \in [Streams -> {"new", "open", "leaving", "removed", "done"}]
    /\ route \in [Streams -> Routes]
    /\ got \in [Streams -> Nat]
    /\ missed \in [Streams -> SUBSET Nat]
    /\ first \in [Streams -> Nat]
    /\ calls \in [Routes -> Nat]
    /\ published \in [Routes -> Nat]
    /\ panicked \in BOOLEAN

Init ==
    /\ subs = [r \in Routes |-> {}]
    /\ closed = {}
    /\ buf = [s \in Streams |-> <<>>]
    /\ stream = [s \in Streams |-> "new"]
    /\ route \in [Streams -> Routes]
    /\ got = [s \in Streams |-> 0]
    /\ missed = [s \in Streams |-> {}]
    /\ first = [s \in Streams |-> 0]
    /\ calls = [r \in Routes |-> 0]
    /\ published = [r \in Routes |-> 0]
    /\ panicked = FALSE

----------------------------------------------------------------------------
(* The broker. *)

Subscribe(s) ==
    /\ stream[s] = "new"
    /\ subs' = [subs EXCEPT ![route[s]] = @ \union {s}]
    /\ first' = [first EXCEPT ![s] = published[route[s]]]
    /\ stream' = [stream EXCEPT ![s] = "open"]
    /\ UNCHANGED <<closed, buf, route, got, missed, calls, published, panicked>>

\* Mutant: the channel is not deleted from the map before it is closed.
UnsubscribeMutantKeeps(s) ==
    /\ stream[s] = "leaving"
    /\ stream' = [stream EXCEPT ![s] = "removed"]
    /\ UNCHANGED <<chans, route, got, missed, first, calls, published, panicked>>

\* Unsubscribe up to mu.Unlock().
Unsubscribe(s) ==
    /\ stream[s] = "leaving"
    /\ subs' = [subs EXCEPT ![route[s]] = @ \ {s}]
    /\ stream' = [stream EXCEPT ![s] = "removed"]
    /\ UNCHANGED <<closed, buf, route, got, missed, first, calls, published, panicked>>

\* close(ch), after the mutex is released; closing twice panics.
Close(s) ==
    /\ stream[s] = "removed"
    /\ closed' = closed \union {s}
    /\ panicked' = (panicked \/ s \in closed)
    /\ stream' = [stream EXCEPT ![s] = "done"]
    /\ UNCHANGED <<subs, buf, route, got, missed, first, calls, published>>

\* Mutant: one more event than the channel holds.
FullMutantOffByOne(s) == Len(buf[s]) > Capacity

Full(s) == Len(buf[s]) >= Capacity

\* Mutant: the event is sent again after the select.
PublishMutantTwice(r) ==
    /\ published[r] < calls[r]
    /\ LET evt == published[r] + 1 IN
        /\ published' = [published EXCEPT ![r] = evt]
        /\ buf' = [s \in Streams |->
                     IF s \in subs[r] /\ ~Full(s) THEN buf[s] \o <<evt, evt>> ELSE buf[s]]
    /\ UNCHANGED <<subs, closed, stream, route, got, missed, first, calls, panicked>>

\* Mutant: a full channel ends the loop over the subscribers.
PublishMutantStopsAtFull(r) ==
    /\ published[r] < calls[r]
    /\ LET evt == published[r] + 1
           blocked == \E s \in subs[r] : Full(s) IN
        /\ published' = [published EXCEPT ![r] = evt]
        /\ buf' = [s \in Streams |->
                     IF s \in subs[r] /\ ~blocked THEN Append(buf[s], evt) ELSE buf[s]]
        /\ missed' = [s \in Streams |->
                     IF s \in subs[r] /\ Full(s) THEN missed[s] \union {evt} ELSE missed[s]]
    /\ UNCHANGED <<subs, closed, stream, route, got, first, calls, panicked>>

\* Mutant: a blocking send under the mutex.
PublishMutantBlocks(r) ==
    /\ published[r] < calls[r]
    /\ \A s \in subs[r] : ~Full(s)
    /\ LET evt == published[r] + 1 IN
        /\ published' = [published EXCEPT ![r] = evt]
        /\ buf' = [s \in Streams |->
                     IF s \in subs[r] THEN Append(buf[s], evt) ELSE buf[s]]
    /\ UNCHANGED <<subs, closed, stream, route, got, missed, first, calls, panicked>>

\* select { case ch <- evt: default: } for every channel of the route: an event
\* for a full buffer is dropped, a send on a closed channel panics.
Publish(r) ==
    /\ published[r] < calls[r]
    /\ LET evt == published[r] + 1 IN
        /\ published' = [published EXCEPT ![r] = evt]
        /\ buf' = [s \in Streams |->
                     IF s \in subs[r] /\ ~Full(s) THEN Append(buf[s], evt) ELSE buf[s]]
        /\ missed' = [s \in Streams |->
                     IF s \in subs[r] /\ Full(s) THEN missed[s] \union {evt} ELSE missed[s]]
    /\ panicked' = (panicked \/ subs[r] \intersect closed # {})
    /\ UNCHANGED <<subs, closed, stream, route, got, first, calls>>

----------------------------------------------------------------------------
(* The handlers. *)

\* A handler reaches its call of Broker.Publish.
CallPublish(r) ==
    /\ calls[r] < MaxEvents
    /\ calls' = [calls EXCEPT ![r] = @ + 1]
    /\ UNCHANGED <<chans, clients, published, panicked>>

\* case evt := <-ch: the event is written and flushed.
Forward(s) ==
    /\ stream[s] = "open" /\ buf[s] # <<>>
    /\ got' = [got EXCEPT ![s] = Head(buf[s])]
    /\ buf' = [buf EXCEPT ![s] = Tail(@)]
    /\ UNCHANGED <<subs, closed, stream, route, missed, first, calls, published, panicked>>

\* case <-notify: the handler returns and its deferred Unsubscribe starts.
ClientGone(s) ==
    /\ stream[s] = "open"
    /\ stream' = [stream EXCEPT ![s] = "leaving"]
    /\ UNCHANGED <<chans, route, got, missed, first, calls, published, panicked>>

Next ==
    \/ \E s \in Streams :
        Subscribe(s) \/ Forward(s) \/ ClientGone(s) \/ Unsubscribe(s) \/ Close(s)
    \/ \E r \in Routes : CallPublish(r) \/ Publish(r)

Spec == Init /\ [][Next]_vars

\* Goroutines that can run do run and the mutex is fair.  Clients need not read:
\* a write to a stalled client may block its handler for ever, so Forward is not fair.
FairSpec ==
    /\ Spec
    /\ \A r \in Routes : WF_vars(Publish(r))
    /\ \A s \in Streams : WF_vars(Unsubscribe(s) \/ Close(s))

----------------------------------------------------------------------------
(* Properties *)

\* Publish never sends on a channel that Unsubscribe has closed and no channel is
\* closed twice, although the close happens outside the mutex.
NoPanic == ~panicked

\* A stream delivers its route's events in the order of their publication and
\* without repetition, also after some were dropped.
InOrder ==
    \A s \in Streams :
        /\ \A i, j \in DOMAIN buf[s] : i < j => buf[s][i] < buf[s][j]
        /\ \A i \in DOMAIN buf[s] : got[s] < buf[s][i] /\ buf[s][i] \notin missed[s]

\* Every event published since the stream subscribed was written, is buffered, or
\* was dropped because the stream's own buffer was full at the time: one slow
\* stream costs the others nothing.
GapsOnlyFromOverflow ==
    \A s \in Streams : stream[s] = "open" =>
        \A e \in first[s] + 1 .. published[route[s]] :
            e <= got[s] \/ e \in missed[s] \/ \E i \in DOMAIN buf[s] : buf[s][i] = e

\* A stream whose client has stopped reading delays nobody: every call of Publish
\* returns although no stream is assumed ever to empty its buffer.
PublishReturns ==
    \A r \in Routes : \A n \in 1 .. MaxEvents : calls[r] >= n ~> published[r] >= n

\* A stream that was left is eventually unsubscribed and its channel closed.
ChannelReleased ==
    \A s \in Streams : stream[s] = "leaving" ~> s \in closed /\ s \notin subs[route[s]]

----------------------------------------------------------------------------
(* The inductive invariant behind the safety properties. *)

\* Subscribed channels are those of streams that have not yet been removed, and
\* only finished streams are closed.
ChannelInv ==
    /\ \A r \in Routes : \A s \in subs[r] :
            route[s] = r /\ stream[s] \in {"open", "leaving"}
    /\ \A s \in Streams : stream[s] = "open" => s \in subs[route[s]]
    /\ \A s \in closed : stream[s] = "done"

\* Whatever a stream has seen, buffered or missed was published on its route.
PublishedInv ==
    \A s \in Streams :
        /\ stream[s] = "new" => buf[s] = <<>> /\ got[s] = 0 /\ missed[s] = {}
        /\ got[s] <= published[route[s]]
        /\ \A i \in DOMAIN buf[s] : buf[s][i] <= published[route[s]]
        /\ \A e \in missed[s] : e <= published[route[s]]

SafetyInv == TypeOK /\ ChannelInv /\ PublishedInv /\ NoPanic /\ InOrder /\ GapsOnlyFromOverflow

=============================================================================

--------------------------- MODULE GraphQLSession ---------------------------
(***************************************************************************)
(* GraphQL subscriptions over a WebSocket (api/graphql_ws.go).  A session  *)
(* is one connection: a read loop that serves the client's messages, a     *)
(* keepalive, and for every subscription a channel of the broker and a     *)
(* goroutine that fans its events out to the client.  All of them write to *)
(* the connection and nothing keeps two of them from writing at once.      *)
(*                                                                         *)
(* The broker is the in-process one; its own interleavings are the subject *)
(* of module Broker, and here its operations are single steps.             *)
(***************************************************************************)
EXTENDS MemoryStore

CONSTANTS
    Sessions,
    Principal,      \* who connects: [role, driver] for every session
    Ids,            \* the ids clients give to their subscriptions
    Fields,         \* the subscription fields asked for
    Capacity,       \* make(chan SSEEvent, 8)
    MaxMessages     \* bound: connections and messages of all clients together

ASSUME SessionAssumption ==
    /\ Principal \in [Sessions -> [role : {"admin", "dispatcher", "driver", "viewer"},
                                   driver : Drivers \union {NoOne}]]
    /\ Fields \subseteq {"routeEvents", "policyAlerts", "podCaptured", "breakEvents"}
    /\ Capacity \in Nat \ {0} /\ MaxMessages \in Nat

VARIABLES
    sock,       \* the sessions; subs is the handler's map from ids to channels
    chans,      \* every channel made, with the goroutine that drains it
    chanPanic,  \* a channel was closed twice, or sent to after it was closed
    messages    \* connections and messages the clients may still make

sessions == <<sock, chans, chanPanic, messages>>

EventTypes == {"stop.advanced", "hos.break.started", "hos.break.ended"}

NoChannel == 0

SessionInit ==
    /\ sock = [s \in Sessions |->
                [state |-> "new", keepalive |-> FALSE, aborted |-> FALSE,
                 subs |-> [i \in Ids |-> NoChannel], heard |-> {}]]
    /\ chans = <<>>
    /\ chanPanic = FALSE
    /\ messages \in 0 .. MaxMessages

SessionTypeOK ==
    /\ \A s \in Sessions :
        /\ sock[s].state \in {"new", "refused", "open", "over"}
        /\ sock[s].subs \in [Ids -> 0 .. Len(chans)]
        /\ sock[s].heard \subseteq Routes
    /\ \A c \in DOMAIN chans :
        /\ chans[c].session \in Sessions /\ chans[c].route \in Routes
        /\ Len(chans[c].buf) <= Capacity
        /\ \A k \in DOMAIN chans[c].buf : chans[c].buf[k] \in EventTypes

----------------------------------------------------------------------------
(* The broker *)

NewChannel(s, id, r, field) ==
    [session |-> s, id |-> id, route |-> r, field |-> field, buf |-> <<>>,
     registered |-> TRUE, closed |-> FALSE, running |-> TRUE, replaced |-> FALSE]

\* Mutant: the event is queued without looking whether there is room.
OfferBeyond(ch, r, evt) ==
    IF ch.registered /\ ch.route = r THEN [ch EXCEPT !.buf = Append(@, evt)] ELSE ch

\* An event for a channel that is full is dropped.
Offer(ch, r, evt) ==
    IF ch.registered /\ ch.route = r /\ Len(ch.buf) < Capacity
    THEN [ch EXCEPT !.buf = Append(@, evt)] ELSE ch

Publish(r, evt) ==
    /\ chans' = [c \in DOMAIN chans |-> Offer(chans[c], r, evt)]
    /\ chanPanic' = (chanPanic \/ \E c \in DOMAIN chans :
                        chans[c].registered /\ chans[c].closed /\ chans[c].route = r)
    /\ UNCHANGED <<sock, messages>>

\* Mutant: the channel leaves the broker's map and stays open.
UnsubscribeLeavesOpen(C) ==
    /\ chans' = [c \in DOMAIN chans |->
                    IF c \in C THEN [chans[c] EXCEPT !.registered = FALSE] ELSE chans[c]]
    /\ UNCHANGED chanPanic

Unsubscribe(C) ==
    /\ chans' = [c \in DOMAIN chans |->
                    IF c \in C THEN [chans[c] EXCEPT !.registered = FALSE, !.closed = TRUE]
                    ELSE chans[c]]
    /\ chanPanic' = (chanPanic \/ \E c \in C : chans[c].closed)

----------------------------------------------------------------------------
(* The read loop *)

Reading(s) == sock[s].state = "open" /\ messages > 0

Received == messages' = messages - 1

\* The upgrade fails for a request that is no handshake, and behind a response
\* writer that cannot be hijacked.
WsConnect(s) ==
    /\ sock[s].state = "new" /\ messages > 0 /\ Received
    /\ \E state \in {"open", "refused"} : sock' = [sock EXCEPT ![s].state = state]
    /\ UNCHANGED <<chans, chanPanic>>

\* connection_init; ping and unknown messages change nothing.
WsInit(s) ==
    /\ Reading(s) /\ Received
    /\ sock' = [sock EXCEPT ![s].keepalive = TRUE]
    /\ UNCHANGED <<chans, chanPanic>>

\* Mutant: any driver may follow any route.
AllowedAnyDriver(s, r) ==
    Principal[s].role \in {"admin", "dispatcher"} \/ (Principal[s].role = "driver" /\ Known(r))

\* Admins and dispatchers, or the driver the route is assigned to.
Allowed(s, r) ==
    \/ Principal[s].role \in {"admin", "dispatcher"}
    \/ /\ Principal[s].role = "driver" /\ Known(r)
       /\ Principal[s].driver # NoOne /\ Principal[s].driver = routes[r].driver

\* A forbidden subscription is answered and leaves nothing behind.
WsForbidden(s, r) ==
    /\ Reading(s) /\ Received /\ ~Allowed(s, r)
    /\ UNCHANGED <<sock, chans, chanPanic>>

\* An id in use is overwritten: its channel stays with the broker and no entry
\* of the map leads to it any more.
WsSubscribe(s, id, r, field) ==
    /\ Reading(s) /\ Received /\ Allowed(s, r)
    /\ LET old == sock[s].subs[id]
           kept == [c \in DOMAIN chans |-> [chans[c] EXCEPT !.replaced = @ \/ c = old]]
       IN  chans' = Append(kept, NewChannel(s, id, r, field))
    /\ sock' = [sock EXCEPT ![s].subs[id] = Len(chans) + 1]
    /\ UNCHANGED chanPanic

\* Mutant: the entry is not deleted.
WsCompleteKeepsEntry(s, id) ==
    /\ Reading(s) /\ Received /\ sock[s].subs[id] # NoChannel
    /\ Unsubscribe({sock[s].subs[id]})
    /\ UNCHANGED sock

WsComplete(s, id) ==
    /\ Reading(s) /\ Received /\ sock[s].subs[id] # NoChannel
    /\ Unsubscribe({sock[s].subs[id]})
    /\ sock' = [sock EXCEPT ![s].subs[id] = NoChannel]

Subscribed(s) == {sock[s].subs[i] : i \in Ids} \ {NoChannel}

\* Mutant: the loop over the map is missing at the end of the handler.
WsEndWithoutCleanup(s) ==
    /\ sock[s].state = "open"
    /\ sock' = [sock EXCEPT ![s].state = "over", ![s].subs = [i \in Ids |-> NoChannel]]
    /\ UNCHANGED <<chans, chanPanic, messages>>

\* ReadJSON fails: the client left, sent no JSON, or the read deadline of 60
\* seconds passed, which no message and no keepalive renews.
WsEnd(s) ==
    /\ sock[s].state = "open"
    /\ Unsubscribe(Subscribed(s))
    /\ sock' = [sock EXCEPT ![s].state = "over", ![s].subs = [i \in Ids |-> NoChannel]]
    /\ UNCHANGED messages

----------------------------------------------------------------------------
(* The fan-out goroutines and the writers of a connection *)

Matches(field, evt) ==
    \/ field = "routeEvents"
    \/ /\ field = "breakEvents"
       /\ evt \in {"hos.break.started", "hos.break.ended"}

\* The goroutine takes an event and writes it if it is of its field; the error
\* of writing to a closed connection is ignored.
FanOut(c) ==
    LET ch == chans[c] IN
    /\ ch.running /\ ch.buf # <<>>
    /\ chans' = [chans EXCEPT ![c].buf = Tail(@)]
    /\ sock' = IF sock[ch.session].state = "open" /\ Matches(ch.field, Head(ch.buf))
               THEN [sock EXCEPT ![ch.session].heard = @ \union {ch.route}]
               ELSE sock
    /\ UNCHANGED <<chanPanic, messages>>

\* A closed channel is drained; then "complete" is written.
FanOutEnds(c) ==
    /\ chans[c].running /\ chans[c].buf = <<>> /\ chans[c].closed
    /\ chans' = [chans EXCEPT ![c].running = FALSE]
    /\ UNCHANGED <<sock, chanPanic, messages>>

\* The fan-out goroutines of a session that are about to write.
Writing(s) ==
    {c \in DOMAIN chans :
        /\ chans[c].session = s /\ chans[c].running
        /\ IF chans[c].buf = <<>> THEN chans[c].closed
           ELSE Matches(chans[c].field, Head(chans[c].buf))}

\* The goroutines, fan-outs and keepalive, that may write at this moment.
Writers(s) == Cardinality(Writing(s)) + (IF sock[s].keepalive THEN 1 ELSE 0)

\* The library panics when two goroutines write at once.  In the read loop, which
\* answers most messages, net/http recovers the panic: the connection is closed
\* and the cleanup is skipped.
LoopPanics(s) ==
    /\ Reading(s) /\ Writers(s) > 0
    /\ sock' = [sock EXCEPT ![s].state = "over", ![s].aborted = TRUE]
    /\ UNCHANGED <<chans, chanPanic, messages>>

\* In another goroutine nobody recovers it and the process dies.  The goroutines of a
\* session that is over still write, of which the first to do so finds out that the
\* connection is closed.
GoroutinePanics(s) ==
    /\ sock[s].state \in {"open", "over"}
    /\ Writers(s) > (IF Reading(s) THEN 0 ELSE 1)

=============================================================================

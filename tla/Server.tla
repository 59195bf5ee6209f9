------------------------------- MODULE Server -------------------------------
(***************************************************************************)
(* The server without a database: the HTTP handlers (api/handlers.go), the *)
(* webhook publisher and worker, and the WebSocket sessions, over the      *)
(* in-memory store.  Handlers run concurrently and interleave between      *)
(* their calls of the store and of the broker.                             *)
(*                                                                         *)
(* A behaviour serves one workload: the kinds of requests its clients make *)
(* are chosen in Init, so that what does not interact is not multiplied.   *)
(***************************************************************************)
EXTENDS GraphQLSession

CONSTANTS
    Requests,       \* handlers that can be at work at the same time
    Workloads,      \* kinds of requests, how many are made, and messages of sessions
    Wants,          \* the events each webhook subscription asks for
    Malformed,      \* the webhook subscriptions whose URL cannot be parsed
    MaxCalls        \* bound: the most requests a workload makes

ASSUME ServerAssumption ==
    /\ MaxCalls \in Nat
    /\ \A w \in Workloads :
        w.calls \in 0 .. MaxCalls /\ w.messages \in 0 .. MaxMessages
    /\ Wants \in [1 .. MaxCalls -> SUBSET EventTypes]
    /\ Malformed \subseteq 1 .. MaxCalls

VARIABLES
    up,         \* the process is alive
    load,       \* the workload of this behaviour
    calls,      \* requests made
    req,        \* the handlers at work
    worker,     \* the webhook worker's batch and the answer to its last POST
    walk,       \* a client that reads a list page by page
    announced,  \* the legs stop.advanced was emitted for
    assigned    \* the pairs of a route and a driver ever assigned to it

book == <<load, announced, assigned>>
vars == <<store, sessions, up, calls, req, worker, walk, book>>

Idle == [pc |-> "idle", kind |-> "", route |-> NoOne, driver |-> NoOne, leg |-> 0,
         evt |-> "", events |-> <<>>, targets |-> {}, hooks |-> <<>>]

Init ==
    /\ StoreInit /\ SessionInit
    /\ up = TRUE
    /\ load \in Workloads /\ messages = load.messages
    /\ calls = 0
    /\ req = [q \in Requests |-> Idle]
    /\ worker = [batch |-> <<>>, answer |-> "none"]
    /\ walk = [pc |-> "idle", list |-> "orders", cursor |-> NoCursor, seen |-> <<>>,
               present |-> {}, lost |-> FALSE]
    /\ announced = [r \in Routes |-> {}]
    /\ assigned = {}

Request(kind) == kind \in load.kinds /\ calls < load.calls /\ calls' = calls + 1

----------------------------------------------------------------------------
(* Requests of one store operation *)

OptimizeHandler(r) ==
    /\ Request("plan") /\ PlanRoutes(r)
    /\ UNCHANGED <<sessions, up, req, worker, walk, book>>

AssignHandler(r, d) ==
    /\ Request("assign") /\ AssignRoute(r, d)
    /\ assigned' = assigned \union {<<r, d>>}
    /\ UNCHANGED <<sessions, up, req, worker, walk, load, announced>>

PatchRouteHandler(r) ==
    /\ Request("patch") /\ PatchRoute(r)
    /\ UNCHANGED <<sessions, up, req, worker, walk, book>>

\* POST of orders, geofences and subscriptions.
CreateHandler(c) ==
    /\ Request(c) /\ Create(c)
    /\ UNCHANGED <<sessions, up, req, worker, walk, book>>

\* DELETE of geofences and subscriptions.
DeleteHandler(c, x) ==
    /\ Request(c) /\ Delete(c, x)
    /\ walk' = IF walk.pc = "walking" /\ walk.list = c
               THEN [walk EXCEPT !.present = @ \ {x}, !.lost = @ \/ walk.cursor = x]
               ELSE walk
    /\ UNCHANGED <<sessions, up, req, worker, book>>

WebhookDeliveryRetryHandler(i) ==
    /\ Request("retry") /\ RetryWebhookDelivery(i)
    /\ UNCHANGED <<sessions, up, req, worker, walk, book>>

----------------------------------------------------------------------------
(* Handlers of several steps *)

Handles(q, r) == req' = [req EXCEPT ![q] = r]

\* POST /v1/routes/{id}/advance: the route is advanced, the event emitted to
\* webhooks, published to streams, and the answer written.
AdvanceHandler(q, r) ==
    /\ req[q].pc = "idle" /\ Request("advance")
    /\ \/ /\ AdvanceRoute(r)
          /\ Handles(q, [Idle EXCEPT !.pc = "emit", !.kind = "advance", !.route = r,
                                     !.leg = routes[r].done + 1, !.evt = "stop.advanced"])
       \/ ~Advanceable(r) /\ UNCHANGED <<store, req>>
    /\ UNCHANGED <<sessions, up, worker, walk, book>>

\* POST /v1/driver-events: the arrivals, departures and proofs of delivery in it.
DriverEventsHandler(q, events) ==
    /\ req[q].pc = "idle" /\ Request("events")
    /\ Handles(q, [Idle EXCEPT !.pc = "try", !.kind = "events", !.events = events,
                               !.evt = "stop.advanced"])
    /\ UNCHANGED <<store, sessions, up, worker, walk, book>>

\* Mutant: the advance a driver event caused is not emitted.
TryEventSilent(q) ==
    /\ req[q].pc = "try"
    /\ LET r == Head(req[q].events) IN
        \/ AdvanceRoute(r) /\ Handles(q, Idle)
        \/ /\ ~Advanceable(r)
           /\ Handles(q, IF Len(req[q].events) = 1 THEN Idle
                         ELSE [req[q] EXCEPT !.events = Tail(@)])
           /\ UNCHANGED store
    /\ UNCHANGED <<sessions, up, calls, worker, walk, book>>

\* The first event that advances its route ends the loop.
TryEvent(q) ==
    /\ req[q].pc = "try"
    /\ LET r == Head(req[q].events) IN
        \/ /\ AdvanceRoute(r)
           /\ Handles(q, [req[q] EXCEPT !.pc = "emit", !.route = r,
                                        !.leg = routes[r].done + 1])
        \/ /\ ~Advanceable(r)
           /\ Handles(q, IF Len(req[q].events) = 1 THEN Idle
                         ELSE [req[q] EXCEPT !.events = Tail(@)])
           /\ UNCHANGED store
    /\ UNCHANGED <<sessions, up, calls, worker, walk, book>>

BreakEvent(action) ==
    IF action = "break_start" THEN "hos.break.started" ELSE "hos.break.ended"

\* Another handler is encoding the map that an update of this driver changes.
EncodingHos(d) == \E q \in Requests : req[q].pc = "answer" /\ req[q].driver = d

\* POST /v1/drivers/{id}/...: UpdateHOS hands out the store's own map, so an
\* update during the encoding of an earlier answer may be fatal to the process.
DriversHandler(q, d, action) ==
    /\ req[q].pc = "idle" /\ Request("hos")
    /\ UpdateHOS(d, action)
    /\ Handles(q, [Idle EXCEPT !.kind = "hos", !.driver = d, !.evt = BreakEvent(action),
                        !.pc = IF action \in {"break_start", "break_end"}
                               THEN "list" ELSE "answer"])
    /\ \/ UNCHANGED up
       \/ EncodingHos(d) /\ up' = FALSE
    /\ UNCHANGED <<sessions, worker, walk, book>>

ListDriverRoutes(q) ==
    /\ req[q].pc = "list"
    /\ LET targets == ListActiveRoutesForDriver(req[q].driver) IN
        Handles(q, [req[q] EXCEPT !.targets = targets,
                                  !.pc = IF targets = {} THEN "answer" ELSE "publish"])
    /\ UNCHANGED <<store, sessions, up, calls, worker, walk, book>>

\* A break is published before it is emitted, an advance after.
PublishEvent(q) ==
    /\ req[q].pc = "publish"
    /\ \/ /\ req[q].kind = "advance"
          /\ Publish(req[q].route, req[q].evt)
          /\ Handles(q, [req[q] EXCEPT !.pc = "answer"])
       \/ /\ req[q].kind = "hos"
          /\ \E r \in req[q].targets :
                /\ Publish(r, req[q].evt)
                /\ Handles(q, [req[q] EXCEPT !.pc = "emit", !.targets = @ \ {r}])
    /\ UNCHANGED <<store, up, calls, worker, walk, book>>

\* Where a handler goes on after Emit.
AfterEmit(rq) ==
    CASE rq.kind = "advance" -> [rq EXCEPT !.pc = "publish"]
      [] rq.kind = "events"  -> Idle
      [] rq.kind = "hos"     -> [rq EXCEPT !.pc = IF rq.targets = {} THEN "answer"
                                                  ELSE "publish"]

\* Publisher.Emit, first part: GetSubscriptionsForEvent.
EmitLookup(q) ==
    /\ req[q].pc = "emit"
    /\ LET subs  == lists["subscriptions"]
           hooks == Subsequence(subs, {i \in DOMAIN subs : req[q].evt \in Wants[subs[i]]}) IN
        Handles(q, IF hooks = <<>> THEN AfterEmit(req[q])
                   ELSE [req[q] EXCEPT !.pc = "enqueue", !.hooks = hooks])
    /\ announced' = IF req[q].kind = "hos" THEN announced
                    ELSE [announced EXCEPT ![req[q].route] = @ \union {req[q].leg}]
    /\ UNCHANGED <<store, sessions, up, calls, worker, walk, load, assigned>>

\* Second part: one EnqueueWebhook after the other.
EmitEnqueue(q) ==
    /\ req[q].pc = "enqueue"
    /\ EnqueueWebhook(Head(req[q].hooks))
    /\ LET rest == Tail(req[q].hooks) IN
        Handles(q, IF rest = <<>> THEN AfterEmit([req[q] EXCEPT !.hooks = <<>>])
                   ELSE [req[q] EXCEPT !.hooks = rest])
    /\ UNCHANGED <<sessions, up, calls, worker, walk, book>>

\* writeJSON, after the store's mutex was released.
Answer(q) ==
    /\ req[q].pc = "answer"
    /\ Handles(q, Idle)
    /\ UNCHANGED <<store, sessions, up, calls, worker, walk, book>>

HandlerStep(q) ==
    \/ TryEvent(q) \/ ListDriverRoutes(q) \/ PublishEvent(q)
    \/ EmitLookup(q) \/ EmitEnqueue(q) \/ Answer(q)

----------------------------------------------------------------------------
(* The webhook worker, one round of processOnce after the other *)

\* A round starts; elapsed are the deliveries whose back-off is over.
FetchDeliveries(elapsed) ==
    /\ worker.batch = <<>> /\ FetchDue(elapsed) # <<>>
    /\ worker' = [batch |-> FetchDue(elapsed), answer |-> "none"]
    /\ UNCHANGED <<store, sessions, up, calls, req, walk, book>>

\* It is the turn of the first delivery of the batch.
Posting == worker.batch # <<>> /\ worker.answer = "none"

\* A subscription is stored with whatever URL the request gave.
Unsendable == queue[Head(worker.batch).id].hook \in Malformed

PostDelivery ==
    /\ Posting /\ ~Unsendable
    /\ \E answer \in {"ok", "error"} : worker' = [worker EXCEPT !.answer = answer]
    /\ queue' = [queue EXCEPT ![Head(worker.batch).id].posts = @ + 1]
    /\ UNCHANGED <<routes, hos, lists, created, dlq, sessions, up, calls, req, walk, book>>

\* No request can be made of a malformed URL: the worker's goroutine uses the nil it
\* got instead, and nobody recovers its panic.
PostPanics ==
    /\ Posting /\ Unsendable
    /\ up' = FALSE
    /\ UNCHANGED <<store, sessions, calls, req, worker, walk, book>>

\* The attempts are those of the time of the fetch.
SettleDelivery ==
    /\ worker.batch # <<>> /\ worker.answer # "none"
    /\ LET it == Head(worker.batch) IN
        IF worker.answer = "error" /\ it.attempts + 1 >= MaxAttempts
        THEN FailWebhookDelivery(it.id)
        ELSE MarkWebhookDelivery(it.id, worker.answer = "ok")
    /\ worker' = [batch |-> Tail(worker.batch), answer |-> "none"]
    /\ UNCHANGED <<sessions, up, calls, req, walk, book>>

----------------------------------------------------------------------------
(* A client that follows nextCursor until it is empty *)

StartWalk(c) ==
    /\ "walk" \in load.kinds /\ walk.pc = "idle"
    /\ walk' = [walk EXCEPT !.pc = "walking", !.list = c,
                            !.present = {lists[c][i] : i \in DOMAIN lists[c]}]
    /\ UNCHANGED <<store, sessions, up, calls, req, worker, book>>

NextPage ==
    /\ walk.pc = "walking"
    /\ LET page == ListPage(walk.list, walk.cursor) IN
        walk' = [walk EXCEPT !.seen = @ \o page.items, !.cursor = page.next,
                             !.pc = IF page.next = NoCursor THEN "done" ELSE "walking"]
    /\ UNCHANGED <<store, sessions, up, calls, req, worker, book>>

----------------------------------------------------------------------------
(* Sessions *)

SessionStep ==
    /\ "socket" \in load.kinds
    /\ \/ \E s \in Sessions :
            \/ WsConnect(s) \/ WsInit(s) \/ WsEnd(s) \/ LoopPanics(s)
            \/ \E id \in Ids :
                \/ WsComplete(s, id)
                \/ \E r \in Routes, field \in Fields : WsSubscribe(s, id, r, field)
            \/ \E r \in Routes : WsForbidden(s, r)
       \/ \E c \in DOMAIN chans : FanOut(c) \/ FanOutEnds(c)
    /\ UNCHANGED <<store, up, calls, req, worker, walk, book>>

\* Nothing of the in-memory store survives.
ProcessDies ==
    /\ \E s \in Sessions : GoroutinePanics(s)
    /\ up' = FALSE
    /\ UNCHANGED <<store, sessions, calls, req, worker, walk, book>>

----------------------------------------------------------------------------

EventLists == {<<r>> : r \in Routes} \union {<<r, t>> : r, t \in Routes}

HosActions == {"shift_start", "shift_end", "break_start", "break_end"}

Next ==
    /\ up
    /\ \/ \E r \in Routes :
            \/ OptimizeHandler(r) \/ PatchRouteHandler(r)
            \/ \E d \in Drivers : AssignHandler(r, d)
       \/ \E c \in {"orders", "geofences", "subscriptions"} : CreateHandler(c)
       \/ \E c \in {"geofences", "subscriptions"} :
            \E i \in DOMAIN lists[c] : DeleteHandler(c, lists[c][i])
       \/ \E i \in DOMAIN queue : WebhookDeliveryRetryHandler(i)
       \/ \E q \in Requests :
            \/ \E r \in Routes : AdvanceHandler(q, r)
            \/ \E events \in EventLists : DriverEventsHandler(q, events)
            \/ \E d \in Drivers, action \in HosActions : DriversHandler(q, d, action)
            \/ HandlerStep(q)
       \/ \E elapsed \in SUBSET DOMAIN queue : FetchDeliveries(elapsed)
       \/ PostDelivery \/ PostPanics \/ SettleDelivery
       \/ \E c \in Collections : StartWalk(c)
       \/ NextPage \/ SessionStep \/ ProcessDies

Spec == Init /\ [][Next]_vars

\* The fan-out of a connection that has been closed: its writes return at once.
DetachedStep(c) ==
    /\ sock[chans[c].session].state = "over"
    /\ FanOut(c) \/ FanOutEnds(c)
    /\ UNCHANGED <<store, up, calls, req, worker, walk, book>>

\* The goroutines that wait for no client; a POST of the worker has a timeout.
RunnableStep ==
    /\ up
    /\ \/ \E q \in Requests : HandlerStep(q)
       \/ \E elapsed \in SUBSET DOMAIN queue : FetchDeliveries(elapsed)
       \/ PostDelivery \/ PostPanics \/ SettleDelivery
       \/ \E c \in DOMAIN chans : DetachedStep(c)

\* They do not all stand still.  More is not needed: the workloads are finite, and
\* a delivery is tried a finite number of times.
FairSpec == Spec /\ WF_vars(RunnableStep)

----------------------------------------------------------------------------
(* Properties *)

\* The types of the state; a broker channel never holds more than it has room for.
TypeOK ==
    /\ StoreTypeOK /\ SessionTypeOK
    /\ up \in BOOLEAN /\ calls \in 0 .. MaxCalls
    /\ \A q \in Requests : req[q].pc \in
            {"idle", "emit", "enqueue", "publish", "try", "list", "answer"}
    /\ walk.pc \in {"idle", "walking", "done"}
    /\ worker.answer \in {"none", "ok", "error"}
    /\ \A r \in Routes : announced[r] \subseteq 1 .. DemoLegs

\* A channel is left with the broker after its session only when its id was given
\* to a second subscription, or when the handler panicked before the cleanup.
LeakNeedsReuse ==
    \A c \in DOMAIN chans :
        chans[c].registered /\ sock[chans[c].session].state = "over"
            => chans[c].replaced \/ sock[chans[c].session].aborted

\* However complete messages, reused ids and the end of the session interleave
\* with publications, no channel is closed twice or sent to after its close.
NoChannelPanic == ~chanPanic

\* A driver's session is sent events only of routes that were at some time
\* assigned to this driver.
DriverSawOwnRoutes ==
    \A s \in Sessions : Principal[s].role = "driver" =>
        \A r \in sock[s].heard : <<r, Principal[s].driver>> \in assigned

\* The channels of sessions that are over, except those LeakNeedsReuse speaks of.
Orphans ==
    {c \in DOMAIN chans :
        /\ sock[chans[c].session].state = "over" /\ ~sock[chans[c].session].aborted
        /\ ~chans[c].replaced}

\* Once a session is over the goroutines of its subscriptions end: again and again
\* none of them is left.
StreamsEnd == []<>(~up \/ \A c \in Orphans : ~chans[c].running)

Progress(r) == INSTANCE RouteProgress
    WITH N <- DemoLegs, done <- routes[r].done, announced <- announced[r]

\* Concurrent advances and driver events visit the legs of a route one by one,
\* and stop.advanced is emitted only of a leg already visited.
ImplementsProgress ==
    /\ \A r \in Routes : Progress(r)!Init
    /\ [][\A r \in Routes : Progress(r)!Next \/ UNCHANGED <<routes[r].done, announced[r]>>]_vars

\* Every leg visited, by whichever request, is in the end emitted to the webhooks.
LegsAnnounced == []<>(~up \/ \A r \in Routes : 1 .. routes[r].done \subseteq announced[r])

\* A client that follows nextCursor to the end has seen every item that was there
\* all the time, and sees one twice only if the item of its cursor was deleted.
WalkComplete ==
    LET seen == {walk.seen[i] : i \in DOMAIN walk.seen} IN
    walk.pc = "done" =>
        /\ walk.present \subseteq seen
        /\ Cardinality(seen) < Len(walk.seen) => walk.lost

\* A receiver is sent a delivery at most MaxAttempts times, and once more for
\* each retry the administrator asked for; one given up is in the dead letters.
PostsBounded ==
    \A i \in DOMAIN queue :
        /\ queue[i].posts <= MaxAttempts + queue[i].retries
        /\ queue[i].status = "failed" => \E k \in DOMAIN dlq : dlq[k] = i

\* Every delivery queued is in the end delivered or given up.
DeliveriesSettle == []<>(~up \/ \A i \in DOMAIN queue : ~Queued(i))

=============================================================================

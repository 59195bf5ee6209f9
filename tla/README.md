# A TLA+ model of the route planning and delivery service

The repository is a Go service for last-mile delivery: it plans routes, tracks
drivers along them, streams what happens to clients, and sends webhooks. This
directory models the parts of it in which several processes, goroutines or requests
meet, and the search that plans the routes, checks them with TLC on small instances, and
proves the main results with TLAPS for every value of the constants.

## Inventory

| component | state it keeps | operations | what is hard about it |
|---|---|---|---|
| delivery worker, `internal/webhooks/worker.go` | the batch it has read, in memory | a tick every second: fetch, POST, mark or fail | one worker in every API process, no row is locked, crashes, ignored errors, one context for a batch, a panic nobody recovers |
| webhook tables, `internal/store/postgres.go` | `webhook_deliveries`, `webhook_dlq` | enqueue, fetch, mark, fail, retry, requeue, delete | decisions on stale copies, two statements without a transaction, the unique index |
| publisher, `internal/webhooks/publisher.go` | none | `Emit`: one row for each subscription | duplicate keys |
| in-process broker, `internal/api/broker.go` | channels subscribed to each route | subscribe, unsubscribe, publish | close outside the mutex, full buffers |
| Redis broker, `internal/api/broker_redis.go` | a channel and a pump goroutine for each stream | the same | the pump outlives the stream, lost connections, commands sent again |
| event streams, `RouteByIDHandler` | none | forward until the client leaves | closed channels |
| route progress, `AdvanceRoute` in `postgres.go` | `route_legs.status`, `routes.auto_advance`, `events` | advance, driver events, assign, patch | a dozen statements, the last of which act on what the first ones read; a driver who may be replaced between them |
| hours of service, `UpdateHOS` | `drivers.hos_state` | shift and break start and end | read, change, write back |
| WebSocket sessions, `internal/api/graphql_ws.go` | map from id to channel | init, subscribe, complete, keepalive, fan-out | id reuse, several writers on one connection, rights checked once, read deadline |
| in-memory store, `internal/store/memory.go` | everything, under one mutex | the same interface as Postgres | cursors of deleted items, a map handed out of the mutex, retries without a reset |
| handlers, `internal/api/handlers.go` | none | one for each request | they interleave between their calls of the store, the publisher and the broker |
| planning, `PlanRoutes` | `routes`, `route_legs` | cluster or search, then lay out legs, breaks, depots | stops the query does not return, no transaction, limits on the way back to the depot, clients that advance what is half written |
| optimiser, `internal/opt` | current and best plans | remove and insert stops, improve, exchange, accept | slices that share an array, loops that must end, stops lost and doubled |
| orders, subscriptions, geofences, proofs of delivery | their tables | create, list, patch, delete | duplicate check, lost updates, cursors |
| token verification, `internal/auth` | key cache | verify, refresh | stale keys |
| HTTP server, GraphQL over HTTP, docs, metrics, adapters | none | wiring | - |

How they interact: handlers call the store and, for what clients should hear of, the
publisher (webhooks) and the broker (streams). The worker polls the store. Several API
processes share the database and, if configured, Redis; each has its own worker and
its own in-process broker.

`PROJECT.json` lists the components with their status, every hazard with its line and
the properties that would catch it, and the source lines of every definition.

What makes each part correct: the queue delivers or gives up every webhook it can send,
neither early nor without an answer, and accounts for what it gives up; a broker delivers in
order, loses only what overflows, never delays a publisher and never panics; a route is
travelled leg by leg, its policy is respected, and what is announced has happened; a plan
visits every stop it was given and can carry exactly once, keeps the drive limit and its own
clock, and is answered; a session hears only of routes its user was given and leaves nothing
behind; a list read page by page misses nothing.

## Modules

| module | models | state and actions |
|---|---|---|
| `WebhookQueue` | worker, webhook tables, administration | the two tables, and for each worker its place in `processOnce` and the copies it holds; one action for each statement |
| `DeliveryContract` | nothing in the code: what a queue promises | a delivery is queued, tried, delivered or dead |
| `Broker` | in-process broker and event streams | the subscriber sets, buffers, closed channels, and each stream's place in its handler |
| `RedisBroker` | Redis broker and event streams, one route | the pump of each stream between the library's channel and the stream's own |
| `RouteAdvance` | `AdvanceRoute`, its callers and what it reads | the legs' status, policy, events by age, the route's driver, the drivers' states, and each request's place in `AdvanceRoute` |
| `RouteProgress` | nothing in the code: what a route's clients are promised | the furthest leg and the legs announced |
| `Optimiser` | `opt.Solve` | the current and the best plans, the stops taken out, the loop variables of or-opt; one action for each phase of an iteration |
| `Planning` | `PlanRoutes` on Postgres and `OptimizeHandler`, over `Optimiser` | the routes and legs written so far, the planner's clock; one action for each statement, and clients that advance routes |
| `MemoryStore` | the in-memory store | routes, hours of service, lists, the webhook queue; one operator for each method |
| `GraphQLSession` | WebSocket sessions over the in-process broker | each connection's map of subscriptions, each channel and its fan-out |
| `Server` | handlers, publisher and worker over `MemoryStore` and `GraphQLSession` | each request's place in its handler, the worker's batch, a client's walk through a list |
| `Lists` | the loop that copies the items that pass a test, shared by `Planning`, `Optimiser`, `MemoryStore` and `Server`, and the one that adds up a cost | no state: two operators |
| `*Proofs` | theorems and proofs | |
| `MC*` | constants for TLC | |

### WebhookQueue

A member of `Deliveries` is one row: the unique index allows one for each tenant, event
type, URL and dedup key. `FetchDue` copies due rows into `batch`; `Post` chooses any answer;
`Mark`, `Fail` and `DeadLetter` are the statements that follow, computed from the copy as
the code does. `ContextExpired` is the silent end of a batch whose context ran out,
`StatementFails` an error nobody looks at. Time is only `due`: a row is due or its back-off
has not elapsed. Nothing checks the URL of a subscription: for one that does not parse
(`Malformed`) the worker gets no request, uses the nil it got instead, and the process dies
(`PostPanics`) before the row is touched. Unlike `Crash`, which `MaxFaults` bounds, this
happens whenever a worker comes to such a row, so a queue that holds one (`Wedged`) may
stand still for ever: `EventuallySettled` and the fairness of `DeliveryContract` (`Blocked`)
except it. `RequeueEnqueue` and `RequeueDelete` are the two statements of
`RequeueWebhookDLQ`. The bulk variant is one step: its deletes are a transaction, and its
enqueues outside of it change nothing because the rows exist. `acked` and `fails` are
history. A POST that timed out counts as failed whether or not the endpoint got it.

### Broker and RedisBroker

An event is its number on its route, in `RedisBroker` the number of the first PUBLISH
command for it that Redis took. In `Broker` the calls under the mutex are one action
each and `Close` is separate, as in the code. In `RedisBroker` the library may lose and
regain a connection or close its channel: go-redis is outside the repository, and the
comment in `Unsubscribe` expects the latter to happen. The client is built with the
library's default retries, so a PUBLISH whose reply is lost is sent again, up to
`MaxResends` times, behind whatever was published meanwhile (`Resend`). `InOrder` is
therefore about messages, and says of events what follows: one is seen again, or behind a
newer one, only if its PUBLISH was repeated. A panic in a pump stops the
process and the model; one in a handler is recovered by net/http.

### RouteAdvance

A request goes through `GetRoute`, `CurrentLeg`, the policy questions, `Commit` and
`Report`, each a step of its own, between which other requests, driver events, changes of
policy or assignment, breaks and time may come. The question of the driver is two queries
outside any transaction, `Assignee` and `DriverState`, and the route may pass to another
driver in between (`AssignRoute`). So what holds is weaker than the comment in the code:
`UnavailableDriverBlocks` says that some driver who had the route during the request was
available at some moment of it, or there was none. The two moments need not coincide: if the
route passes from one driver on a break to another one on a break between the two queries,
and the first then ends the break, the request goes through, although at every moment the
route's own driver was on a break. The fields `away`, `holders` and `blind` of a request are
the history the property is about. `QueryFails` is the ignored error of a
policy query, `StatementFails` an error that is returned. A transaction is one step.
Event times are ages up to `MaxAge`. The model keeps `stop.advanced` as a set of legs and
leaves `policy.alert` out. Policies come from `PatchRoute` of the store; the HTTP PATCH
handler never sets one, so they may also be written to the database directly. `UpdateHOS`
is atomic here, that is, a driver's own requests do not overlap. A failed read of the
route after the commit is `StatementFails` at `report`.

### Optimiser and Planning

`Planning` extends `Optimiser`: one optimize request, from the stops its query returned to
the answer. Those are `Stops`, the first `n` of the `Pending` ones: the query has `LIMIT
500` (`MaxStops`), and an error that ends the loop over the rows is not asked for, so a
request may have read any fewer and is answered all the same. Stops and depots lie on a
line, so that the distance, the drive time and the cost of a hop are the same number; time
windows, service times, drive limits, skills and depots are kept. What the code draws at
random is nondeterministic: the operators, how many and which stops are removed, when the
time budget ends. The adaptive weights and the temperature only bias these draws, except
that a weight of zero rules an insertion out, which is the field `inserts` of a problem.
Demands are zero in every problem `PlanRoutes` builds, so capacities never bind. The seed,
an insertion, an improving move and a turn of the or-opt loop are steps. `Spliced` is
`append(append(o[:i], seg...), o[i+la:]...)` as Go executes it: the inner append writes into
the array from which the outer one then reads. Removed stops are put back in any order after
a random removal, the most related first after a related one. The improvements take any
improving move where the code takes a particular one; they end, as in the code, when none is
left.

The greedy planner's clusters, nearest-neighbour order and 2-opt are functions of the
problem (`GreedyOrder`). Then both planners write the same statements: `InsertRoute`,
`InsertDepotLeg`, `InsertBreak`, `InsertLeg`, `InsertReturnLeg`, each of which may fail
(`StatementFails`) and leaves what was written; `ReadRoute` has the ignored error of
reading a route back. `Advance` is a client who advances a route that is already there,
in the form that `RouteAdvance` has in detail. `emitted` and `published` are the breaks
sent to webhooks and streams, both best effort. `TimesAddUp` is about the stops that legs
lead to. No leg leads to the first stop of a route without a depot: the code leaves it at
the time of planning, whatever its window and service time.

### MemoryStore, GraphQLSession and Server

These three are one specification in three layers: `Server` extends `GraphQLSession`, which
extends `MemoryStore`. A method of the store is one step, because it holds the store's
mutex. A handler is a sequence of such steps, and other handlers, the worker and the
sessions come in between: an advance is stored, emitted and published in separate steps; a
break is published and emitted route by route; `Emit` reads the subscriptions and then
enqueues one delivery after the other. The lists of orders, routes, geofences and
subscriptions are modelled once, with the end of a page that each of them has. A session is
the read loop with its map from ids to channels; each subscription has a channel of the
broker and a fan-out goroutine. Two writers on one connection make the library panic: in the
read loop the panic is recovered and the cleanup is skipped (`LoopPanics`), elsewhere the
process dies (`ProcessDies`), also when the goroutines of a session that is over still
write. It also dies when a driver's map is encoded while another request changes it
(`DriversHandler`), and when the worker comes to a delivery whose URL does not parse
(`PostPanics`); the in-memory store dies with it. `announced`, `assigned`, `heard`, `posts`
and `retries` are history.

The handlers are modelled as the tests mount them. `cmd/api/main.go` wraps them in a
response writer that hides flushing and hijacking; behind it no stream can be opened at
all, which is the outcome `refused` of `WsConnect`.

## Runs

| run | instance | shows |
|---|---|---|
| `webhook_shared` | 2 workers, 2 rows of which 1 has a malformed URL, 3 attempts, 1 retry, 1 fault | five safety properties and that every webhook is settled |
| `webhook_sole` | 1 worker, 3 rows of which 1 has a malformed URL | `DeliveryContract`, liveness included |
| `webhook_requeue` | 1 worker, 2 rows | **violation**: a requeued dead letter is deleted and its row stays failed |
| `broker` | 2 streams, buffers of 2, 4 events | no panic, order, gaps, publishers never wait, channels released |
| `redis_broker` | 2 streams, buffers of 1, 3 commands, of which 1 for each event is a repetition | order, repetition only of what was sent again; when a panic and when blank events are possible |
| `redis_leave` | 1 stream | **violation**: a pump sends on the channel that was closed under it |
| `route_advance` | 2 requests at once, 2 legs, 2 drivers who take breaks, a strict policy, batches of events, 1 fault | order of legs, unavailable drivers, `RouteProgress` |
| `route_stale` | 2 forced requests, 3 legs | **violation**: an overtaken request reopens a visited leg |
| `route_hos` | 1 request at a time, drive - break - drive | **violation**: a break does not reset the drive time limit |
| `planning` | greedy requests on up to 5 stops, some with more pending ones, 7 searches of 2 iterations on 4 or 5 stops, 2 advances | what is planned, drive limit, times, statuses, stops kept by the search, requests end |
| `optimiser_hangs` | one search with the default operators on 3 stops | **violation**: the or-opt pass never ends |
| `server` | 2 concurrent requests, 2 sessions, 2 routes, 2 drivers, six workloads of 2 to 5 requests and up to 4 messages | streams, rights, progress, announcements, deliveries, pages |

Bounds. Two workers are enough for every pair of conflicting writes; three attempts separate
the first, a middle and the last one; one fault is a crash or a failed statement at any
place, and panics over a malformed URL are as many as there are turns to POST it. Two rows
that can be sent are needed only where a batch has several items (`webhook_sole`, where a
batch holds two of the three rows); in `webhook_shared` a batch has one item (`FetchLimit`),
and the workers race on it. Buffers are smaller than the number of events so that they
overflow. Two requests meet in every order on two legs; three legs are needed for one
request to overtake another by a whole leg. Two drivers are the fewest between
whom a route can change hands. Requests and drivers of `route_advance` are symmetric: nothing
tells them apart, and its properties are safety properties. There drivers report breaks
only (`HosActions`), since a shift that ends is read and written like a break that begins;
in `route_stale` and `route_hos` they report both. The proofs hold for any callers, drivers
and actions, and for any `FetchLimit`. `MaxRetries`, `MaxResends`, `MaxFaults`, `MaxCalls`,
`MaxEvents` and `MaxAge` bound what the environment does, and no theorem depends on their
value. In `planning` four stops are the fewest on
which 2-opt can reverse a segment, and two vehicles with two stops each the fewest on which
the segment exchange overwrites a stop; the placements include ties between seeds, the
requests windows no order meets, skills nobody has, a missing stop that costs nothing, and
six pending stops of which none to five are read. `BestServesAll` and, for the search,
`PlannedOnce` are about problems in which a missing stop costs more than all the driving and
all the delay of a solution that serves every stop once (`MissingIsWorst`); the searches
with windows meet it with stops that are served late. `Far` stands for the largest float and
for a window without end; as in the code it is dearer than any solution of the instances. In
`server` a workload names the kinds of requests of one behaviour, so that what does not
interact (pages and streams, say) is not multiplied; four messages are a connection, two
subscriptions under one id and a complete; a channel of one event overflows at the second;
two attempts separate the first from the last; of the webhook subscriptions one has a
malformed URL, whose deliveries end the process; pages of two items end exactly at the end
of a list of two or four and inside one of three.

`CHECK_DEADLOCK FALSE` is set for the brokers and the server: when every stream is done
and no event or request is left they have nothing more to do. In `planning` the end of a
request is an explicit stutter.

Fairness. In `WebhookQueue` the ticker runs again every second and every call has a
timeout, so a worker that can step does; clocks advance and a dead process is started
again; nothing is assumed of endpoints and administrators. In `Broker` goroutines that
can run do, and the mutex is fair; clients are not assumed to read. In `Planning` the goroutine of the
request runs on (`FairSpec`); `SteadySpec` is the same assumption with the enabledness
written out, which TLC checks faster: a step of the request is possible until it has
ended. In `Server` some goroutine that waits for no client takes a step as long as there
is one: handlers, the worker, whose POSTs have a timeout, and the fan-outs of closed
connections, whose writes return at once. Clients need not send, read or close anything.

Each property of a passing run has a mutant, an operator beside the one it replaces
(`...Mutant...`, or marked as a mutant in its comment), a plausible error in that code
that the property finds.

## Findings

1. `RequeueWebhookDLQ` loses the webhook it should requeue: the insert meets the failed
   row in the unique index and does nothing, then the dead letter is deleted.
2. `RedisBroker.Unsubscribe` closes a channel its pump still uses; the next message, or the
   end of the feed, panics outside any handler.
3. `AdvanceRoute` may act on a leg that is no longer current when requests overlap, and
   take a visited leg back to `in_progress`. `SoleCallerAdvances` proves that overlap is
   the only cause; `LegsInOrder` that even then no leg is skipped.
4. `hosMaxDriveSec`, documented as continuous drive time, is compared with the drive time
   of the whole route.
5. `orOptLocalImprove` never ends for a plan of two or more stops: its innermost loop
   assigns to its own variable. `regretInsert` calls it always, so a search with the
   default operators hangs as soon as it draws that insertion, whatever `timeBudgetMs`
   says. `PlanningReturns` shows that without it every request ends.

Seen while modelling, and held by weaker properties instead of runs of their own: a webhook
whose URL does not parse brings the process down, and since its row stays due, every restart
ends in the same way, whatever `WEBHOOK_MAX_ATTEMPTS` says, and webhooks due later are not
delivered (`EventuallySettled`, `ImplementsContract`); a route that changes hands between
the reads of its driver and of the driver's state may be advanced although its driver was on
a break at every moment (`UnavailableDriverBlocks`); the segment exchange loses and doubles stops of the current solution, while the best one stays
whole as long as a missing stop is dear (`StopsInPlay`, `BestServesAll`); a lone stop
becomes a route without legs (`PlannedOnce`); a route advanced to its end while it is being
laid out gets legs nobody begins (`CurrentLegBegun`); a reused subscription id leaks a
channel (`LeakNeedsReuse`); a page after a deleted cursor starts again (`WalkComplete`); a
driver keeps the stream of a route given to somebody else (`DriverSawOwnRoutes`); a plan
is answered although stops were not read (`PlannedOnce`); the first stop of a route without
a depot is left at once, whatever its window (`TimesAddUp`); a repeated PUBLISH brings an
old event back (`InOrder`).

## Proofs

All theorems hold for arbitrary constants that satisfy the assumptions of the modules
(`ConstantsAssumption`, `BrokerAssumption`, `RedisAssumption`, `RouteAssumption`,
`ProblemAssumption`, `PlanningAssumption`, `MemoryAssumption`, `SessionAssumption`,
`ServerAssumption`), which TLC evaluates in the runs. They say what the code says of its
parameters: counts and times are natural numbers, buffers and limits are positive, a
problem's tables have an entry for each of its stops and vehicles.

* `WebhookQueueProofs`. `SafetyInv` is inductive: besides the types it says what a
  worker's place implies (`WorkerInv`), that a copy is never ahead of its row
  (`CopiesBehind`), and that dead letters have rows (`DlqInv`). `AttemptsBounded` is not
  inductive: a worker that holds a copy below the limit may still add one. `CountInv`
  adds the number of such workers to the attempts; a worker whose copy is at the
  limit no longer counts, so when nobody else counts the sum has room for one more. From
  it follow `RowsCorrect`, `QueueTypes`, `DeliveriesWereAcked` and `AttemptsNeverRunAway`.
  `DeadLettersAccounted` is an induction of its own over the workers between the two
  statements. `SoleWorkerKeepsContract` shows that with one worker each step is a step of
  the contract; `SoleInv` says that nobody else moves a row the worker holds, except back
  to pending.
* `BrokerProofs`. `ChannelInv` (subscribed channels belong to streams not yet removed,
  closed ones to finished streams) gives `BrokerTypes` and `BrokerNeverPanics`; with
  `PublishedInv` (nothing is seen, buffered or missed that was not published) it gives
  `StreamsFaithful` and `StreamsInOrder`.
* `RedisBrokerProofs`. `ControlInv` adds to the types that a channel is closed only by the
  departure of its stream or the end of its feed (`ClosedInv`), which gives `RedisTypes`,
  `PanicsNeedDeparture` and `BlanksNeedEndedFeed`. Order needs more than the stream's
  buffer: `OrderInv` says that the stream's buffer and the library's are ascending, the
  one before the other, and both between what the client has got and what was
  published; `EventInv` that the event of a message is its own number or that of an
  earlier one, so that a message that is no repetition has a newer event than all before
  it. Together they give `RedisStreamsInOrder`, although connections come and go and
  commands are sent again.
* `RouteAdvanceProofs`. `EverPrefix` (the legs ever visited are a prefix of the route) and
  `LegInv` (what a request in flight holds lies within or just behind that prefix) give
  `RouteTypes`, `LegsInOrder` and the refinement `RouteKeepsPromise`. `UnavailableBlocks`
  follows from `HeldInv`: a driver who was unavailable all along still is, and the driver a
  request found, like the one the route has now, is among those who had it since the
  request began (`Watched`). `SoleInv` adds that one request at a time keeps its leg current
  and gives `SoleCallerAdvances`.
* `ListProofs`. What a filtered list is, without recursion: its items are those that pass,
  in their order, and each keeps its place by its rank among them. The lemmas about the
  length, the members and the order of `Subsequence` carry the lists of `Server` and the
  orders of `Planning`; bounds of sums (`TotalBound`, `TotalEach`) carry its costs.
* `ServerProofs`. `HandlerInv` says that a route is never beyond its last leg and its driver
  was assigned to it (`RouteInv`), that lists are in the order of creation (`ListInv`), and
  that a handler past its call of the store holds a leg that was visited (`RequestInv`),
  so that what was announced has happened (`AnnouncedInv`). `ServerKeepsPromise` is the
  second refinement of `RouteProgress`, by many routes at once. The rest of the state is
  proved on top of `HandlerInv`. `PostsAreBounded`: a retry does not reset the attempts,
  so they stop counting posts once they are used up. `CountInv` relates the posts whose
  answer was noted to attempts and retries and says that a queued delivery has one left;
  `BatchInv` says that the worker's copies are distinct, queued and current.
  `WalksAreComplete`: `WalkInv` says that what was there all along is seen already or
  behind the cursor (`Covered`), and that pages ascend until a cursor is lost
  (`Ascending`).
  `LeaksNeedReuse`, `ChannelsNeverPanic` and `DriversSeeOwnRoutes` come from `SessionInv`:
  an entry of a session's map leads to a registered, open channel made for that session
  and id, every registered channel has its entry unless its id was given away, and a
  channel of a driver's session is for a route the driver was given.
  `ServerTypes` adds the remaining variables (`ClerkInv`).
* `PlanningProofs`. `SearchInv` holds the plans, the stops taken out and the loop of or-opt
  (`ScanInv`): the order found so far has the stops of the vehicle's order, unless none was
  found yet. `SearchKeepsStops` has the hypothesis `[]CostFits`: the current solution
  never costs more than the largest float, from which the loop starts. Were it dearer,
  the code would take the empty order for an improvement; no solution of the runs is.
  `LayInv` is about the rows while they are written and advanced: each leg begins where
  the one before ends and the planner's clock is the end of the last one (`Timed`), the
  visited legs are a prefix and the one behind them is begun unless the route was
  advanced beyond what was written (`Begun`), and the planner's counter is the drive time
  since the last break (`Limited`, `LayRow`). `Timed` also has for each leg that the stop it
  leads to is reached and left in time (`InTime`). `LayInv` gives `TimesFit`, `CurrentLegs`,
  `LimitsKept` and, with what the greedy planner's functions yield, `PlanningTypes`.
* `PlannedProofs`, the search's best solution. `BestServesAll` says nothing of the current
  solution, which may lose stops and hold others twice, so it is not inductive. `BestInv`
  bounds the current solution by its `Load`, the places in its plans and the stops taken
  out: there are never more than stops that some vehicle may carry. The seed fills one
  place for each such stop, every other step moves stops, and the segment exchange, when
  it doubles a stop, overwrites another. So a solution that serves all of them holds each
  once, and it costs at most `n` times the longest hop and the worst delay
  (`EffortFacts`), while one that lacks a stop pays for it: `Accept` never replaces a
  whole best solution by one that is not (`WholeIsCheaper`). This gives `BestIsWhole`. It
  needs no hypothesis about the size of costs. The attempt showed that the hypothesis
  `MissingIsWorst` has to count the delay: with driving alone a solution that drops a
  stop can be cheaper, because the others are then served on time.
* `PlannedProofs`, the answer. `StopsPlannedOnce` needs to know where the orders come from
  and how far each row is: `VisitInv` says that the rows and the orders still to be laid
  out are a plan that divides the stops (`Divides`: no stop twice, and every stop in an
  order or the only one that belongs to some empty order), that the legs of a row lead to
  the places of its order one after the other (`Laid`), and that every row but the one
  being laid out is laid out to its end (`Complete`). The greedy planner divides the
  stops because a stop belongs to one cluster, a seed to its own, and nearest neighbour
  and 2-opt rearrange a cluster (`GreedyDivides`); the search because its best solution
  is whole (`TakenDivides`). An advance by a client in between changes no leg's stops
  (`VisitAdvance`). At the end the stops left out are counted by an injection into the
  routes without legs (`LeftOut`); pending stops that were not read are in no order and
  hence on no leg.

Nearest neighbour, 2-opt, the seeds, sums and the drive time since a break are recursive
functions. Their existence is proved in place, and an induction over their argument is made
by contradiction, with the least argument that has no such value.

Only model-checked: the liveness properties (`EventuallySettled`, `PublishReturns`,
`ChannelReleased`, `PlanningReturns`, `StreamsEnd`, `LegsAnnounced`,
`DeliveriesSettle`) and the fairness part of `ImplementsContract`, which need reasoning
about fairness that the prover does not offer. Every invariant and action property of
the passing runs is a theorem.

## Not modelled, and why

Signatures, tokens and JSON are data no property here tells apart. Temperatures and
adaptive weights of the optimiser are floating point and only bias random choices.
Metrics and read-only queries store nothing that is read back for a decision. The HTTP
server and its middleware, documentation, GraphQL over HTTP and the adapters hold no
state; token verification is a library over an external key set. Orders, geofences,
subscriptions and proofs of delivery on Postgres are single statements, or a read and a
write of one row whose loss of concurrent updates is plain; the repository does not say
what should happen then, so there is no property to hold them to. Two planning requests at
once are not modelled for the same reason.

## Plan

What is left is liveness, which stays with TLC, and the components listed above as not
modelled. A change to the code begins with the module that `PROJECT.json` maps its lines
to; its run says whether the properties survive, and the proofs of that module whether
they hold for more than the instance.

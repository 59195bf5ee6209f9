---------------------------- MODULE MemoryStore ----------------------------
(***************************************************************************)
(* The store used when no database is configured (store/memory.go).  Every *)
(* operation below runs under the store's one mutex, so each is a single   *)
(* step; handlers interleave between operations, never inside one.         *)
(*                                                                         *)
(* A route that is not in the map reads as the zero value, which has       *)
(* version 0.  Items of the lists are numbered in the order of their       *)
(* creation.                                                               *)
(***************************************************************************)
EXTENDS Naturals, Sequences, FiniteSets, Lists

CONSTANTS
    Routes,         \* route ids
    Drivers,
    NoOne,          \* the empty driver id
    MaxAttempts,    \* Worker.MaxAttempts
    Batch,          \* deliveries fetched at a time, 50 in the code
    Limit           \* the page size clients ask for

ASSUME MemoryAssumption ==
    /\ NoOne \notin Drivers
    /\ MaxAttempts \in Nat \ {0} /\ Batch \in Nat \ {0} /\ Limit \in Nat \ {0}

VARIABLES
    routes,     \* m.routes
    hos,        \* m.hos: status and whether the driver is on a break
    lists,      \* m.byTen, m.routesTen, m.gfsTen and m.subs: the items listed
    created,    \* items ever created in each list
    queue,      \* m.deliveries in the order of m.deliveriesByTenant
    dlq         \* m.dlq: the deliveries dead-lettered

store == <<routes, hos, lists, created, queue, dlq>>

\* The lists whose pages a client can ask for.
Collections == {"orders", "routes", "geofences", "subscriptions"}

DemoLegs == 2

ZeroRoute == [driver |-> NoOne, status |-> "", version |-> 0, legs |-> 0, done |-> 0]

StoreInit ==
    /\ routes = [r \in Routes |-> ZeroRoute]
    /\ hos = [d \in Drivers |-> [status |-> "off", onBreak |-> FALSE]]
    /\ lists = [c \in Collections |-> <<>>]
    /\ created = [c \in Collections |-> 0]
    /\ queue = <<>>
    /\ dlq = <<>>

StoreTypeOK ==
    /\ routes \in [Routes -> [driver : Drivers \union {NoOne},
                              status : {"", "planned", "assigned", "updated"},
                              version : Nat, legs : {0, DemoLegs}, done : 0 .. DemoLegs]]
    /\ \A r \in Routes : routes[r].done <= routes[r].legs
    /\ hos \in [Drivers -> [status : {"off", "on"}, onBreak : BOOLEAN]]
    /\ \A c \in Collections : \A i \in DOMAIN lists[c] : lists[c][i] \in 1 .. created[c]
    /\ \A i \in DOMAIN queue :
        /\ queue[i].status \in {"pending", "retry", "delivered", "failed"}
        /\ queue[i].attempts <= queue[i].posts
    /\ \A i \in DOMAIN dlq : dlq[i] \in DOMAIN queue

----------------------------------------------------------------------------
(* Routes *)

Known(r) == routes[r].version > 0

\* A demonstration route of two legs, under a fresh id.
PlanRoutes(r) ==
    /\ ~Known(r)
    /\ routes' = [routes EXCEPT ![r] =
                    [ZeroRoute EXCEPT !.status = "planned", !.version = 1, !.legs = DemoLegs]]
    /\ created' = [created EXCEPT !["routes"] = @ + 1]
    /\ lists' = [lists EXCEPT !["routes"] = Append(@, created["routes"] + 1)]
    /\ UNCHANGED <<hos, queue, dlq>>

\* An unknown id gives a route without legs that no list shows.
AssignRoute(r, d) ==
    /\ routes' = [routes EXCEPT ![r].driver = d, ![r].status = "assigned",
                                ![r].version = IF @ = 0 THEN 1 ELSE @]
    /\ UNCHANGED <<hos, lists, created, queue, dlq>>

\* The handler passes the status "updated" whatever the client sent.
PatchRoute(r) ==
    /\ routes' = [routes EXCEPT ![r].status = "updated", ![r].version = @ + 1]
    /\ UNCHANGED <<hos, lists, created, queue, dlq>>

\* Legs are visited in order: the first one not visited is the number done + 1.
\* No route of this store has an auto-advance policy.
Advanceable(r) == Known(r) /\ routes[r].done < routes[r].legs

\* Mutant: a visited leg takes the next one with it.
AdvanceRouteSkips(r) ==
    /\ Advanceable(r)
    /\ routes' = [routes EXCEPT ![r].done = routes[r].legs, ![r].version = @ + 1]
    /\ UNCHANGED <<hos, lists, created, queue, dlq>>

AdvanceRoute(r) ==
    /\ Advanceable(r)
    /\ routes' = [routes EXCEPT ![r].done = @ + 1, ![r].version = @ + 1]
    /\ UNCHANGED <<hos, lists, created, queue, dlq>>

\* No operation of this store gives a route the status "completed".
ListActiveRoutesForDriver(d) == {r \in Routes : Known(r) /\ routes[r].driver = d}

UpdateHOS(d, action) ==
    /\ hos' = CASE action = "shift_start" -> [hos EXCEPT ![d].status = "on"]
                [] action = "shift_end"   -> [hos EXCEPT ![d].status = "off"]
                [] action = "break_start" -> [hos EXCEPT ![d].onBreak = TRUE]
                [] action = "break_end"   -> [hos EXCEPT ![d].onBreak = FALSE]
    /\ UNCHANGED <<routes, lists, created, queue, dlq>>

----------------------------------------------------------------------------
(* Lists *)

\* CreateOrders, CreateGeofence and CreateSubscription.
Create(c) ==
    /\ created' = [created EXCEPT ![c] = @ + 1]
    /\ lists' = [lists EXCEPT ![c] = Append(@, created[c] + 1)]
    /\ UNCHANGED <<routes, hos, queue, dlq>>

\* DeleteGeofence and DeleteSubscription.
Delete(c, x) ==
    /\ lists' = [lists EXCEPT ![c] = Subsequence(@, {i \in DOMAIN @ : @[i] # x})]
    /\ UNCHANGED <<routes, hos, created, queue, dlq>>

NoCursor == 0

\* The position after the cursor, the first one when the cursor is not found.
PageStart(ids, cursor) ==
    IF \E i \in DOMAIN ids : ids[i] = cursor
    THEN (CHOOSE i \in DOMAIN ids : ids[i] = cursor) + 1
    ELSE 1

PageEnd(ids, start) ==
    IF start + Limit - 1 < Len(ids) THEN start + Limit - 1 ELSE Len(ids)

\* Mutant: a page that is exactly full ends the list.
ListPageEndsEarly(c, cursor) ==
    LET ids   == lists[c]
        start == PageStart(ids, cursor)
        items == SubSeq(ids, start, PageEnd(ids, start))
    IN  [items |-> items,
         next  |-> IF Len(items) <= Limit THEN NoCursor ELSE items[Len(items)]]

\* ListOrders, ListRoutes and ListGeofences go on after every full page;
\* ListSubscriptions only where more is left.
ListPage(c, cursor) ==
    LET ids   == lists[c]
        start == PageStart(ids, cursor)
        end   == PageEnd(ids, start)
        items == SubSeq(ids, start, end)
        more  == IF c = "subscriptions" THEN end < Len(ids) ELSE Len(items) = Limit
    IN  [items |-> items, next |-> IF more THEN ids[end] ELSE NoCursor]

----------------------------------------------------------------------------
(* The webhook queue.  posts and retries count what happened to a delivery. *)

Enqueued(hook) ==
    [hook |-> hook, status |-> "pending", attempts |-> 0, posts |-> 0, retries |-> 0]

EnqueueWebhook(hook) ==
    /\ queue' = Append(queue, Enqueued(hook))
    /\ UNCHANGED <<routes, hos, lists, created, dlq>>

Queued(i) == queue[i].status \in {"pending", "retry"}

\* Mutant: only deliveries never tried are due.
DueOnlyFresh(i, elapsed) == queue[i].status = "pending"

\* A pending delivery is due at once, one to be retried when its back-off is over.
Due(i, elapsed) == queue[i].status = "pending" \/ (queue[i].status = "retry" /\ i \in elapsed)

\* The deliveries due, in the order of the queue, up to the batch size, as the
\* worker sees them: number and attempts so far.
FetchDue(elapsed) ==
    LET due == Subsequence([i \in DOMAIN queue |-> i],
                           {i \in DOMAIN queue : Due(i, elapsed)})
        n   == IF Len(due) < Batch THEN Len(due) ELSE Batch
    IN  [k \in 1 .. n |-> [id |-> due[k], attempts |-> queue[due[k]].attempts]]

\* The attempt is counted whether it succeeded or not.
MarkWebhookDelivery(i, success) ==
    /\ queue' = [queue EXCEPT ![i].attempts = @ + 1,
                              ![i].status = IF success THEN "delivered" ELSE "retry"]
    /\ UNCHANGED <<routes, hos, lists, created, dlq>>

\* Mutant: the delivery is failed and not kept.
FailWebhookDeliveryDrops(i) ==
    /\ queue' = [queue EXCEPT ![i].status = "failed"]
    /\ UNCHANGED <<routes, hos, lists, created, dlq>>

FailWebhookDelivery(i) ==
    /\ queue' = [queue EXCEPT ![i].status = "failed"]
    /\ dlq' = Append(dlq, i)
    /\ UNCHANGED <<routes, hos, lists, created>>

\* Attempts are not reset: a delivery that had failed gets one more.
RetryWebhookDelivery(i) ==
    /\ queue' = [queue EXCEPT ![i].status = "pending", ![i].retries = @ + 1]
    /\ UNCHANGED <<routes, hos, lists, created, dlq>>

=============================================================================

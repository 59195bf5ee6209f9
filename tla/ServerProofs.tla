---------------------------- MODULE ServerProofs ----------------------------
(***************************************************************************)
(* The in-memory store, the handlers over it, the webhook worker and the   *)
(* WebSocket sessions, for any sets of routes, drivers, requests and       *)
(* workloads: routes, lists and requests in flight and the promise of      *)
(* RouteProgress, then how often a receiver is sent a delivery, what a     *)
(* client that follows the cursors has seen, what becomes of the channels  *)
(* of subscriptions, and whose routes a driver gets to see.                *)
(***************************************************************************)
EXTENDS Server, ListProofs, SequenceTheorems

----------------------------------------------------------------------------
(* Routes *)

RouteType ==
    [driver : Drivers \union {NoOne}, status : {"", "planned", "assigned", "updated"},
     version : Nat, legs : {0, DemoLegs}, done : 0 .. DemoLegs]

LEMMA RouteFields ==
    ASSUME NEW x \in RouteType
    PROVE  /\ x.driver \in Drivers \union {NoOne}
           /\ x.status \in {"", "planned", "assigned", "updated"}
           /\ x.version \in Nat /\ x.legs \in {0, DemoLegs} /\ x.done \in 0 .. DemoLegs
  BY DEF RouteType

LEMMA PlannedRoute ==
    ASSUME NEW x \in RouteType, NEW y,
           y = [x EXCEPT !.status = "planned", !.version = 1, !.legs = DemoLegs]
    PROVE  /\ y \in RouteType /\ y.version = 1 /\ y.legs = DemoLegs
           /\ y.done = x.done /\ y.driver = x.driver
<1>1. 1 \in Nat
  OBVIOUS
<1> QED BY <1>1 DEF RouteType

\* A route that is not in the map has no legs, and the driver of a route was assigned
\* to it.
RouteInv ==
    /\ routes \in [Routes -> RouteType]
    /\ \A r \in Routes :
        /\ routes[r].done <= routes[r].legs
        /\ routes[r].version = 0 => routes[r].legs = 0
        /\ routes[r].driver # NoOne => <<r, routes[r].driver>> \in assigned

\* Which steps change the routes, and how.
RouteChange ==
    \/ UNCHANGED <<routes, assigned>>
    \/ /\ \E r \in Routes : PlanRoutes(r) \/ PatchRoute(r) \/ AdvanceRoute(r)
       /\ UNCHANGED assigned
    \/ \E r \in Routes, d \in Drivers :
        AssignRoute(r, d) /\ assigned' = assigned \union {<<r, d>>}

LEMMA HandlerRouteChange ==
    ASSUME NEW q \in Requests, req[q].events \in Seq(Routes), HandlerStep(q),
           req[q].pc = "try" => req[q].events # <<>>
    PROVE  RouteChange
<1> USE DEF RouteChange, store, book
<1>1. CASE TryEvent(q)
  <2>1. Head(req[q].events) \in Routes
    BY <1>1 DEF TryEvent
  <2> QED BY <1>1, <2>1 DEF TryEvent
<1>2. CASE ListDriverRoutes(q)
  BY <1>2 DEF ListDriverRoutes
<1>3. CASE PublishEvent(q)
  BY <1>3 DEF PublishEvent
<1>4. CASE EmitLookup(q)
  BY <1>4 DEF EmitLookup
<1>5. CASE EmitEnqueue(q)
  BY <1>5 DEF EmitEnqueue, EnqueueWebhook
<1>6. CASE Answer(q)
  BY <1>6 DEF Answer
<1> QED BY <1>1, <1>2, <1>3, <1>4, <1>5, <1>6 DEF HandlerStep

LEMMA NextRouteChange ==
    ASSUME [Next]_vars,
           \A q \in Requests :
                /\ req[q].events \in Seq(Routes)
                /\ req[q].pc = "try" => req[q].events # <<>>
    PROVE  RouteChange
<1> USE DEF RouteChange, store, book
<1>1. ASSUME NEW r \in Routes, OptimizeHandler(r) \/ PatchRouteHandler(r) PROVE RouteChange
  BY <1>1 DEF OptimizeHandler, PatchRouteHandler
<1>2. ASSUME NEW r \in Routes, NEW d \in Drivers, AssignHandler(r, d) PROVE RouteChange
  BY <1>2 DEF AssignHandler
<1>3. ASSUME NEW c, CreateHandler(c) PROVE RouteChange
  BY <1>3 DEF CreateHandler, Create
<1>4. ASSUME NEW c, NEW x, DeleteHandler(c, x) PROVE RouteChange
  BY <1>4 DEF DeleteHandler, Delete
<1>5. ASSUME NEW i, WebhookDeliveryRetryHandler(i) PROVE RouteChange
  BY <1>5 DEF WebhookDeliveryRetryHandler, RetryWebhookDelivery
<1>6. ASSUME NEW q \in Requests, NEW r \in Routes, AdvanceHandler(q, r) PROVE RouteChange
  BY <1>6 DEF AdvanceHandler
<1>7. ASSUME NEW q \in Requests, NEW events, DriverEventsHandler(q, events) PROVE RouteChange
  BY <1>7 DEF DriverEventsHandler
<1>8. ASSUME NEW q \in Requests, NEW d, NEW action, DriversHandler(q, d, action)
      PROVE  RouteChange
  BY <1>8 DEF DriversHandler, UpdateHOS
<1>9. ASSUME NEW elapsed, FetchDeliveries(elapsed) PROVE RouteChange
  BY <1>9 DEF FetchDeliveries
<1>10. CASE PostDelivery
  BY <1>10 DEF PostDelivery
<1>11. CASE SettleDelivery
  BY <1>11 DEF SettleDelivery, FailWebhookDelivery, MarkWebhookDelivery
<1>12. ASSUME NEW c, StartWalk(c) PROVE RouteChange
  BY <1>12 DEF StartWalk
<1>13. CASE NextPage
  BY <1>13 DEF NextPage
<1>14. CASE SessionStep
  BY <1>14 DEF SessionStep
<1>15. CASE ProcessDies \/ PostPanics
  BY <1>15 DEF ProcessDies, PostPanics
<1>16. CASE UNCHANGED vars
  BY <1>16 DEF vars
<1> QED
  BY <1>1, <1>2, <1>3, <1>4, <1>5, <1>6, <1>7, <1>8, <1>9, <1>10, <1>11, <1>12, <1>13,
     <1>14, <1>15, <1>16, HandlerRouteChange DEF Next

\* A change of the routes keeps the invariant and takes no visited leg back.
LEMMA RouteStep ==
    ASSUME RouteInv, RouteChange
    PROVE  RouteInv' /\ \A r \in Routes : routes[r].done <= routes'[r].done
<1> DEFINE Good(t) ==
        /\ routes'[t] \in RouteType
        /\ routes'[t].done <= routes'[t].legs
        /\ routes'[t].version = 0 => routes'[t].legs = 0
        /\ routes'[t].driver # NoOne => <<t, routes'[t].driver>> \in assigned'
        /\ routes[t].done <= routes'[t].done
<1>0. ASSUME NEW t \in Routes
      PROVE  /\ routes[t] \in RouteType
             /\ routes[t].done \in Nat /\ routes[t].legs \in Nat /\ routes[t].version \in Nat
             /\ routes[t].done <= routes[t].legs /\ routes[t].legs <= DemoLegs
             /\ routes[t].version = 0 => routes[t].legs = 0 /\ routes[t].done = 0
             /\ routes[t].driver # NoOne => <<t, routes[t].driver>> \in assigned
  <2>1. routes[t] \in RouteType
    BY DEF RouteInv
  <2>2. /\ routes[t].done <= routes[t].legs
        /\ routes[t].version = 0 => routes[t].legs = 0
        /\ routes[t].driver # NoOne => <<t, routes[t].driver>> \in assigned
    BY DEF RouteInv
  <2>3. /\ routes[t].version \in Nat /\ routes[t].legs \in {0, 2} /\ routes[t].done \in 0 .. 2
    BY <2>1, RouteFields DEF DemoLegs
  <2>4. /\ routes[t].legs <= DemoLegs
        /\ routes[t].version = 0 => routes[t].legs = 0 /\ routes[t].done = 0
    BY <2>2, <2>3 DEF DemoLegs
  <2> QED BY <2>1, <2>2, <2>3, <2>4
<1>a. \A t \in Routes :
        /\ routes[t].done \in Nat /\ routes[t].legs \in Nat /\ routes[t].version \in Nat
        /\ routes[t].done <= routes[t].legs /\ routes[t].legs <= 2
  BY <1>0 DEF DemoLegs
<1>1. ASSUME NEW t \in Routes, routes'[t] = routes[t], assigned \subseteq assigned'
      PROVE  Good(t)
  BY <1>0, <1>1
<1>2. ASSUME NEW r \in Routes, PlanRoutes(r), UNCHANGED assigned
      PROVE  routes' \in [Routes -> RouteType] /\ \A t \in Routes : Good(t)
  <2>0. ZeroRoute \in RouteType /\ ZeroRoute.driver = NoOne /\ ZeroRoute.done = 0
    BY DEF ZeroRoute, RouteType, DemoLegs
  <2>1. /\ routes' = [routes EXCEPT ![r] = routes'[r]]
        /\ routes'[r] = [ZeroRoute EXCEPT !.status = "planned", !.version = 1,
                                          !.legs = DemoLegs]
    BY <1>2 DEF PlanRoutes, RouteInv
  <2>2. routes[r].done = 0
    <3>1. ~(routes[r].version > 0)
      BY <1>2 DEF PlanRoutes, Known
    <3>2. routes[r].version = 0
      BY <1>a, <3>1
    <3> QED BY <1>0, <3>2
  <2>3. Good(r)
    <3>1. /\ routes'[r] \in RouteType
          /\ routes'[r].version = 1 /\ routes'[r].legs = DemoLegs
          /\ routes'[r].done = 0 /\ routes'[r].driver = NoOne
      BY <2>0, <2>1, PlannedRoute
    <3> QED BY <2>2, <3>1 DEF DemoLegs
  <2>4. ASSUME NEW t \in Routes, t # r PROVE Good(t)
    BY <1>1, <1>2, <2>1, <2>4 DEF RouteInv
  <2> QED BY <2>1, <2>3, <2>4 DEF RouteInv
<1>3. ASSUME NEW r \in Routes, PatchRoute(r), UNCHANGED assigned
      PROVE  routes' \in [Routes -> RouteType] /\ \A t \in Routes : Good(t)
  <2>1. /\ routes' = [routes EXCEPT ![r] = routes'[r]]
        /\ routes'[r] = [routes[r] EXCEPT !.status = "updated", !.version = @ + 1]
    BY <1>3 DEF PatchRoute, RouteInv
  <2>2. routes[r].version + 1 \in Nat \ {0} /\ routes[r].done <= routes[r].done
    BY <1>a
  <2>3. Good(r)
    <3>1. /\ routes'[r] \in RouteType
          /\ routes'[r].version = routes[r].version + 1 /\ routes'[r].legs = routes[r].legs
          /\ routes'[r].done = routes[r].done /\ routes'[r].driver = routes[r].driver
      BY <1>0, <2>1, <2>2 DEF RouteType
    <3> QED BY <1>0, <1>3, <2>2, <3>1
  <2>4. ASSUME NEW t \in Routes, t # r PROVE Good(t)
    BY <1>1, <1>3, <2>1, <2>4 DEF RouteInv
  <2> QED BY <2>1, <2>3, <2>4 DEF RouteInv
<1>4. ASSUME NEW r \in Routes, AdvanceRoute(r), UNCHANGED assigned
      PROVE  routes' \in [Routes -> RouteType] /\ \A t \in Routes : Good(t)
  <2>1. /\ routes' = [routes EXCEPT ![r] = routes'[r]]
        /\ routes'[r] = [routes[r] EXCEPT !.done = @ + 1, !.version = @ + 1]
        /\ routes[r].done < routes[r].legs
    BY <1>4 DEF AdvanceRoute, Advanceable, RouteInv
  <2>2. routes[r].done + 1 \in 0 .. DemoLegs
    BY <1>a, <2>1 DEF DemoLegs
  <2>5. /\ routes[r].version + 1 \in Nat \ {0}
        /\ routes[r].done + 1 <= routes[r].legs /\ routes[r].done <= routes[r].done + 1
    BY <1>a, <2>1
  <2>3. Good(r)
    <3>1. /\ routes'[r] \in RouteType
          /\ routes'[r].version = routes[r].version + 1 /\ routes'[r].legs = routes[r].legs
          /\ routes'[r].done = routes[r].done + 1 /\ routes'[r].driver = routes[r].driver
      BY <1>0, <2>1, <2>2, <2>5 DEF RouteType
    <3> QED BY <1>0, <1>4, <2>5, <3>1
  <2>4. ASSUME NEW t \in Routes, t # r PROVE Good(t)
    BY <1>1, <1>4, <2>1, <2>4 DEF RouteInv
  <2> QED BY <2>1, <2>3, <2>4 DEF RouteInv
<1>5. ASSUME NEW r \in Routes, NEW d \in Drivers, AssignRoute(r, d),
             assigned' = assigned \union {<<r, d>>}
      PROVE  routes' \in [Routes -> RouteType] /\ \A t \in Routes : Good(t)
  <2>1. /\ routes' = [routes EXCEPT ![r] = routes'[r]]
        /\ routes'[r] = [routes[r] EXCEPT !.driver = d, !.status = "assigned",
                                          !.version = IF @ = 0 THEN 1 ELSE @]
    BY <1>5 DEF AssignRoute, RouteInv
  <2> DEFINE v == IF routes[r].version = 0 THEN 1 ELSE routes[r].version
  <2>2. v \in Nat \ {0} /\ routes[r].done <= routes[r].done
    BY <1>a
  <2>3. Good(r)
    <3>1. routes'[r] = [routes[r] EXCEPT !.driver = d, !.status = "assigned", !.version = v]
      BY <2>1
    <3> HIDE DEF v
    <3>2. /\ routes'[r] \in RouteType
          /\ routes'[r].version = v /\ routes'[r].legs = routes[r].legs
          /\ routes'[r].done = routes[r].done /\ routes'[r].driver = d
      BY <1>0, <2>2, <3>1 DEF RouteType
    <3> QED BY <1>0, <1>5, <2>2, <3>2
  <2>4. ASSUME NEW t \in Routes, t # r PROVE Good(t)
    BY <1>1, <1>5, <2>1, <2>4 DEF RouteInv
  <2> QED BY <2>1, <2>3, <2>4 DEF RouteInv
<1>6. ASSUME UNCHANGED <<routes, assigned>>
      PROVE  routes' \in [Routes -> RouteType] /\ \A t \in Routes : Good(t)
  <2>1. \A t \in Routes : Good(t)
    BY <1>1, <1>6
  <2> QED BY <1>6, <2>1 DEF RouteInv
<1> HIDE DEF Good
<1>7. routes' \in [Routes -> RouteType] /\ \A t \in Routes : Good(t)
  <2>1. ASSUME NEW r \in Routes, PlanRoutes(r) \/ PatchRoute(r) \/ AdvanceRoute(r),
               UNCHANGED assigned
        PROVE  routes' \in [Routes -> RouteType] /\ \A t \in Routes : Good(t)
    BY <1>2, <1>3, <1>4, <2>1
  <2>2. CASE \E r \in Routes, d \in Drivers :
                AssignRoute(r, d) /\ assigned' = assigned \union {<<r, d>>}
    BY <1>5, <2>2
  <2>3. CASE /\ \E r \in Routes : PlanRoutes(r) \/ PatchRoute(r) \/ AdvanceRoute(r)
             /\ UNCHANGED assigned
    BY <2>1, <2>3
  <2> QED BY <1>6, <2>2, <2>3 DEF RouteChange
<1> QED BY <1>7 DEF Good, RouteInv

----------------------------------------------------------------------------
(* Lists *)

\* The lists hold numbers of items created, in the order of their creation.
ListInv ==
    /\ lists \in [Collections -> Seq(Nat)] /\ created \in [Collections -> Nat]
    /\ \A c \in Collections :
        /\ \A i \in DOMAIN lists[c] : lists[c][i] \in 1 .. created[c]
        /\ \A i, j \in DOMAIN lists[c] : i < j => lists[c][i] < lists[c][j]

\* Which steps change the lists, and how.
ListChange ==
    \/ UNCHANGED <<lists, created>>
    \/ \E c \in Collections :
        \/ /\ created' = [created EXCEPT ![c] = @ + 1]
           /\ lists' = [lists EXCEPT ![c] = Append(@, created[c] + 1)]
        \/ \E S \in SUBSET DOMAIN lists[c] :
            /\ lists' = [lists EXCEPT ![c] = Subsequence(@, S)]
            /\ UNCHANGED created

LEMMA NextListChange == ASSUME [Next]_vars PROVE ListChange
<1> USE DEF ListChange, store
<1>1. ASSUME NEW r \in Routes, OptimizeHandler(r) PROVE ListChange
  BY <1>1 DEF OptimizeHandler, PlanRoutes, Collections
<1>2. ASSUME NEW r \in Routes, PatchRouteHandler(r) PROVE ListChange
  BY <1>2 DEF PatchRouteHandler, PatchRoute
<1>3. ASSUME NEW r \in Routes, NEW d \in Drivers, AssignHandler(r, d) PROVE ListChange
  BY <1>3 DEF AssignHandler, AssignRoute
<1>4. ASSUME NEW c \in {"orders", "geofences", "subscriptions"}, CreateHandler(c)
      PROVE  ListChange
  BY <1>4 DEF CreateHandler, Create, Collections
<1>5. ASSUME NEW c \in {"geofences", "subscriptions"}, NEW x, DeleteHandler(c, x)
      PROVE  ListChange
  <2>1. c \in Collections
    BY <1>5 DEF Collections
  <2>2. {i \in DOMAIN lists[c] : lists[c][i] # x} \in SUBSET DOMAIN lists[c]
    OBVIOUS
  <2>3. /\ lists' = [lists EXCEPT ![c] =
                        Subsequence(lists[c], {i \in DOMAIN lists[c] : lists[c][i] # x})]
        /\ UNCHANGED created
    BY <1>5 DEF DeleteHandler, Delete
  <2> QED BY <2>1, <2>2, <2>3
<1>6. ASSUME NEW i, WebhookDeliveryRetryHandler(i) PROVE ListChange
  BY <1>6 DEF WebhookDeliveryRetryHandler, RetryWebhookDelivery
<1>7. ASSUME NEW q \in Requests, NEW r \in Routes, AdvanceHandler(q, r) PROVE ListChange
  BY <1>7 DEF AdvanceHandler, AdvanceRoute
<1>8. ASSUME NEW q \in Requests, NEW events, DriverEventsHandler(q, events) PROVE ListChange
  BY <1>8 DEF DriverEventsHandler
<1>9. ASSUME NEW q \in Requests, NEW d, NEW action, DriversHandler(q, d, action)
      PROVE  ListChange
  BY <1>9 DEF DriversHandler, UpdateHOS
<1>10. ASSUME NEW q \in Requests, HandlerStep(q) PROVE ListChange
  BY <1>10 DEF HandlerStep, TryEvent, AdvanceRoute, ListDriverRoutes, PublishEvent,
               EmitLookup, EmitEnqueue, EnqueueWebhook, Answer
<1>11. ASSUME NEW elapsed, FetchDeliveries(elapsed) PROVE ListChange
  BY <1>11 DEF FetchDeliveries
<1>12. CASE PostDelivery \/ SettleDelivery
  BY <1>12 DEF PostDelivery, SettleDelivery, FailWebhookDelivery, MarkWebhookDelivery
<1>13. ASSUME NEW c, StartWalk(c) PROVE ListChange
  BY <1>13 DEF StartWalk
<1>14. CASE NextPage \/ SessionStep \/ ProcessDies \/ PostPanics
  BY <1>14 DEF NextPage, SessionStep, ProcessDies, PostPanics
<1>15. CASE UNCHANGED vars
  BY <1>15 DEF vars
<1> QED
  BY <1>1, <1>2, <1>3, <1>4, <1>5, <1>6, <1>7, <1>8, <1>9, <1>10, <1>11, <1>12, <1>13,
     <1>14, <1>15 DEF Next

LEMMA ListStep == ASSUME ListInv, ListChange PROVE ListInv'
<1>1. CASE UNCHANGED <<lists, created>>
  BY <1>1 DEF ListInv
<1>2. ASSUME NEW c \in Collections, created' = [created EXCEPT ![c] = @ + 1],
             lists' = [lists EXCEPT ![c] = Append(@, created[c] + 1)]
      PROVE  ListInv'
  <2> DEFINE l == lists[c]
             n == created[c]
  <2>1. /\ l \in Seq(Nat) /\ Len(l) \in Nat /\ DOMAIN l = 1 .. Len(l) /\ n \in Nat
        /\ \A i \in 1 .. Len(l) : l[i] \in 1 .. n
        /\ \A i, j \in 1 .. Len(l) : i < j => l[i] < l[j]
    BY DEF ListInv
  <2>2. lists'[c] = Append(l, n + 1) /\ created'[c] = n + 1
    BY <1>2 DEF ListInv
  <2>3. \A d \in Collections \ {c} : lists'[d] = lists[d] /\ created'[d] = created[d]
    BY <1>2 DEF ListInv
  <2> HIDE DEF l, n
  <2>4. /\ Append(l, n + 1) \in Seq(Nat) /\ DOMAIN Append(l, n + 1) = 1 .. Len(l) + 1
        /\ \A i \in 1 .. Len(l) : Append(l, n + 1)[i] = l[i]
        /\ Append(l, n + 1)[Len(l) + 1] = n + 1
    BY <2>1
  <2>5. lists' \in [Collections -> Seq(Nat)] /\ created' \in [Collections -> Nat]
    BY <1>2, <2>1, <2>2, <2>4 DEF ListInv, l, n
  <2>6. ASSUME NEW i \in 1 .. Len(l) + 1
        PROVE  Append(l, n + 1)[i] \in 1 .. n + 1
    <3>1. CASE i \in 1 .. Len(l)
      BY <2>1, <2>4, <3>1
    <3>2. CASE i = Len(l) + 1
      BY <2>1, <2>4, <3>2
    <3> QED BY <2>1, <3>1, <3>2
  <2>7. ASSUME NEW i \in 1 .. Len(l) + 1, NEW j \in 1 .. Len(l) + 1, i < j
        PROVE  Append(l, n + 1)[i] < Append(l, n + 1)[j]
    <3>1. i \in 1 .. Len(l) /\ Append(l, n + 1)[i] = l[i] /\ l[i] \in 1 .. n
      BY <2>1, <2>4, <2>7
    <3>2. CASE j \in 1 .. Len(l)
      BY <2>1, <2>4, <2>7, <3>1, <3>2
    <3>3. CASE j = Len(l) + 1
      BY <2>1, <2>4, <3>1, <3>3
    <3> QED BY <2>1, <3>2, <3>3
  <2>8. ASSUME NEW d \in Collections
        PROVE  /\ \A i \in DOMAIN lists'[d] : lists'[d][i] \in 1 .. created'[d]
               /\ \A i, j \in DOMAIN lists'[d] : i < j => lists'[d][i] < lists'[d][j]
    <3>1. CASE d = c
      BY <2>2, <2>4, <2>6, <2>7, <3>1
    <3>2. CASE d # c
      BY <2>3, <3>2 DEF ListInv
    <3> QED BY <3>1, <3>2
  <2> QED BY <2>5, <2>8 DEF ListInv
<1>3. ASSUME NEW c \in Collections, NEW S \in SUBSET DOMAIN lists[c],
             lists' = [lists EXCEPT ![c] = Subsequence(@, S)], UNCHANGED created
      PROVE  ListInv'
  <2> DEFINE l == lists[c]
             m == Subsequence(l, S)
  <2>1. /\ l \in Seq(Nat) /\ DOMAIN l = 1 .. Len(l) /\ Len(l) \in Nat
        /\ \A i \in DOMAIN l : l[i] \in 1 .. created[c]
        /\ \A i, j \in DOMAIN l : i < j => l[i] < l[j]
    BY DEF ListInv
  <2>2. /\ m \in Seq(Nat) /\ Len(m) = Cardinality(S)
        /\ \A k \in 1 .. Len(m) : Place(S, k) \in S /\ m[k] = l[Place(S, k)]
        /\ \A k, k2 \in 1 .. Len(m) : k < k2 => Place(S, k) < Place(S, k2)
    <3>1. l \in Seq(Nat) /\ S \in SUBSET DOMAIN l
      BY <2>1
    <3> HIDE DEF l
    <3>2. /\ m \in Seq(Nat) /\ Len(m) = Cardinality(S)
          /\ \A k \in 1 .. Cardinality(S) : Place(S, k) \in S /\ m[k] = l[Place(S, k)]
          /\ \A k, k2 \in 1 .. Cardinality(S) : k < k2 => Place(S, k) < Place(S, k2)
      BY <3>1, SubsequenceFacts, Zenon
    <3> HIDE DEF m
    <3> QED BY <3>2, Zenon
  <2>3. lists'[c] = m /\ \A d \in Collections \ {c} : lists'[d] = lists[d]
    BY <1>3 DEF ListInv
  <2>4. lists' \in [Collections -> Seq(Nat)]
    BY <1>3, <2>2 DEF ListInv
  <2>5. S \subseteq DOMAIN l
    OBVIOUS
  <2> HIDE DEF l, m
  <2>6. DOMAIN m = 1 .. Len(m)
    BY <2>2
  <2>7. /\ \A k \in DOMAIN m : m[k] \in 1 .. created[c]
        /\ \A k, k2 \in DOMAIN m : k < k2 => m[k] < m[k2]
    BY <2>1, <2>2, <2>5, <2>6
  <2>8. ASSUME NEW d \in Collections
        PROVE  /\ \A i \in DOMAIN lists'[d] : lists'[d][i] \in 1 .. created'[d]
               /\ \A i, j \in DOMAIN lists'[d] : i < j => lists'[d][i] < lists'[d][j]
    <3>1. CASE d = c
      BY <1>3, <2>3, <2>7, <3>1
    <3>2. CASE d # c
      BY <1>3, <2>3, <3>2 DEF ListInv
    <3> QED BY <3>1, <3>2
  <2> QED BY <1>3, <2>4, <2>8 DEF ListInv
<1> QED BY <1>1, <1>2, <1>3 DEF ListChange

----------------------------------------------------------------------------
(* Requests *)

Pcs == {"idle", "emit", "enqueue", "publish", "try", "list", "answer"}

\* The places of a handler that has something to tell.
Telling == {"emit", "enqueue", "publish"}

ReqType ==
    [pc : Pcs, kind : {"", "advance", "events", "hos"}, route : Routes \union {NoOne},
     driver : Drivers \union {NoOne}, leg : 0 .. DemoLegs, evt : EventTypes \union {""},
     events : Seq(Routes), targets : SUBSET Routes, hooks : Seq(Nat)]

\* A handler that tells of an advance tells of a leg visited by then; R are the routes.
GoodReq(x, R) ==
    /\ x.pc = "try" => x.kind = "events" /\ x.evt = "stop.advanced" /\ x.events # <<>>
    /\ x.pc = "list" => x.kind = "hos" /\ x.evt \in EventTypes
    /\ x.pc \in Telling => x.kind \in {"advance", "events", "hos"} /\ x.evt \in EventTypes
    /\ x.pc \in Telling /\ x.kind # "hos" => x.route \in Routes /\ x.leg \in 1 .. R[x.route].done
    /\ x.pc = "enqueue" => x.hooks # <<>>

RequestInv ==
    /\ req \in [Requests -> ReqType]
    /\ \A q \in Requests : GoodReq(req[q], routes)

LEMMA IdleGood == Idle \in ReqType /\ \A R : GoodReq(Idle, R)
<1>1. <<>> \in Seq(Routes) /\ <<>> \in Seq(Nat)
  OBVIOUS
<1> QED BY <1>1 DEF Idle, ReqType, GoodReq, Pcs, Telling, DemoLegs

\* The fields of a request that a handler changes, and those it leaves.
LEMMA ReqFields ==
    ASSUME NEW x \in ReqType
    PROVE  /\ x.pc \in Pcs /\ x.kind \in {"", "advance", "events", "hos"}
           /\ x.route \in Routes \union {NoOne} /\ x.leg \in 0 .. DemoLegs
           /\ x.evt \in EventTypes \union {""} /\ x.events \in Seq(Routes)
           /\ x.targets \in SUBSET Routes /\ x.hooks \in Seq(Nat)
  BY DEF ReqType

LEMMA WithPc ==
    ASSUME NEW x \in ReqType, NEW pc \in Pcs, NEW y, y = [x EXCEPT !.pc = pc]
    PROVE  /\ y \in ReqType /\ y.pc = pc /\ y.kind = x.kind /\ y.evt = x.evt
           /\ y.route = x.route /\ y.leg = x.leg /\ y.hooks = x.hooks /\ y.events = x.events
  BY DEF ReqType

\* Where Emit goes on is a good place to be if Emit was.
LEMMA AfterEmitGood ==
    ASSUME NEW x \in ReqType, NEW R, x.kind \in {"advance", "events", "hos"},
           x.evt \in EventTypes,
           x.kind # "hos" => x.route \in Routes /\ x.leg \in 1 .. R[x.route].done
    PROVE  AfterEmit(x) \in ReqType /\ GoodReq(AfterEmit(x), R)
<1>1. CASE x.kind = "advance"
  <2>1. AfterEmit(x) = [x EXCEPT !.pc = "publish"]
    BY <1>1 DEF AfterEmit
  <2>2. "publish" \in Pcs
    BY DEF Pcs
  <2>3. /\ AfterEmit(x) \in ReqType /\ AfterEmit(x).pc = "publish"
        /\ AfterEmit(x).kind = x.kind /\ AfterEmit(x).evt = x.evt
        /\ AfterEmit(x).route = x.route /\ AfterEmit(x).leg = x.leg
    BY <2>1, <2>2, WithPc
  <2> QED BY <1>1, <2>3 DEF GoodReq
<1>2. CASE x.kind = "events"
  <2>1. AfterEmit(x) = Idle
    BY <1>2 DEF AfterEmit
  <2> QED BY <2>1, IdleGood
<1>3. CASE x.kind = "hos"
  <2> DEFINE pc == IF x.targets = {} THEN "answer" ELSE "publish"
  <2>1. AfterEmit(x) = [x EXCEPT !.pc = pc]
    BY <1>3 DEF AfterEmit
  <2>2. pc \in Pcs /\ pc \in {"answer", "publish"}
    BY DEF Pcs
  <2> HIDE DEF pc
  <2>3. /\ AfterEmit(x) \in ReqType /\ AfterEmit(x).pc = pc
        /\ AfterEmit(x).kind = x.kind /\ AfterEmit(x).evt = x.evt
    BY <2>1, <2>2, WithPc
  <2> QED BY <1>3, <2>2, <2>3 DEF GoodReq
<1> QED BY <1>1, <1>2, <1>3

\* A request stays good when legs are visited.
LEMMA GoodStays ==
    ASSUME NEW x \in ReqType, NEW R, NEW Q, GoodReq(x, R),
           \A r \in Routes : R[r].done \in Nat /\ Q[r].done \in Nat /\ R[r].done <= Q[r].done
    PROVE  GoodReq(x, Q)
<1>1. ASSUME x.route \in Routes, x.leg \in 1 .. R[x.route].done
      PROVE  x.leg \in 1 .. Q[x.route].done
  <2>1. /\ R[x.route].done \in Nat /\ Q[x.route].done \in Nat
        /\ R[x.route].done <= Q[x.route].done
    BY <1>1
  <2> QED BY <1>1, <2>1
<1>2. x.pc \in Telling /\ x.kind # "hos" => x.route \in Routes /\ x.leg \in 1 .. R[x.route].done
  BY DEF GoodReq
<1>3. x.pc \in Telling /\ x.kind # "hos" => x.route \in Routes /\ x.leg \in 1 .. Q[x.route].done
  BY <1>1, <1>2
<1>4. /\ x.pc = "try" => x.kind = "events" /\ x.evt = "stop.advanced" /\ x.events # <<>>
      /\ x.pc = "list" => x.kind = "hos" /\ x.evt \in EventTypes
      /\ x.pc \in Telling => x.kind \in {"advance", "events", "hos"} /\ x.evt \in EventTypes
      /\ x.pc = "enqueue" => x.hooks # <<>>
  BY Zenon DEF GoodReq
<1> QED BY <1>3, <1>4, Zenon DEF GoodReq

LEMMA DoneNat == ASSUME RouteInv PROVE \A r \in Routes : routes[r].done \in Nat
<1>1. \A r \in Routes : routes[r] \in RouteType
  BY DEF RouteInv
<1>2. \A r \in Routes : routes[r].done \in 0 .. 2
  BY <1>1, RouteFields DEF DemoLegs
<1> QED BY <1>2

\* A step that changes at most one request, to a good one, keeps the invariant.
LEMMA PutRequest ==
    ASSUME RequestInv, RouteInv, RouteInv',
           \A r \in Routes : routes[r].done <= routes'[r].done,
           \/ UNCHANGED req
           \/ \E q \in Requests, x \in ReqType :
                req' = [req EXCEPT ![q] = x] /\ GoodReq(x, routes')
    PROVE  RequestInv'
<1>1. \A r \in Routes : routes[r].done \in Nat
  BY DoneNat
<1>2. \A r \in Routes : routes'[r].done \in Nat
  <2>1. \A r \in Routes : routes'[r] \in RouteType
    BY DEF RouteInv
  <2>2. \A r \in Routes : routes'[r].done \in 0 .. 2
    BY <2>1, RouteFields DEF DemoLegs
  <2> QED BY <2>2
<1>3. ASSUME NEW q \in Requests PROVE req[q] \in ReqType /\ GoodReq(req[q], routes')
  <2>1. req[q] \in ReqType /\ GoodReq(req[q], routes)
    BY DEF RequestInv
  <2> QED BY <1>1, <1>2, <2>1, GoodStays
<1>4. CASE UNCHANGED req
  BY <1>3, <1>4 DEF RequestInv
<1>5. ASSUME NEW q \in Requests, NEW x \in ReqType, req' = [req EXCEPT ![q] = x],
             GoodReq(x, routes')
      PROVE  RequestInv'
  <2>1. req' \in [Requests -> ReqType]
    BY <1>5 DEF RequestInv
  <2>2. ASSUME NEW p \in Requests PROVE GoodReq(req'[p], routes')
    BY <1>3, <1>5 DEF RequestInv
  <2> QED BY <2>1, <2>2 DEF RequestInv
<1> QED BY <1>4, <1>5

\* The steps that leave the handlers alone.
LEMMA RequestsElsewhere ==
    ASSUME \/ \E r \in Routes :
                \/ OptimizeHandler(r) \/ PatchRouteHandler(r)
                \/ \E d \in Drivers : AssignHandler(r, d)
           \/ \E c \in {"orders", "geofences", "subscriptions"} : CreateHandler(c)
           \/ \E c \in {"geofences", "subscriptions"} :
                \E i \in DOMAIN lists[c] : DeleteHandler(c, lists[c][i])
           \/ \E i \in DOMAIN queue : WebhookDeliveryRetryHandler(i)
           \/ \E elapsed \in SUBSET DOMAIN queue : FetchDeliveries(elapsed)
           \/ PostDelivery \/ SettleDelivery
           \/ \E c \in Collections : StartWalk(c)
           \/ NextPage \/ SessionStep \/ ProcessDies \/ PostPanics
           \/ UNCHANGED vars
    PROVE  UNCHANGED <<req, announced>>
  BY DEF OptimizeHandler, PatchRouteHandler, AssignHandler, CreateHandler, DeleteHandler,
         WebhookDeliveryRetryHandler, FetchDeliveries, PostDelivery, SettleDelivery,
         StartWalk, NextPage, SessionStep, ProcessDies, PostPanics, vars, book

\* What a step does to the handlers: it changes none, or one to a good request.
OneGood(q) == \E x \in ReqType : req' = [req EXCEPT ![q] = x] /\ GoodReq(x, routes')

LEMMA AdvanceHandlerGood ==
    ASSUME RouteInv, NEW q \in Requests, NEW r \in Routes, AdvanceHandler(q, r)
    PROVE  UNCHANGED req \/ OneGood(q)
<1>1. CASE UNCHANGED req
  BY <1>1
<1>2. CASE AdvanceRoute(r) /\ Handles(q, [Idle EXCEPT !.pc = "emit", !.kind = "advance",
                            !.route = r, !.leg = routes[r].done + 1, !.evt = "stop.advanced"])
  <2> DEFINE leg == routes[r].done + 1
             x == [Idle EXCEPT !.pc = "emit", !.kind = "advance", !.route = r, !.leg = leg,
                               !.evt = "stop.advanced"]
  <2>1. /\ routes[r] \in RouteType /\ routes[r].done < routes[r].legs
        /\ routes'[r] = [routes[r] EXCEPT !.done = @ + 1, !.version = @ + 1]
    BY <1>2 DEF AdvanceRoute, Advanceable, RouteInv
  <2>2. routes[r].legs \in {0, 2} /\ routes[r].done \in 0 .. 2
    BY <2>1, RouteFields DEF DemoLegs
  <2>3. leg \in 0 .. DemoLegs /\ leg \in 1 .. leg
    BY <2>1, <2>2 DEF DemoLegs
  <2>4. routes'[r].done = leg
    BY <2>1 DEF RouteType
  <2> HIDE DEF leg
  <2>5. "emit" \in Pcs /\ "advance" \in {"", "advance", "events", "hos"}
        /\ "stop.advanced" \in EventTypes
    BY DEF Pcs, EventTypes
  <2>6. Idle \in ReqType
    BY IdleGood
  <2>7. /\ x \in ReqType /\ x.pc = "emit" /\ x.kind = "advance" /\ x.route = r
        /\ x.leg = leg /\ x.evt = "stop.advanced"
    BY <2>3, <2>5, <2>6 DEF ReqType
  <2> HIDE DEF x
  <2>8. GoodReq(x, routes')
    BY <2>3, <2>4, <2>5, <2>7 DEF GoodReq
  <2>9. req' = [req EXCEPT ![q] = x]
    BY <1>2 DEF Handles, x, leg
  <2> QED BY <2>7, <2>8, <2>9 DEF OneGood
<1> QED BY <1>1, <1>2 DEF AdvanceHandler

\* The first of a sequence and the rest of it.
LEMMA FirstAndRest ==
    ASSUME NEW X, NEW s \in Seq(X), s # <<>>
    PROVE  Head(s) \in X /\ Tail(s) \in Seq(X) /\ (Len(s) # 1 => Tail(s) # <<>>)
<1>1. Len(s) \in Nat /\ Len(s) # 0
  OBVIOUS
<1>2. Head(s) \in X /\ Tail(s) \in Seq(X) /\ Len(Tail(s)) = Len(s) - 1
  OBVIOUS
<1>3. Len(<<>>) = 0
  OBVIOUS
<1>4. Len(s) # 1 => Len(Tail(s)) # 0
  BY <1>1, <1>2
<1> QED BY <1>2, <1>3, <1>4

LEMMA DriverEventsGood ==
    ASSUME NEW q \in Requests, NEW events \in EventLists, DriverEventsHandler(q, events)
    PROVE  OneGood(q)
<1> DEFINE x == [Idle EXCEPT !.pc = "try", !.kind = "events", !.events = events,
                             !.evt = "stop.advanced"]
<1>1. events \in Seq(Routes) /\ events # <<>>
  <2>1. ASSUME NEW r \in Routes PROVE <<r>> \in Seq(Routes) /\ <<r>> # <<>>
    OBVIOUS
  <2>2. ASSUME NEW r \in Routes, NEW t \in Routes
        PROVE  <<r, t>> \in Seq(Routes) /\ <<r, t>> # <<>>
    OBVIOUS
  <2>3. CASE events \in {<<r>> : r \in Routes}
    <3>1. PICK r \in Routes : events = <<r>>
      BY <2>3
    <3> QED BY <2>1, <3>1
  <2>4. CASE events \in {<<r, t>> : r, t \in Routes}
    <3>1. PICK r \in Routes, t \in Routes : events = <<r, t>>
      BY <2>4
    <3> QED BY <2>2, <3>1
  <2> QED BY <2>3, <2>4 DEF EventLists
<1>2. Idle \in ReqType
  BY IdleGood
<1>3. /\ x \in ReqType /\ x.pc = "try" /\ x.kind = "events" /\ x.events = events
      /\ x.evt = "stop.advanced"
  <2>1. /\ "try" \in Pcs /\ "events" \in {"", "advance", "events", "hos"}
        /\ "stop.advanced" \in EventTypes \union {""}
    BY DEF Pcs, EventTypes
  <2> QED BY <1>1, <1>2, <2>1 DEF ReqType
<1>4. req' = [req EXCEPT ![q] = x]
  BY DEF DriverEventsHandler, Handles
<1> HIDE DEF x
<1>5. GoodReq(x, routes')
  BY <1>1, <1>3 DEF GoodReq, Telling
<1> QED BY <1>3, <1>4, <1>5 DEF OneGood

LEMMA DriversHandlerGood ==
    ASSUME NEW q \in Requests, NEW d \in Drivers, NEW action \in HosActions,
           DriversHandler(q, d, action)
    PROVE  OneGood(q)
<1> DEFINE pc == IF action \in {"break_start", "break_end"} THEN "list" ELSE "answer"
           e == BreakEvent(action)
           x == [Idle EXCEPT !.kind = "hos", !.driver = d, !.evt = e, !.pc = pc]
<1>1. pc \in Pcs /\ pc \in {"list", "answer"} /\ e \in EventTypes
  BY DEF Pcs, BreakEvent, EventTypes
<1>2. Idle \in ReqType
  BY IdleGood
<1>3. req' = [req EXCEPT ![q] = x]
  BY DEF DriversHandler, Handles
<1> HIDE DEF pc, e
<1>4. x \in ReqType /\ x.pc = pc /\ x.kind = "hos" /\ x.evt = e
  BY <1>1, <1>2 DEF ReqType
<1> HIDE DEF x
<1>5. GoodReq(x, routes')
  BY <1>1, <1>4 DEF GoodReq, Telling
<1> QED BY <1>3, <1>4, <1>5 DEF OneGood

\* The steps of a handler that is at work.
LEMMA HandlerStepGood ==
    ASSUME RouteInv, ListInv, RequestInv, NEW q \in Requests, HandlerStep(q),
           RouteInv', \A r \in Routes : routes[r].done <= routes'[r].done
    PROVE  OneGood(q)
<1>0. req[q] \in ReqType /\ GoodReq(req[q], routes)
  BY DEF RequestInv
<1>a. GoodReq(req[q], routes')
  <2>2. \A r \in Routes : routes[r].done \in Nat /\ routes'[r].done \in Nat
    <3>1. \A r \in Routes : routes[r] \in RouteType /\ routes'[r] \in RouteType
      BY DEF RouteInv
    <3>2. \A r \in Routes : routes[r].done \in 0 .. 2 /\ routes'[r].done \in 0 .. 2
      BY <3>1, RouteFields DEF DemoLegs
    <3> QED BY <3>2
  <2> QED BY <1>0, <2>2, GoodStays
<1>1. CASE TryEvent(q)
  <2> DEFINE r == Head(req[q].events)
  <2>0. /\ req[q].pc = "try" /\ req[q].kind = "events" /\ req[q].evt = "stop.advanced"
        /\ req[q].events # <<>> /\ req[q].events \in Seq(Routes)
    BY <1>0, <1>1, ReqFields DEF TryEvent, GoodReq
  <2>1. r \in Routes /\ Tail(req[q].events) \in Seq(Routes)
        /\ (Len(req[q].events) # 1 => Tail(req[q].events) # <<>>)
    BY <2>0, FirstAndRest
  <2>2. CASE AdvanceRoute(r) /\ Handles(q, [req[q] EXCEPT !.pc = "emit", !.route = r,
                                                          !.leg = routes[r].done + 1])
    <3> DEFINE leg == routes[r].done + 1
               x == [req[q] EXCEPT !.pc = "emit", !.route = r, !.leg = leg]
    <3>1. /\ routes[r] \in RouteType /\ routes[r].done < routes[r].legs
          /\ routes'[r] = [routes[r] EXCEPT !.done = @ + 1, !.version = @ + 1]
      BY <2>1, <2>2 DEF AdvanceRoute, Advanceable, RouteInv
    <3>2. routes[r].legs \in {0, 2} /\ routes[r].done \in 0 .. 2
      BY <3>1, RouteFields DEF DemoLegs
    <3>3. leg \in 0 .. DemoLegs /\ leg \in 1 .. leg
      BY <3>1, <3>2 DEF DemoLegs
    <3>4. routes'[r].done = leg
      BY <3>1 DEF RouteType
    <3>5. req' = [req EXCEPT ![q] = x]
      BY <2>2 DEF Handles
    <3> HIDE DEF leg, r
    <3>6. /\ x \in ReqType /\ x.pc = "emit" /\ x.kind = "events"
          /\ x.evt = "stop.advanced" /\ x.route = r /\ x.leg = leg
      <4>1. /\ x \in ReqType /\ x.pc = "emit" /\ x.kind = req[q].kind
            /\ x.evt = req[q].evt /\ x.route = r /\ x.leg = leg
        BY <1>0, <2>1, <3>3 DEF ReqType, Pcs
      <4> QED BY <2>0, <4>1
    <3> HIDE DEF x
    <3>7. "stop.advanced" \in EventTypes
      BY DEF EventTypes
    <3>8. GoodReq(x, routes')
      BY <2>1, <3>3, <3>4, <3>6, <3>7 DEF GoodReq
    <3> QED BY <3>5, <3>6, <3>8 DEF OneGood
  <2>3. CASE Handles(q, IF Len(req[q].events) = 1 THEN Idle
                        ELSE [req[q] EXCEPT !.events = Tail(@)])
    <3>1. CASE Len(req[q].events) = 1
      BY <2>3, <3>1, IdleGood DEF Handles, OneGood
    <3>2. CASE Len(req[q].events) # 1
      <4> DEFINE tail == Tail(req[q].events)
                 x == [req[q] EXCEPT !.events = tail]
      <4>2. req' = [req EXCEPT ![q] = x]
        BY <2>3, <3>2 DEF Handles
      <4>4. tail \in Seq(Routes) /\ tail # <<>>
        BY <2>1, <3>2
      <4> HIDE DEF tail
      <4>1. /\ x \in ReqType /\ x.pc = "try" /\ x.kind = "events"
            /\ x.evt = "stop.advanced" /\ x.events # <<>>
        <5>1. /\ x \in ReqType /\ x.pc = req[q].pc /\ x.kind = req[q].kind
              /\ x.evt = req[q].evt /\ x.events = tail
          BY <1>0, <4>4 DEF ReqType
        <5> QED BY <2>0, <4>4, <5>1
      <4> HIDE DEF x
      <4>3. GoodReq(x, routes')
        BY <4>1 DEF GoodReq, Telling
      <4> QED BY <4>1, <4>2, <4>3 DEF OneGood
    <3> QED BY <3>1, <3>2
  <2> QED BY <1>1, <2>2, <2>3 DEF TryEvent
<1>2. CASE ListDriverRoutes(q)
  <2> DEFINE targets == ListActiveRoutesForDriver(req[q].driver)
             pc == IF targets = {} THEN "answer" ELSE "publish"
             x == [req[q] EXCEPT !.targets = targets, !.pc = pc]
  <2>1. /\ req[q].kind = "hos" /\ req[q].evt \in EventTypes
    BY <1>0, <1>2 DEF ListDriverRoutes, GoodReq
  <2>2. targets \in SUBSET Routes /\ pc \in Pcs /\ pc \in {"answer", "publish"}
    BY DEF ListActiveRoutesForDriver, Pcs
  <2>3. req' = [req EXCEPT ![q] = x]
    BY <1>2 DEF ListDriverRoutes, Handles
  <2> HIDE DEF targets, pc
  <2>4. x \in ReqType /\ x.pc = pc /\ x.kind = "hos" /\ x.evt \in EventTypes
    BY <1>0, <2>1, <2>2 DEF ReqType
  <2> HIDE DEF x
  <2>5. GoodReq(x, routes')
    BY <2>2, <2>4 DEF GoodReq
  <2> QED BY <2>3, <2>4, <2>5 DEF OneGood
<1>3. CASE PublishEvent(q)
  <2>1. req[q].kind \in {"advance", "events", "hos"} /\ req[q].evt \in EventTypes
    BY <1>0, <1>3 DEF PublishEvent, GoodReq, Telling
  <2>2. CASE req[q].kind = "advance" /\ Handles(q, [req[q] EXCEPT !.pc = "answer"])
    <3> DEFINE x == [req[q] EXCEPT !.pc = "answer"]
    <3>1. x \in ReqType /\ x.pc = "answer"
      <4>1. "answer" \in Pcs
        BY DEF Pcs
      <4> QED BY <1>0, <4>1, WithPc
    <3>2. req' = [req EXCEPT ![q] = x]
      BY <2>2 DEF Handles
    <3> HIDE DEF x
    <3>3. GoodReq(x, routes')
      BY <3>1 DEF GoodReq, Telling
    <3> QED BY <3>1, <3>2, <3>3 DEF OneGood
  <2>3. ASSUME req[q].kind = "hos", NEW r \in req[q].targets,
               Handles(q, [req[q] EXCEPT !.pc = "emit", !.targets = @ \ {r}])
        PROVE  OneGood(q)
    <3> DEFINE targets == req[q].targets \ {r}
               x == [req[q] EXCEPT !.pc = "emit", !.targets = targets]
    <3>1. "emit" \in Pcs /\ targets \in SUBSET Routes
      BY <1>0, ReqFields DEF Pcs
    <3>2. req' = [req EXCEPT ![q] = x]
      BY <2>3 DEF Handles
    <3> HIDE DEF targets
    <3>3. x \in ReqType /\ x.pc = "emit" /\ x.kind = "hos" /\ x.evt \in EventTypes
      <4>1. /\ x \in ReqType /\ x.pc = "emit" /\ x.kind = req[q].kind
            /\ x.evt = req[q].evt
        BY <1>0, <3>1 DEF ReqType
      <4> QED BY <2>1, <2>3, <4>1
    <3> HIDE DEF x
    <3>4. GoodReq(x, routes')
      BY <3>3 DEF GoodReq
    <3> QED BY <3>2, <3>3, <3>4 DEF OneGood
  <2> QED BY <1>3, <2>2, <2>3 DEF PublishEvent
<1>4. CASE EmitLookup(q)
  <2> DEFINE subs == lists["subscriptions"]
             wanted == {i \in DOMAIN subs : req[q].evt \in Wants[subs[i]]}
             hooks == Subsequence(subs, wanted)
             x == [req[q] EXCEPT !.pc = "enqueue", !.hooks = hooks]
  <2>1. /\ req[q].pc \in Telling /\ req[q].kind \in {"advance", "events", "hos"}
        /\ req[q].evt \in EventTypes
        /\ req[q].kind # "hos" =>
             req[q].route \in Routes /\ req[q].leg \in 1 .. routes'[req[q].route].done
    <3>1. req[q].pc \in Telling
      BY <1>4 DEF EmitLookup, Telling
    <3> QED BY <1>a, <3>1 DEF GoodReq
  <2>2. hooks \in Seq(Nat)
    <3>1. subs \in Seq(Nat)
      BY DEF ListInv, Collections
    <3>2. wanted \in SUBSET DOMAIN subs
      OBVIOUS
    <3> HIDE DEF subs, wanted
    <3> QED BY <3>1, <3>2, SubsequenceFacts
  <2>3. req' = [req EXCEPT ![q] = IF hooks = <<>> THEN AfterEmit(req[q]) ELSE x]
    BY <1>4 DEF EmitLookup, Handles
  <2> HIDE DEF hooks
  <2>4. CASE hooks = <<>>
    <3>1. AfterEmit(req[q]) \in ReqType /\ GoodReq(AfterEmit(req[q]), routes')
      BY <1>0, <2>1, AfterEmitGood
    <3> QED BY <2>3, <2>4, <3>1 DEF OneGood
  <2>5. CASE hooks # <<>>
    <3>1. /\ x \in ReqType /\ x.pc = "enqueue" /\ x.kind = req[q].kind
          /\ x.evt = req[q].evt /\ x.route = req[q].route /\ x.leg = req[q].leg
          /\ x.hooks = hooks
      <4>1. "enqueue" \in Pcs
        BY DEF Pcs
      <4> QED BY <1>0, <2>2, <4>1 DEF ReqType
    <3>2. req' = [req EXCEPT ![q] = x]
      BY <2>3, <2>5
    <3> HIDE DEF x
    <3>3. GoodReq(x, routes')
      BY <2>1, <2>5, <3>1 DEF GoodReq
    <3> QED BY <3>1, <3>2, <3>3 DEF OneGood
  <2> QED BY <2>4, <2>5
<1>5. CASE EmitEnqueue(q)
  <2> DEFINE rest == Tail(req[q].hooks)
             x == [req[q] EXCEPT !.hooks = rest]
             last == [req[q] EXCEPT !.hooks = <<>>]
  <2>1. /\ req[q].pc = "enqueue" /\ req[q].kind \in {"advance", "events", "hos"}
        /\ req[q].evt \in EventTypes /\ req[q].hooks # <<>>
        /\ req[q].kind # "hos" =>
             req[q].route \in Routes /\ req[q].leg \in 1 .. routes'[req[q].route].done
    <3>1. req[q].pc \in Telling /\ req[q].pc = "enqueue"
      BY <1>5 DEF EmitEnqueue, Telling
    <3> QED BY <1>a, <3>1 DEF GoodReq
  <2>2. rest \in Seq(Nat) /\ <<>> \in Seq(Nat)
    <3>1. req[q].hooks \in Seq(Nat)
      BY <1>0, ReqFields
    <3> QED BY <2>1, <3>1
  <2>3. req' = [req EXCEPT ![q] = IF rest = <<>> THEN AfterEmit(last) ELSE x]
    BY <1>5 DEF EmitEnqueue, Handles
  <2> HIDE DEF rest
  <2>4. CASE rest = <<>>
    <3>1. /\ last \in ReqType /\ last.kind = req[q].kind /\ last.evt = req[q].evt
          /\ last.route = req[q].route /\ last.leg = req[q].leg
      BY <1>0, <2>2 DEF ReqType
    <3> HIDE DEF last
    <3>2. AfterEmit(last) \in ReqType /\ GoodReq(AfterEmit(last), routes')
      BY <2>1, <3>1, AfterEmitGood
    <3> QED BY <2>3, <2>4, <3>2 DEF OneGood
  <2>5. CASE rest # <<>>
    <3>1. /\ x \in ReqType /\ x.pc = "enqueue" /\ x.kind = req[q].kind
          /\ x.evt = req[q].evt /\ x.route = req[q].route /\ x.leg = req[q].leg
          /\ x.hooks = rest
      BY <1>0, <2>1, <2>2 DEF ReqType
    <3>2. req' = [req EXCEPT ![q] = x]
      BY <2>3, <2>5
    <3> HIDE DEF x
    <3>3. GoodReq(x, routes')
      BY <2>1, <2>5, <3>1 DEF GoodReq
    <3> QED BY <3>1, <3>2, <3>3 DEF OneGood
  <2> QED BY <2>4, <2>5
<1>6. CASE Answer(q)
  BY <1>6, IdleGood DEF Answer, Handles, OneGood
<1> QED BY <1>1, <1>2, <1>3, <1>4, <1>5, <1>6 DEF HandlerStep

LEMMA RequestStep ==
    ASSUME RouteInv, ListInv, RequestInv, [Next]_vars
    PROVE  RouteInv' /\ RequestInv' /\ \A r \in Routes : routes[r].done <= routes'[r].done
<1>1. RouteChange
  <2>1. ASSUME NEW q \in Requests
        PROVE  /\ req[q].events \in Seq(Routes)
               /\ req[q].pc = "try" => req[q].events # <<>>
    <3>1. req[q] \in ReqType /\ GoodReq(req[q], routes)
      BY DEF RequestInv
    <3> QED BY <3>1, ReqFields DEF GoodReq
  <2> QED BY <2>1, NextRouteChange
<1>2. RouteInv' /\ \A r \in Routes : routes[r].done <= routes'[r].done
  BY <1>1, RouteStep
<1>3. ASSUME UNCHANGED req \/ \E q \in Requests : OneGood(q) PROVE RequestInv'
  BY <1>2, <1>3, PutRequest DEF OneGood
<1>4. ASSUME NEW q \in Requests, NEW r \in Routes, AdvanceHandler(q, r) PROVE RequestInv'
  BY <1>3, <1>4, AdvanceHandlerGood
<1>5. ASSUME NEW q \in Requests, NEW events \in EventLists, DriverEventsHandler(q, events)
      PROVE  RequestInv'
  BY <1>3, <1>5, DriverEventsGood
<1>6. ASSUME NEW q \in Requests, NEW d \in Drivers, NEW action \in HosActions,
             DriversHandler(q, d, action)
      PROVE  RequestInv'
  BY <1>3, <1>6, DriversHandlerGood
<1>7. ASSUME NEW q \in Requests, HandlerStep(q) PROVE RequestInv'
  BY <1>2, <1>3, <1>7, HandlerStepGood
<1>8. ASSUME UNCHANGED req PROVE RequestInv'
  BY <1>3, <1>8
<1>9. RequestInv'
  BY <1>4, <1>5, <1>6, <1>7, <1>8, RequestsElsewhere DEF Next
<1> QED BY <1>2, <1>9

----------------------------------------------------------------------------
(* What clients of a route are promised *)

\* stop.advanced has been emitted for visited legs only.
AnnouncedInv ==
    /\ announced \in [Routes -> SUBSET Nat]
    /\ \A r \in Routes : announced[r] \subseteq 1 .. routes[r].done

\* What the clients of route r see of a step.
SeenOf(r) == Progress(r)!Next \/ UNCHANGED <<routes[r].done, announced[r]>>

\* A step that emits nothing visits at most one leg of a route.
LEMMA VisitSeen ==
    ASSUME RouteInv, RouteChange, UNCHANGED announced, NEW r \in Routes
    PROVE  SeenOf(r)
<1>1. ASSUME routes'[r].done = routes[r].done PROVE SeenOf(r)
  BY <1>1 DEF SeenOf
<1>2. ASSUME NEW t \in Routes, PlanRoutes(t) PROVE routes'[r].done = routes[r].done
  <2>1. CASE t = r
    <3>1. routes'[r].done = 0
      BY <1>2, <2>1 DEF PlanRoutes, RouteInv, ZeroRoute
    <3>2. /\ routes[r].version = 0 => routes[r].legs = 0
          /\ routes[r].done <= routes[r].legs
      BY DEF RouteInv
    <3>3. ~(routes[r].version > 0)
      BY <1>2, <2>1 DEF PlanRoutes, Known
    <3>4. routes[r] \in RouteType
      BY DEF RouteInv
    <3>5. routes[r].version \in Nat /\ routes[r].done \in 0 .. 2
      BY <3>4, RouteFields DEF DemoLegs
    <3>6. routes[r].done = 0
      BY <3>2, <3>3, <3>5
    <3> QED BY <3>1, <3>6
  <2>2. CASE t # r
    BY <1>2, <2>2 DEF PlanRoutes, RouteInv
  <2> QED BY <2>1, <2>2
<1>3. ASSUME NEW t \in Routes, PatchRoute(t) PROVE routes'[r].done = routes[r].done
  BY <1>3 DEF PatchRoute, RouteInv, RouteType
<1>4. ASSUME NEW t \in Routes, NEW d \in Drivers, AssignRoute(t, d)
      PROVE  routes'[r].done = routes[r].done
  BY <1>4 DEF AssignRoute, RouteInv, RouteType
<1>5. ASSUME NEW t \in Routes, AdvanceRoute(t) PROVE SeenOf(r)
  <2>1. CASE t = r
    <3>1. routes[r].done < routes[r].legs /\ routes'[r].done = routes[r].done + 1
      BY <1>5, <2>1 DEF AdvanceRoute, Advanceable, RouteInv, RouteType
    <3>2. routes[r] \in RouteType
      BY DEF RouteInv
    <3>3. routes[r].legs \in {0, 2} /\ routes[r].done \in 0 .. 2
      BY <3>2, RouteFields DEF DemoLegs
    <3>4. routes[r].done < DemoLegs
      BY <3>1, <3>3 DEF DemoLegs
    <3> QED BY <3>1, <3>4 DEF SeenOf, Progress!Next, Progress!Visit
  <2>2. CASE t # r
    BY <1>1, <1>5, <2>2 DEF AdvanceRoute, RouteInv
  <2> QED BY <2>1, <2>2
<1>6. CASE UNCHANGED <<routes, assigned>>
  BY <1>1, <1>6
<1> QED BY <1>1, <1>2, <1>3, <1>4, <1>5, <1>6 DEF RouteChange

\* Emit tells of a visited leg of the handler's route, and changes no route.
LEMMA EmitSeen ==
    ASSUME RouteInv, RequestInv, AnnouncedInv, NEW q \in Requests, EmitLookup(q),
           NEW r \in Routes
    PROVE  /\ SeenOf(r)
           /\ announced' \in [Routes -> SUBSET Nat]
           /\ announced'[r] \subseteq 1 .. routes[r].done
<1> DEFINE t == req[q].route
           leg == req[q].leg
<1>1. UNCHANGED routes
  BY DEF EmitLookup, store
<1>2. CASE req[q].kind = "hos"
  <2>1. announced' = announced
    BY <1>2 DEF EmitLookup
  <2> QED BY <1>1, <2>1 DEF SeenOf, AnnouncedInv
<1>3. CASE req[q].kind # "hos"
  <2>1. req[q].pc \in Telling /\ GoodReq(req[q], routes)
    BY DEF EmitLookup, Telling, RequestInv
  <2>2. t \in Routes /\ leg \in 1 .. routes[t].done
    BY <1>3, <2>1 DEF GoodReq
  <2>3. announced' = [announced EXCEPT ![t] = @ \union {leg}]
    BY <1>3 DEF EmitLookup
  <2> HIDE DEF t, leg
  <2>4. routes[t].done \in Nat
    BY <2>2, DoneNat
  <2>5. leg \in Nat
    BY <2>2, <2>4
  <2>6. announced' \in [Routes -> SUBSET Nat]
    BY <2>2, <2>3, <2>5 DEF AnnouncedInv
  <2>7. CASE r = t
    <3>1. announced'[r] = announced[r] \union {leg}
      BY <2>3, <2>7 DEF AnnouncedInv
    <3>2. announced'[r] \subseteq 1 .. routes[r].done
      BY <2>2, <2>7, <3>1 DEF AnnouncedInv
    <3>3. SeenOf(r)
      BY <1>1, <2>2, <2>7, <3>1 DEF SeenOf, Progress!Next, Progress!Announce
    <3> QED BY <2>6, <3>2, <3>3
  <2>8. CASE r # t
    <3>1. announced'[r] = announced[r]
      BY <2>3, <2>8 DEF AnnouncedInv
    <3> QED BY <1>1, <2>6, <3>1 DEF SeenOf, AnnouncedInv
  <2> QED BY <2>7, <2>8
<1> QED BY <1>2, <1>3

\* Only Emit changes what has been announced.
LEMMA AnnouncedElsewhere ==
    ASSUME [Next]_vars
    PROVE  UNCHANGED announced \/ \E q \in Requests : EmitLookup(q)
<1>1. ASSUME NEW q \in Requests,
             \/ \E r \in Routes : AdvanceHandler(q, r)
             \/ \E events \in EventLists : DriverEventsHandler(q, events)
             \/ \E d \in Drivers, action \in HosActions : DriversHandler(q, d, action)
      PROVE  UNCHANGED announced
  BY <1>1 DEF AdvanceHandler, DriverEventsHandler, DriversHandler, book
<1>2. ASSUME NEW q \in Requests, HandlerStep(q), ~EmitLookup(q) PROVE UNCHANGED announced
  BY <1>2 DEF HandlerStep, TryEvent, ListDriverRoutes, PublishEvent, EmitEnqueue, Answer, book
<1> QED BY <1>1, <1>2, RequestsElsewhere DEF Next

LEMMA AnnouncedStep ==
    ASSUME RouteInv, ListInv, RequestInv, AnnouncedInv, [Next]_vars
    PROVE  AnnouncedInv' /\ \A r \in Routes : SeenOf(r)
<1>1. /\ RouteInv' /\ \A r \in Routes : routes[r].done <= routes'[r].done
  BY RequestStep
<1>2. \A r \in Routes : routes[r].done \in Nat
  BY DoneNat
<1>3. \A r \in Routes : routes'[r].done \in Nat
  <2>1. \A r \in Routes : routes'[r] \in RouteType
    BY <1>1 DEF RouteInv
  <2>2. \A r \in Routes : routes'[r].done \in 0 .. 2
    BY <2>1, RouteFields DEF DemoLegs
  <2> QED BY <2>2
<1>4. CASE UNCHANGED announced
  <2>1. ASSUME NEW r \in Routes PROVE announced[r] \subseteq 1 .. routes'[r].done
    <3>1. announced[r] \subseteq 1 .. routes[r].done
      BY DEF AnnouncedInv
    <3>2. 1 .. routes[r].done \subseteq 1 .. routes'[r].done
      BY <1>1, <1>2, <1>3
    <3> QED BY <3>1, <3>2
  <2>2. RouteChange
    <3>1. ASSUME NEW q \in Requests
          PROVE  /\ req[q].events \in Seq(Routes)
                 /\ req[q].pc = "try" => req[q].events # <<>>
      <4>1. req[q] \in ReqType /\ GoodReq(req[q], routes)
        BY DEF RequestInv
      <4> QED BY <4>1, ReqFields DEF GoodReq
    <3> QED BY <3>1, NextRouteChange
  <2> QED BY <1>4, <2>1, <2>2, VisitSeen DEF AnnouncedInv
<1>5. ASSUME NEW q \in Requests, EmitLookup(q)
      PROVE  AnnouncedInv' /\ \A r \in Routes : SeenOf(r)
  <2>1. UNCHANGED routes
    BY <1>5 DEF EmitLookup, store
  <2>2. \A r \in Routes : /\ SeenOf(r) /\ announced' \in [Routes -> SUBSET Nat]
                          /\ announced'[r] \subseteq 1 .. routes[r].done
    BY <1>5, EmitSeen
  <2>3. announced' \in [Routes -> SUBSET Nat]
    <3>1. CASE Routes = {}
      BY <1>5, <3>1 DEF EmitLookup, AnnouncedInv
    <3> QED BY <2>2, <3>1
  <2> QED BY <2>1, <2>2, <2>3 DEF AnnouncedInv
<1> QED BY <1>4, <1>5, AnnouncedElsewhere

HandlerInv == RouteInv /\ ListInv /\ RequestInv /\ AnnouncedInv

LEMMA HandlerInit == Init => HandlerInv
<1> SUFFICES ASSUME Init PROVE HandlerInv
  OBVIOUS
<1>1. RouteInv
  <2>1. /\ ZeroRoute \in RouteType /\ ZeroRoute.done = 0 /\ ZeroRoute.legs = 0
        /\ ZeroRoute.driver = NoOne
    BY DEF ZeroRoute, RouteType, DemoLegs
  <2> QED BY <2>1 DEF Init, StoreInit, RouteInv
<1>2. ListInv
  <2>1. <<>> \in Seq(Nat) /\ DOMAIN <<>> = {}
    OBVIOUS
  <2> QED BY <2>1 DEF Init, StoreInit, ListInv
<1>3. RequestInv
  BY IdleGood DEF Init, RequestInv
<1>4. AnnouncedInv
  BY DEF Init, AnnouncedInv
<1> QED BY <1>1, <1>2, <1>3, <1>4 DEF HandlerInv

LEMMA HandlerNext == HandlerInv /\ [Next]_vars => HandlerInv'
  BY RequestStep, NextListChange, ListStep, AnnouncedStep DEF HandlerInv

LEMMA HandlerAlways == Spec => []HandlerInv
  BY HandlerInit, HandlerNext, PTL DEF Spec

\* However advance requests and driver events overlap, the legs of every route are
\* visited one by one, and stop.advanced is emitted only of a leg already visited:
\* the handlers over the in-memory store keep the promise of RouteProgress.
THEOREM ServerKeepsPromise == Spec => ImplementsProgress
<1>1. Init => \A r \in Routes : Progress(r)!Init
  <2> SUFFICES ASSUME Init, NEW r \in Routes PROVE Progress(r)!Init
    OBVIOUS
  <2>1. routes = [t \in Routes |-> ZeroRoute] /\ announced = [t \in Routes |-> {}]
    BY DEF Init, StoreInit
  <2>2. ZeroRoute.done = 0
    BY DEF ZeroRoute
  <2> QED BY <2>1, <2>2 DEF Progress!Init
<1>2. HandlerInv /\ [Next]_vars =>
        [\A r \in Routes : Progress(r)!Next \/ UNCHANGED <<routes[r].done, announced[r]>>]_vars
  BY AnnouncedStep DEF HandlerInv, SeenOf
<1> QED BY <1>1, <1>2, HandlerAlways, PTL DEF Spec, ImplementsProgress

----------------------------------------------------------------------------
(* Deliveries *)

DeliveryType ==
    [hook : Nat, status : {"pending", "retry", "delivered", "failed"},
     attempts : Nat, posts : Nat, retries : Nat]

ItemType == [id : Nat, attempts : Nat]

WorkerType == [batch : Seq(ItemType), answer : {"none", "ok", "error"}]

\* The worker has sent delivery i and not yet noted the answer.
InFlight(i) == worker.answer # "none" /\ Head(worker.batch).id = i

\* The times delivery i was sent and the answer noted.
Settled(i) == IF InFlight(i) THEN queue[i].posts - 1 ELSE queue[i].posts

\* The worker's batch holds distinct deliveries, still queued, with the attempts
\* that the store has for them.
BatchInv ==
    /\ worker \in WorkerType
    /\ worker.answer # "none" => worker.batch # <<>>
    /\ \A k \in DOMAIN worker.batch :
        /\ worker.batch[k].id \in DOMAIN queue /\ Queued(worker.batch[k].id)
        /\ worker.batch[k].attempts = queue[worker.batch[k].id].attempts
    /\ \A k, l \in DOMAIN worker.batch : k < l => worker.batch[k].id # worker.batch[l].id

\* Every POST noted counts as an attempt until the attempts are used up; a delivery
\* that is queued has a POST left.
CountInv(i) ==
    /\ queue[i].attempts <= Settled(i)
    /\ queue[i].attempts + 1 < MaxAttempts => Settled(i) = queue[i].attempts
    /\ Settled(i) <= MaxAttempts + queue[i].retries
    /\ Queued(i) => Settled(i) < MaxAttempts + queue[i].retries

\* A delivery that was given up is in the dead letters.
KeptInv ==
    /\ dlq \in Seq(Nat) /\ \A k \in DOMAIN dlq : dlq[k] \in DOMAIN queue
    /\ \A i \in DOMAIN queue : queue[i].status = "failed" => \E k \in DOMAIN dlq : dlq[k] = i

DeliveryInv ==
    /\ queue \in Seq(DeliveryType)
    /\ BatchInv /\ KeptInv
    /\ \A i \in DOMAIN queue : CountInv(i)

----------------------------------------------------------------------------
(* The deliveries, step by step *)

LEMMA DeliveryFields ==
    ASSUME NEW x \in DeliveryType
    PROVE  /\ x.status \in {"pending", "retry", "delivered", "failed"}
           /\ x.attempts \in Nat /\ x.posts \in Nat /\ x.retries \in Nat
  BY DEF DeliveryType

LEMMA WorkerFields ==
    ASSUME worker \in WorkerType
    PROVE  worker.batch \in Seq(ItemType) /\ worker.answer \in {"none", "ok", "error"}
  BY DEF WorkerType

LEMMA TailFacts ==
    ASSUME NEW X, NEW s \in Seq(X), s # <<>>
    PROVE  /\ Tail(s) \in Seq(X) /\ DOMAIN s = 1 .. Len(s) /\ Len(s) \in Nat \ {0}
           /\ Head(s) = s[1] /\ 1 \in DOMAIN s /\ DOMAIN Tail(s) = 1 .. Len(s) - 1
           /\ \A k \in DOMAIN Tail(s) : k + 1 \in DOMAIN s /\ Tail(s)[k] = s[k + 1] /\ 1 < k + 1
<1>1. Len(s) \in Nat \ {0} /\ DOMAIN s = 1 .. Len(s) /\ Head(s) = s[1]
  OBVIOUS
<1>2. /\ Tail(s) \in Seq(X) /\ Len(Tail(s)) = Len(s) - 1 /\ DOMAIN Tail(s) = 1 .. Len(Tail(s))
      /\ \A k \in 1 .. Len(Tail(s)) : Tail(s)[k] = s[k + 1]
  OBVIOUS
<1>3. \A k \in 1 .. Len(s) - 1 : k + 1 \in 1 .. Len(s) /\ 1 < k + 1
  BY <1>1
<1>4. 1 \in 1 .. Len(s)
  BY <1>1
<1> QED BY <1>1, <1>2, <1>3, <1>4

\* The worker fetches deliveries that are due, each once, with their attempts.
LEMMA FetchedFacts ==
    ASSUME queue \in Seq(DeliveryType), NEW elapsed
    PROVE  /\ FetchDue(elapsed) \in Seq(ItemType)
           /\ \A k \in DOMAIN FetchDue(elapsed) :
                /\ FetchDue(elapsed)[k].id \in DOMAIN queue
                /\ Queued(FetchDue(elapsed)[k].id)
                /\ FetchDue(elapsed)[k].attempts = queue[FetchDue(elapsed)[k].id].attempts
           /\ \A k, l \in DOMAIN FetchDue(elapsed) :
                k < l => FetchDue(elapsed)[k].id # FetchDue(elapsed)[l].id
<1> DEFINE all == [i \in DOMAIN queue |-> i]
           S == {i \in DOMAIN queue : Due(i, elapsed)}
           due == Subsequence(all, S)
           n == IF Len(due) < Batch THEN Len(due) ELSE Batch
           item(k) == [id |-> due[k], attempts |-> queue[due[k]].attempts]
<1>1. all \in Seq(Nat) /\ DOMAIN all = DOMAIN queue /\ \A i \in DOMAIN queue : all[i] = i
  OBVIOUS
<1>2. S \in SUBSET DOMAIN all
  BY <1>1
<1>3. \A i \in S : i \in DOMAIN queue /\ Queued(i) /\ i \in Nat
  BY DEF Due, Queued
<1>4. FetchDue(elapsed) = [k \in 1 .. n |-> item(k)]
  BY DEF FetchDue
<1> HIDE DEF all, S
<1>5. /\ due \in Seq(Nat) /\ Len(due) = Cardinality(S) /\ Len(due) \in Nat
      /\ \A k \in 1 .. Len(due) : Place(S, k) \in S /\ due[k] = all[Place(S, k)]
      /\ \A k, l \in 1 .. Len(due) : k < l => Place(S, k) < Place(S, l)
  <2>1. /\ Subsequence(all, S) \in Seq(Nat)
        /\ Len(Subsequence(all, S)) = Cardinality(S) /\ Cardinality(S) \in Nat
        /\ \A k \in 1 .. Cardinality(S) :
              Place(S, k) \in S /\ Subsequence(all, S)[k] = all[Place(S, k)]
        /\ \A k, l \in 1 .. Cardinality(S) : k < l => Place(S, k) < Place(S, l)
    BY <1>1, <1>2, SubsequenceFacts
  <2> QED BY <2>1
<1> HIDE DEF due
<1>6. \A k \in 1 .. Len(due) : due[k] \in S /\ due[k] = Place(S, k)
  BY <1>1, <1>3, <1>5
<1>7. n \in Nat /\ n <= Len(due)
  BY <1>5, MemoryAssumption
<1> HIDE DEF n
<1>8. \A k \in 1 .. n : k \in 1 .. Len(due)
  BY <1>5, <1>7
<1>9. ASSUME NEW k \in 1 .. n
      PROVE  /\ item(k).id = due[k] /\ due[k] \in DOMAIN queue /\ Queued(due[k])
             /\ item(k).attempts = queue[due[k]].attempts /\ item(k) \in ItemType
  <2>1. due[k] \in DOMAIN queue /\ Queued(due[k]) /\ due[k] \in Nat
    BY <1>3, <1>6, <1>8
  <2>2. queue[due[k]] \in DeliveryType
    BY <2>1
  <2>3. queue[due[k]].attempts \in Nat
    BY <2>2, DeliveryFields
  <2> QED BY <2>1, <2>3 DEF ItemType
<1>10. ASSUME NEW k \in 1 .. n, NEW l \in 1 .. n, k < l PROVE item(k).id # item(l).id
  <2>1. due[k] < due[l]
    BY <1>5, <1>6, <1>8, <1>10
  <2>2. due[k] \in Nat /\ due[l] \in Nat
    BY <1>3, <1>6, <1>8
  <2>3. due[k] # due[l]
    BY <2>1, <2>2
  <2> QED BY <1>9, <2>3
<1>11. \A k \in 1 .. n : item(k) \in ItemType
  BY <1>9
<1> HIDE DEF item
<1>12. FetchDue(elapsed) \in Seq(ItemType) /\ DOMAIN FetchDue(elapsed) = 1 .. n
  BY <1>4, <1>7, <1>11
<1>13. \A k \in 1 .. n : FetchDue(elapsed)[k] = item(k)
  BY <1>4
<1> QED BY <1>9, <1>10, <1>12, <1>13

\* Which steps change the queue, the dead letters and the worker.
DeliveryChange ==
    \/ UNCHANGED <<queue, dlq, worker>>
    \/ \E hook \in Nat : EnqueueWebhook(hook) /\ UNCHANGED worker
    \/ \E i \in DOMAIN queue : RetryWebhookDelivery(i) /\ UNCHANGED worker
    \/ \E elapsed \in SUBSET DOMAIN queue :
        /\ worker' = [batch |-> FetchDue(elapsed), answer |-> "none"]
        /\ worker.batch = <<>> /\ UNCHANGED <<queue, dlq>>
    \/ PostDelivery \/ SettleDelivery

LEMMA NextDeliveryChange == ASSUME RequestInv, [Next]_vars PROVE DeliveryChange
<1> USE DEF DeliveryChange, store
<1>1. ASSUME NEW r \in Routes, OptimizeHandler(r) \/ PatchRouteHandler(r)
      PROVE  DeliveryChange
  BY <1>1 DEF OptimizeHandler, PlanRoutes, PatchRouteHandler, PatchRoute
<1>2. ASSUME NEW r \in Routes, NEW d \in Drivers, AssignHandler(r, d) PROVE DeliveryChange
  BY <1>2 DEF AssignHandler, AssignRoute
<1>3. ASSUME NEW c, CreateHandler(c) PROVE DeliveryChange
  BY <1>3 DEF CreateHandler, Create
<1>4. ASSUME NEW c, NEW x, DeleteHandler(c, x) PROVE DeliveryChange
  BY <1>4 DEF DeleteHandler, Delete
<1>5. ASSUME NEW i \in DOMAIN queue, WebhookDeliveryRetryHandler(i) PROVE DeliveryChange
  BY <1>5 DEF WebhookDeliveryRetryHandler
<1>6. ASSUME NEW q \in Requests, NEW r \in Routes, AdvanceHandler(q, r) PROVE DeliveryChange
  BY <1>6 DEF AdvanceHandler, AdvanceRoute
<1>7. ASSUME NEW q \in Requests, NEW events, DriverEventsHandler(q, events)
      PROVE  DeliveryChange
  BY <1>7 DEF DriverEventsHandler
<1>8. ASSUME NEW q \in Requests, NEW d, NEW action, DriversHandler(q, d, action)
      PROVE  DeliveryChange
  BY <1>8 DEF DriversHandler, UpdateHOS
<1>9. ASSUME NEW q \in Requests, HandlerStep(q) PROVE DeliveryChange
  <2>1. CASE EmitEnqueue(q)
    <3>1. req[q] \in ReqType /\ GoodReq(req[q], routes) /\ req[q].pc = "enqueue"
      BY <2>1 DEF RequestInv, EmitEnqueue
    <3>2. req[q].hooks \in Seq(Nat) /\ req[q].hooks # <<>>
      BY <3>1, ReqFields DEF GoodReq
    <3>3. Head(req[q].hooks) \in Nat
      BY <3>2, FirstAndRest
    <3> QED BY <2>1, <3>3 DEF EmitEnqueue
  <2>2. CASE ~EmitEnqueue(q)
    BY <1>9, <2>2 DEF HandlerStep, TryEvent, AdvanceRoute, ListDriverRoutes, PublishEvent,
                      EmitLookup, Answer
  <2> QED BY <2>1, <2>2
<1>10. ASSUME NEW elapsed \in SUBSET DOMAIN queue, FetchDeliveries(elapsed)
       PROVE  DeliveryChange
  BY <1>10 DEF FetchDeliveries
<1>11. ASSUME NEW c, StartWalk(c) PROVE DeliveryChange
  BY <1>11 DEF StartWalk
<1>12. CASE NextPage \/ SessionStep \/ ProcessDies \/ PostPanics
  BY <1>12 DEF NextPage, SessionStep, ProcessDies, PostPanics
<1>13. CASE UNCHANGED vars
  BY <1>13 DEF vars
<1> QED
  BY <1>1, <1>2, <1>3, <1>4, <1>5, <1>6, <1>7, <1>8, <1>9, <1>10, <1>11, <1>12, <1>13
  DEF Next

\* The facts about one delivery that the steps below start from.
LEMMA DeliveryFacts ==
    ASSUME DeliveryInv, NEW i \in DOMAIN queue
    PROVE  /\ queue[i] \in DeliveryType
           /\ queue[i].attempts \in Nat /\ queue[i].posts \in Nat /\ queue[i].retries \in Nat
           /\ Settled(i) \in Int /\ CountInv(i)
<1>1. queue[i] \in DeliveryType /\ CountInv(i)
  BY DEF DeliveryInv
<1>2. queue[i].attempts \in Nat /\ queue[i].posts \in Nat /\ queue[i].retries \in Nat
  BY <1>1, DeliveryFields
<1>3. Settled(i) \in Int
  BY <1>2 DEF Settled
<1> QED BY <1>1, <1>2, <1>3

\* A delivery is queued: a new one, or one more time on an administrator's request.
LEMMA EnqueueKeeps ==
    ASSUME DeliveryInv, NEW hook \in Nat, EnqueueWebhook(hook), UNCHANGED worker
    PROVE  DeliveryInv'
<1> DEFINE e == Enqueued(hook)
<1>0. PICK n : n = Len(queue) + 1
  OBVIOUS
<1>1. /\ e \in DeliveryType /\ e.status = "pending" /\ e.attempts = 0 /\ e.posts = 0
      /\ e.retries = 0
  BY DEF Enqueued, DeliveryType
<1>2. /\ queue \in Seq(DeliveryType) /\ Len(queue) \in Nat /\ DOMAIN queue = 1 .. Len(queue)
  BY DEF DeliveryInv
<1>3. queue' = Append(queue, e) /\ dlq' = dlq /\ worker' = worker
  BY DEF EnqueueWebhook
<1> HIDE DEF e
<1>4. /\ queue' \in Seq(DeliveryType) /\ DOMAIN queue' = 1 .. n
      /\ \A i \in DOMAIN queue : queue'[i] = queue[i]
      /\ queue'[n] = e
  BY <1>0, <1>1, <1>2, <1>3
<1>5. DOMAIN queue \subseteq DOMAIN queue' /\ n \notin DOMAIN queue
      /\ \A i \in DOMAIN queue' : i \in DOMAIN queue \/ i = n
  BY <1>0, <1>2, <1>4
<1>6. BatchInv'
  BY <1>3, <1>4, <1>5 DEF DeliveryInv, BatchInv, Queued
<1>7. KeptInv'
  <2>1. e.status # "failed"
    BY <1>1
  <2> QED BY <1>3, <1>4, <1>5, <2>1 DEF DeliveryInv, KeptInv
<1>8. ASSUME NEW i \in DOMAIN queue PROVE CountInv(i)'
  <2>1. CountInv(i) /\ queue'[i] = queue[i]
    BY <1>4 DEF DeliveryInv
  <2> QED BY <1>3, <2>1 DEF CountInv, Settled, InFlight, Queued
<1>9. CountInv(n)'
  <2>1. ~InFlight(n)'
    <3>1. ASSUME worker.answer # "none" PROVE Head(worker.batch).id # n
      <4>1. worker.batch # <<>> /\ worker.batch \in Seq(ItemType)
        BY <3>1, WorkerFields DEF DeliveryInv, BatchInv
      <4>2. Head(worker.batch) = worker.batch[1] /\ 1 \in DOMAIN worker.batch
        BY <4>1, TailFacts
      <4>3. Head(worker.batch).id \in DOMAIN queue
        BY <4>2 DEF DeliveryInv, BatchInv
      <4> QED BY <1>5, <4>3
    <3> QED BY <1>3, <3>1 DEF InFlight
  <2>2. Settled(n)' = 0
    BY <1>1, <1>4, <2>1 DEF Settled
  <2> QED BY <1>1, <1>4, <2>2, MemoryAssumption DEF CountInv, Queued
<1> QED BY <1>4, <1>5, <1>6, <1>7, <1>8, <1>9 DEF DeliveryInv

LEMMA RetryKeeps ==
    ASSUME DeliveryInv, NEW i \in DOMAIN queue, RetryWebhookDelivery(i), UNCHANGED worker
    PROVE  DeliveryInv'
<1> DEFINE x == queue'[i]
<1>0. /\ queue[i] \in DeliveryType /\ queue[i].attempts \in Nat /\ queue[i].posts \in Nat
      /\ queue[i].retries \in Nat /\ Settled(i) \in Int /\ CountInv(i)
  BY DeliveryFacts
<1>1. queue \in Seq(DeliveryType)
  BY DEF DeliveryInv
<1>2. /\ x = [queue[i] EXCEPT !.status = "pending", !.retries = @ + 1]
      /\ queue' = [queue EXCEPT ![i] = x] /\ dlq' = dlq /\ worker' = worker
  BY <1>1 DEF RetryWebhookDelivery
<1>3. queue[i].retries + 1 \in Nat
  BY <1>0
<1>4. /\ x \in DeliveryType /\ x.status = "pending" /\ x.attempts = queue[i].attempts
      /\ x.posts = queue[i].posts /\ x.retries = queue[i].retries + 1
  BY <1>0, <1>2, <1>3 DEF DeliveryType
<1> HIDE DEF x
<1>5. /\ queue' \in Seq(DeliveryType) /\ DOMAIN queue' = DOMAIN queue
      /\ \A j \in DOMAIN queue : j # i => queue'[j] = queue[j]
      /\ queue'[i] = x
  BY <1>1, <1>2, <1>4
<1>6. BatchInv'
  <2>1. ASSUME NEW j \in DOMAIN queue, Queued(j)
        PROVE  Queued(j)' /\ queue'[j].attempts = queue[j].attempts
    BY <1>4, <1>5, <2>1 DEF Queued
  <2> QED BY <1>2, <1>5, <2>1 DEF DeliveryInv, BatchInv
<1>7. KeptInv'
  <2>1. \A j \in DOMAIN queue : queue'[j].status = "failed" => queue[j].status = "failed"
    BY <1>4, <1>5
  <2> QED BY <1>2, <1>5, <2>1 DEF DeliveryInv, KeptInv
<1>8. ASSUME NEW j \in DOMAIN queue, j # i PROVE CountInv(j)'
  <2>1. CountInv(j) /\ queue'[j] = queue[j]
    BY <1>5, <1>8 DEF DeliveryInv
  <2> QED BY <1>2, <2>1 DEF CountInv, Settled, InFlight, Queued
<1>9. CountInv(i)'
  <2>1. Settled(i)' = Settled(i)
    <3>1. queue'[i].posts = queue[i].posts /\ worker' = worker
      BY <1>2, <1>4, <1>5
    <3> QED BY <3>1 DEF Settled, InFlight
  <2>2. /\ queue[i].attempts <= Settled(i)
        /\ queue[i].attempts + 1 < MaxAttempts => Settled(i) = queue[i].attempts
        /\ Settled(i) <= MaxAttempts + queue[i].retries
    BY <1>0 DEF CountInv
  <2>3. /\ Settled(i) <= MaxAttempts + (queue[i].retries + 1)
        /\ Settled(i) < MaxAttempts + (queue[i].retries + 1)
    BY <1>0, <2>2, MemoryAssumption
  <2> QED BY <1>4, <1>5, <2>1, <2>2, <2>3 DEF CountInv
<1> QED BY <1>5, <1>6, <1>7, <1>8, <1>9 DEF DeliveryInv

\* A new batch leaves every count as it was.
LEMMA FetchKeeps ==
    ASSUME DeliveryInv, NEW elapsed, worker.batch = <<>>,
           worker' = [batch |-> FetchDue(elapsed), answer |-> "none"],
           UNCHANGED <<queue, dlq>>
    PROVE  DeliveryInv'
<1>1. queue \in Seq(DeliveryType)
  BY DEF DeliveryInv
<1>2. worker'.batch = FetchDue(elapsed) /\ worker'.answer = "none" /\ worker' \in WorkerType
  BY <1>1, FetchedFacts DEF WorkerType
<1>3. BatchInv'
  <2>1. \A i \in DOMAIN queue : Queued(i) => Queued(i)'
    BY DEF Queued
  <2> QED BY <1>1, <1>2, <2>1, FetchedFacts DEF BatchInv
<1>4. KeptInv'
  BY DEF DeliveryInv, KeptInv
<1>5. worker.answer = "none"
  BY DEF DeliveryInv, BatchInv
<1>6. ASSUME NEW i \in DOMAIN queue PROVE CountInv(i)'
  <2>1. CountInv(i)
    BY DEF DeliveryInv
  <2>2. Settled(i)' = Settled(i)
    BY <1>2, <1>5 DEF Settled, InFlight
  <2> QED BY <2>1, <2>2 DEF CountInv, Queued
<1> QED BY <1>1, <1>3, <1>4, <1>6 DEF DeliveryInv

\* The delivery at the head of the batch.
LEMMA HeadFacts ==
    ASSUME DeliveryInv, worker.batch # <<>>
    PROVE  /\ worker.batch \in Seq(ItemType) /\ Head(worker.batch) = worker.batch[1]
           /\ 1 \in DOMAIN worker.batch
           /\ Head(worker.batch).id \in DOMAIN queue /\ Queued(Head(worker.batch).id)
           /\ Head(worker.batch).attempts = queue[Head(worker.batch).id].attempts
<1>1. worker.batch \in Seq(ItemType)
  BY WorkerFields DEF DeliveryInv, BatchInv
<1>2. Head(worker.batch) = worker.batch[1] /\ 1 \in DOMAIN worker.batch
  BY <1>1, TailFacts
<1>3. /\ worker.batch[1].id \in DOMAIN queue /\ Queued(worker.batch[1].id)
      /\ worker.batch[1].attempts = queue[worker.batch[1].id].attempts
  BY <1>2 DEF DeliveryInv, BatchInv
<1> QED BY <1>1, <1>2, <1>3

LEMMA PostKeeps == ASSUME DeliveryInv, PostDelivery PROVE DeliveryInv'
<1> DEFINE h == Head(worker.batch).id
           x == queue'[h]
<1>1. /\ worker.batch # <<>> /\ worker.answer = "none" /\ dlq' = dlq
      /\ queue' = [queue EXCEPT ![h].posts = @ + 1]
  BY DEF PostDelivery, Posting
<1>2. PICK answer \in {"ok", "error"} : worker' = [worker EXCEPT !.answer = answer]
  BY DEF PostDelivery
<1>3. worker \in WorkerType
  BY DEF DeliveryInv, BatchInv
<1>4. worker' \in WorkerType /\ worker'.batch = worker.batch /\ worker'.answer # "none"
  BY <1>2, <1>3 DEF WorkerType
<1>5. h \in DOMAIN queue
  BY <1>1, HeadFacts
<1> HIDE DEF h
<1>6. /\ queue[h] \in DeliveryType /\ queue[h].posts \in Nat
  BY <1>5, DeliveryFacts
<1>7. queue \in Seq(DeliveryType)
  BY DEF DeliveryInv
<1>8. x = [queue[h] EXCEPT !.posts = @ + 1] /\ queue' = [queue EXCEPT ![h] = x]
  BY <1>1, <1>5, <1>7
<1>9. queue[h].posts + 1 \in Nat /\ queue[h].posts + 1 - 1 = queue[h].posts
  BY <1>6
<1>10. /\ x \in DeliveryType /\ x.status = queue[h].status /\ x.posts = queue[h].posts + 1
       /\ x.attempts = queue[h].attempts /\ x.retries = queue[h].retries
  BY <1>6, <1>8, <1>9 DEF DeliveryType
<1> HIDE DEF x
<1>11. /\ queue' \in Seq(DeliveryType) /\ DOMAIN queue' = DOMAIN queue
       /\ queue'[h] = x /\ \A i \in DOMAIN queue : i # h => queue'[i] = queue[i]
  BY <1>5, <1>7, <1>8, <1>10
<1>12. ASSUME NEW i \in DOMAIN queue
       PROVE  /\ queue'[i].status = queue[i].status /\ queue'[i].retries = queue[i].retries
              /\ queue'[i].attempts = queue[i].attempts /\ Settled(i)' = Settled(i)
  <2>1. CASE i = h
    <3>1. InFlight(i)' /\ ~InFlight(i)
      BY <1>1, <1>4, <2>1 DEF InFlight, h
    <3>2. /\ queue'[i].status = queue[i].status /\ queue'[i].retries = queue[i].retries
          /\ queue'[i].attempts = queue[i].attempts /\ queue'[i].posts = queue[i].posts + 1
      BY <1>10, <1>11, <2>1
    <3>3. Settled(i)' = Settled(i)
      <4>1. Settled(i)' = queue'[i].posts - 1 /\ Settled(i) = queue[i].posts
        BY <3>1 DEF Settled
      <4>2. queue[i].posts \in Nat
        BY <1>6, <2>1
      <4> QED BY <3>2, <4>1, <4>2
    <3> QED BY <3>2, <3>3
  <2>2. CASE i # h
    <3>1. ~InFlight(i)' /\ ~InFlight(i)
      BY <1>1, <1>4, <2>2 DEF InFlight, h
    <3> QED BY <1>11, <2>2, <3>1 DEF Settled
  <2> QED BY <2>1, <2>2
<1>13. BatchInv'
  BY <1>1, <1>4, <1>11, <1>12 DEF DeliveryInv, BatchInv, Queued
<1>14. KeptInv'
  BY <1>1, <1>11, <1>12 DEF DeliveryInv, KeptInv
<1>15. \A i \in DOMAIN queue : CountInv(i)'
  BY <1>12 DEF DeliveryInv, CountInv, Queued
<1> QED BY <1>11, <1>13, <1>14, <1>15 DEF DeliveryInv

\* What a settled answer does to the delivery at the head of the batch.
LEMMA SettleCounts ==
    ASSUME NEW a \in Nat, NEW s \in Int, NEW r \in Nat, a <= s, s < MaxAttempts + r,
           a + 1 < MaxAttempts => s = a
    PROVE  /\ a <= s + 1 /\ s + 1 <= MaxAttempts + r /\ a + 1 <= s + 1
           /\ a + 1 + 1 < MaxAttempts => s + 1 = a + 1
           /\ a + 1 < MaxAttempts => s + 1 < MaxAttempts + r
  BY MemoryAssumption

LEMMA SettleKeeps == ASSUME DeliveryInv, SettleDelivery PROVE DeliveryInv'
<1>0. PICK h : h = Head(worker.batch).id
  OBVIOUS
<1> DEFINE x == queue'[h]
           gone == worker.answer = "error" /\ queue[h].attempts + 1 >= MaxAttempts
<1>1. /\ worker.batch # <<>> /\ worker.answer # "none"
      /\ worker' = [batch |-> Tail(worker.batch), answer |-> "none"]
  BY DEF SettleDelivery
<1>2. /\ h \in DOMAIN queue /\ Queued(h) /\ worker.batch \in Seq(ItemType)
      /\ Head(worker.batch) = worker.batch[1] /\ 1 \in DOMAIN worker.batch
      /\ Head(worker.batch).attempts = queue[h].attempts
  BY <1>0, <1>1, HeadFacts
<1>3. /\ queue[h] \in DeliveryType /\ queue[h].attempts \in Nat /\ queue[h].posts \in Nat
      /\ queue[h].retries \in Nat /\ Settled(h) \in Int /\ CountInv(h)
  BY <1>2, DeliveryFacts
<1>4. queue \in Seq(DeliveryType)
  BY DEF DeliveryInv
<1>5. IF gone THEN FailWebhookDelivery(h) ELSE MarkWebhookDelivery(h, worker.answer = "ok")
  BY <1>0, <1>2 DEF SettleDelivery
<1>6. queue[h].attempts + 1 \in Nat
  BY <1>3
<1>7. /\ x \in DeliveryType /\ x.posts = queue[h].posts /\ x.retries = queue[h].retries
      /\ queue' = [queue EXCEPT ![h] = x]
      /\ \/ gone /\ x.status = "failed" /\ x.attempts = queue[h].attempts
         \/ ~gone /\ x.status = "retry" /\ worker.answer # "ok"
            /\ x.attempts = queue[h].attempts + 1
         \/ ~gone /\ x.status = "delivered" /\ x.attempts = queue[h].attempts + 1
  <2>1. CASE gone
    <3>1. x = [queue[h] EXCEPT !.status = "failed"] /\ queue' = [queue EXCEPT ![h] = x]
      BY <1>2, <1>4, <1>5, <2>1 DEF FailWebhookDelivery
    <3> HIDE DEF x, gone
    <3> QED BY <1>3, <2>1, <3>1 DEF DeliveryType
  <2>2. CASE ~gone
    <3> DEFINE status == IF worker.answer = "ok" THEN "delivered" ELSE "retry"
    <3>1. /\ x = [queue[h] EXCEPT !.attempts = queue[h].attempts + 1, !.status = status]
          /\ queue' = [queue EXCEPT ![h] = x]
      BY <1>2, <1>4, <1>5, <2>2 DEF MarkWebhookDelivery
    <3>2. status \in {"delivered", "retry"} /\ (status = "retry" => worker.answer # "ok")
      OBVIOUS
    <3> HIDE DEF x, gone, status
    <3>3. /\ x \in DeliveryType /\ x.posts = queue[h].posts /\ x.retries = queue[h].retries
          /\ x.status = status /\ x.attempts = queue[h].attempts + 1
      BY <1>3, <1>6, <3>1, <3>2 DEF DeliveryType
    <3> QED BY <2>2, <3>1, <3>2, <3>3
  <2> QED BY <2>1, <2>2
<1> HIDE DEF x
<1>8. /\ queue' \in Seq(DeliveryType) /\ DOMAIN queue' = DOMAIN queue
      /\ queue'[h] = x /\ \A i \in DOMAIN queue : i # h => queue'[i] = queue[i]
  BY <1>2, <1>4, <1>7
<1>9. worker'.batch = Tail(worker.batch) /\ worker'.answer = "none"
  BY <1>1
<1>10. /\ Tail(worker.batch) \in Seq(ItemType)
       /\ \A k \in DOMAIN Tail(worker.batch) :
            /\ k + 1 \in DOMAIN worker.batch /\ 1 < k + 1 /\ k \in Int
            /\ Tail(worker.batch)[k] = worker.batch[k + 1]
  BY <1>1, <1>2, TailFacts
<1>11. BatchInv'
  <2>1. worker' \in WorkerType
    BY <1>1, <1>10 DEF WorkerType
  <2>2. ASSUME NEW k \in DOMAIN Tail(worker.batch)
        PROVE  /\ Tail(worker.batch)[k].id \in DOMAIN queue'
               /\ queue'[Tail(worker.batch)[k].id].status \in {"pending", "retry"}
               /\ Tail(worker.batch)[k].attempts = queue'[Tail(worker.batch)[k].id].attempts
    <3>1. PICK i : i = Tail(worker.batch)[k].id
      OBVIOUS
    <3>2. /\ i = worker.batch[k + 1].id /\ k + 1 \in DOMAIN worker.batch
          /\ Tail(worker.batch)[k] = worker.batch[k + 1]
      BY <1>10, <3>1
    <3>3. /\ i \in DOMAIN queue /\ Queued(i)
          /\ Tail(worker.batch)[k].attempts = queue[i].attempts
      BY <3>2 DEF DeliveryInv, BatchInv
    <3>4. i # h
      BY <1>0, <1>2, <1>10, <3>2 DEF DeliveryInv, BatchInv
    <3>5. queue'[i] = queue[i]
      BY <1>8, <3>3, <3>4
    <3>6. queue'[i].status \in {"pending", "retry"}
      BY <3>3, <3>5 DEF Queued
    <3> QED BY <1>8, <3>1, <3>3, <3>5, <3>6
  <2>3. ASSUME NEW k \in DOMAIN Tail(worker.batch), NEW l \in DOMAIN Tail(worker.batch), k < l
        PROVE  Tail(worker.batch)[k].id # Tail(worker.batch)[l].id
    <3>1. k + 1 < l + 1
      BY <1>10, <2>3
    <3>2. /\ k + 1 \in DOMAIN worker.batch /\ Tail(worker.batch)[k] = worker.batch[k + 1]
          /\ l + 1 \in DOMAIN worker.batch /\ Tail(worker.batch)[l] = worker.batch[l + 1]
      BY <1>10
    <3>3. \A m, n \in DOMAIN worker.batch : m < n => worker.batch[m].id # worker.batch[n].id
      BY DEF DeliveryInv, BatchInv
    <3>4. worker.batch[k + 1].id # worker.batch[l + 1].id
      BY <3>1, <3>2, <3>3
    <3> QED BY <3>2, <3>4
  <2> QED BY <1>9, <2>1, <2>2, <2>3 DEF BatchInv, Queued
<1>12. KeptInv'
  <2>0. /\ dlq \in Seq(Nat) /\ \A k \in DOMAIN dlq : dlq[k] \in DOMAIN queue
        /\ \A i \in DOMAIN queue :
             queue[i].status = "failed" => \E k \in DOMAIN dlq : dlq[k] = i
    BY DEF DeliveryInv, KeptInv
  <2>1. CASE gone
    <3>1. dlq' = Append(dlq, h)
      BY <1>5, <2>1 DEF FailWebhookDelivery
    <3>2. h \in Nat
      BY <1>2, <1>4
    <3>3. /\ dlq' \in Seq(Nat) /\ DOMAIN dlq' = 1 .. Len(dlq) + 1 /\ Len(dlq) \in Nat
          /\ \A k \in DOMAIN dlq : k \in DOMAIN dlq' /\ dlq'[k] = dlq[k]
          /\ dlq'[Len(dlq) + 1] = h /\ DOMAIN dlq = 1 .. Len(dlq)
      BY <2>0, <3>1, <3>2
    <3>4. \A k \in DOMAIN dlq' : k \in DOMAIN dlq \/ k = Len(dlq) + 1
      BY <3>3
    <3>5. Len(dlq) + 1 \in DOMAIN dlq'
      BY <3>3
    <3>6. \A k \in DOMAIN dlq' : dlq'[k] \in DOMAIN queue
      BY <1>2, <2>0, <3>3, <3>4
    <3>7. ASSUME NEW i \in DOMAIN queue, queue'[i].status = "failed"
          PROVE  \E k \in DOMAIN dlq' : dlq'[k] = i
      <4>1. CASE i = h
        BY <3>3, <3>5, <4>1
      <4>2. CASE i # h
        BY <1>8, <2>0, <3>3, <3>7, <4>2
      <4> QED BY <4>1, <4>2
    <3> QED BY <1>8, <3>3, <3>6, <3>7 DEF KeptInv
  <2>2. CASE ~gone
    <3>1. dlq' = dlq
      BY <1>5, <2>2 DEF MarkWebhookDelivery
    <3>2. x.status # "failed"
      BY <1>7, <2>2
    <3> QED BY <1>8, <2>0, <3>1, <3>2 DEF KeptInv
  <2> QED BY <2>1, <2>2
<1>13. ASSUME NEW i \in DOMAIN queue, i # h PROVE CountInv(i)'
  <2>1. CountInv(i) /\ queue'[i] = queue[i]
    BY <1>8, <1>13 DEF DeliveryInv
  <2>2. ~InFlight(i) /\ ~InFlight(i)'
    BY <1>0, <1>9, <1>13 DEF InFlight
  <2>3. Settled(i)' = Settled(i)
    BY <2>1, <2>2 DEF Settled
  <2> QED BY <2>1, <2>3 DEF CountInv, Queued
<1>14. CountInv(h)'
  <2> DEFINE a == queue[h].attempts
             s == Settled(h)
             r == queue[h].retries
  <2>1. InFlight(h) /\ ~InFlight(h)'
    BY <1>0, <1>1, <1>9 DEF InFlight
  <2>2. s = queue[h].posts - 1 /\ Settled(h)' = x.posts
    BY <1>8, <2>1 DEF Settled
  <2>3. Settled(h)' = s + 1
    BY <1>3, <1>7, <2>2
  <2>4. /\ a \in Nat /\ s \in Int /\ r \in Nat /\ a <= s /\ s < MaxAttempts + r
        /\ a + 1 < MaxAttempts => s = a
    BY <1>2, <1>3 DEF CountInv
  <2> HIDE DEF s
  <2>5. /\ a <= s + 1 /\ s + 1 <= MaxAttempts + r /\ a + 1 <= s + 1
        /\ a + 1 + 1 < MaxAttempts => s + 1 = a + 1
        /\ a + 1 < MaxAttempts => s + 1 < MaxAttempts + r
    BY <2>4, SettleCounts
  <2>6. gone => ~(a + 1 < MaxAttempts)
    BY <2>4, MemoryAssumption
  <2>7. ~gone /\ worker.answer # "ok" => a + 1 < MaxAttempts
    <3>1. worker.answer \in {"none", "ok", "error"}
      BY WorkerFields DEF DeliveryInv, BatchInv
    <3> QED BY <1>1, <2>4, <3>1, MemoryAssumption
  <2> HIDE DEF gone
  <2>8. CASE gone
    <3>1. x.status = "failed" /\ x.attempts = a
      BY <1>7, <2>8
    <3> QED BY <1>7, <1>8, <2>3, <2>5, <2>6, <2>8, <3>1 DEF CountInv, Queued
  <2>9. CASE ~gone
    <3>1. x.attempts = a + 1 /\ (x.status = "retry" => worker.answer # "ok")
          /\ x.status \in {"retry", "delivered"}
      BY <1>7, <2>9
    <3> QED BY <1>7, <1>8, <2>3, <2>5, <2>7, <2>9, <3>1 DEF CountInv, Queued
  <2> QED BY <2>8, <2>9
<1> QED BY <1>8, <1>11, <1>12, <1>13, <1>14 DEF DeliveryInv

LEMMA DeliveryStep == ASSUME RequestInv, DeliveryInv, [Next]_vars PROVE DeliveryInv'
<1>1. DeliveryChange
  BY NextDeliveryChange
<1>2. ASSUME UNCHANGED <<queue, dlq, worker>> PROVE DeliveryInv'
  BY <1>2 DEF DeliveryInv, BatchInv, KeptInv, CountInv, Settled, InFlight, Queued
<1> QED BY <1>1, <1>2, EnqueueKeeps, RetryKeeps, FetchKeeps, PostKeeps, SettleKeeps
        DEF DeliveryChange

LEMMA DeliveryInit == Init => DeliveryInv
<1> SUFFICES ASSUME Init PROVE DeliveryInv
  OBVIOUS
<1>1. queue = <<>> /\ dlq = <<>> /\ worker = [batch |-> <<>>, answer |-> "none"]
  BY DEF Init, StoreInit
<1>2. worker \in WorkerType /\ worker.batch = <<>> /\ worker.answer = "none"
  BY <1>1 DEF WorkerType
<1> QED BY <1>1, <1>2 DEF DeliveryInv, BatchInv, KeptInv

LEMMA DeliveryAlways == Spec => [](HandlerInv /\ DeliveryInv)
<1>1. HandlerInv /\ DeliveryInv /\ [Next]_vars => DeliveryInv'
  BY DeliveryStep DEF HandlerInv
<1> QED BY <1>1, DeliveryInit, HandlerAlways, PTL DEF Spec

\* A receiver is sent a delivery at most MaxAttempts times, and once more for each
\* retry the administrator asked for, whenever the requests for a retry come while
\* the worker is at its batch; a delivery given up is in the dead letters.
THEOREM PostsAreBounded == Spec => []PostsBounded
<1>1. DeliveryInv => PostsBounded
  <2> SUFFICES ASSUME DeliveryInv, NEW i \in DOMAIN queue
               PROVE  /\ queue[i].posts <= MaxAttempts + queue[i].retries
                      /\ queue[i].status = "failed" => \E k \in DOMAIN dlq : dlq[k] = i
    BY DEF PostsBounded
  <2>1. queue[i].status = "failed" => \E k \in DOMAIN dlq : dlq[k] = i
    BY DEF DeliveryInv, KeptInv
  <2>2. /\ queue[i].posts \in Nat /\ queue[i].retries \in Nat /\ CountInv(i)
    BY DeliveryFacts
  <2>3. CASE InFlight(i)
    <3>1. worker.batch # <<>>
      BY <2>3 DEF InFlight, DeliveryInv, BatchInv
    <3>2. Queued(i)
      BY <2>3, <3>1, HeadFacts DEF InFlight
    <3>3. queue[i].posts - 1 < MaxAttempts + queue[i].retries
      BY <2>2, <2>3, <3>2 DEF CountInv, Settled
    <3> QED BY <2>1, <2>2, <3>3, MemoryAssumption
  <2>4. CASE ~InFlight(i)
    BY <2>1, <2>2, <2>4 DEF CountInv, Settled
  <2> QED BY <2>3, <2>4
<1> QED BY <1>1, DeliveryAlways, PTL

----------------------------------------------------------------------------
(* Pages *)

WalkType ==
    [pc : {"idle", "walking", "done"}, list : Collections, cursor : Nat,
     seen : Seq(Nat), present : SUBSET Nat, lost : BOOLEAN]

\* What a walk at cursor has seen of a list ids: whatever is still there is listed, and
\* was seen up to the cursor.
Covered(ids, cursor, seen, present) ==
    /\ \A x \in present : \E i \in DOMAIN ids : ids[i] = x
    /\ \A x \in present : x <= cursor => \E i \in DOMAIN seen : seen[i] = x

\* As long as the item of its cursor was not deleted, it has seen every item once and
\* in order.
Ascending(ids, cursor, seen) ==
    /\ cursor # NoCursor => \E i \in DOMAIN ids : ids[i] = cursor
    /\ \A i \in DOMAIN seen : seen[i] <= cursor
    /\ \A i, j \in DOMAIN seen : i < j => seen[i] < seen[j]

WalkInv ==
    /\ walk \in WalkType
    /\ walk.pc = "idle" => walk.seen = <<>> /\ walk.cursor = NoCursor
    /\ walk.pc = "walking" =>
        /\ Covered(lists[walk.list], walk.cursor, walk.seen, walk.present)
        /\ ~walk.lost => Ascending(lists[walk.list], walk.cursor, walk.seen)
    /\ walk.pc = "done" =>
        /\ \A x \in walk.present : \E i \in DOMAIN walk.seen : walk.seen[i] = x
        /\ ~walk.lost => \A i, j \in DOMAIN walk.seen : i < j => walk.seen[i] < walk.seen[j]

----------------------------------------------------------------------------
(* The pages, step by step *)

\* A page starts after the item of the cursor, or at the first item when there is
\* none; the last page ends with the list, any other with the item of the next cursor.
PageBounds(ids, cursor, page, start, end) ==
    /\ start \in Nat \ {0} /\ end \in Nat /\ start <= end + 1 /\ end <= Len(ids)
    /\ page.items = SubSeq(ids, start, end)
    /\ start = 1 \/ ids[start - 1] = cursor
    /\ (\E i \in DOMAIN ids : ids[i] = cursor) => start # 1
    /\ page.next = NoCursor => end = Len(ids)
    /\ page.next # NoCursor => end # 0 /\ page.next = ids[end]

LEMMA PageFacts ==
    ASSUME NEW c, NEW cursor, lists[c] \in Seq(Nat),
           \A i \in DOMAIN lists[c] : lists[c][i] # 0
    PROVE  \E start, end : PageBounds(lists[c], cursor, ListPage(c, cursor), start, end)
<1> DEFINE ids == lists[c]
           start == PageStart(ids, cursor)
           end == PageEnd(ids, start)
           items == SubSeq(ids, start, end)
           more == IF c = "subscriptions" THEN end < Len(ids) ELSE Len(items) = Limit
           page == ListPage(c, cursor)
<1>0. ids \in Seq(Nat) /\ Len(ids) \in Nat /\ DOMAIN ids = 1 .. Len(ids)
      /\ \A i \in 1 .. Len(ids) : ids[i] # 0
  OBVIOUS
<1>1. page.items = items /\ page.next = IF more THEN ids[end] ELSE NoCursor
  BY DEF ListPage
<1> HIDE DEF page, ids
<1>2. /\ start \in 1 .. Len(ids) + 1 /\ (start = 1 \/ ids[start - 1] = cursor)
      /\ (\E i \in DOMAIN ids : ids[i] = cursor) => start # 1
  <2>1. CASE \E i \in DOMAIN ids : ids[i] = cursor
    <3> DEFINE p == CHOOSE i \in DOMAIN ids : ids[i] = cursor
    <3>1. p \in DOMAIN ids /\ ids[p] = cursor
      BY <2>1
    <3>2. start = p + 1
      BY <2>1 DEF PageStart
    <3> HIDE DEF p, start, end, items, more
    <3>3. start \in 1 .. Len(ids) + 1 /\ start - 1 = p /\ start # 1
      BY <1>0, <3>1, <3>2
    <3> QED BY <3>1, <3>3
  <2>2. CASE ~\E i \in DOMAIN ids : ids[i] = cursor
    <3>1. start = 1
      BY <2>2 DEF PageStart
    <3>2. 1 \in 1 .. Len(ids) + 1
      BY <1>0
    <3> HIDE DEF start
    <3> QED BY <2>2, <3>1, <3>2
  <2> QED BY <2>1, <2>2
<1> HIDE DEF start
<1>3. /\ end \in Nat /\ start <= end + 1 /\ end <= Len(ids)
      /\ end = Len(ids) \/ (end = start + Limit - 1 /\ end < Len(ids))
  BY <1>0, <1>2, MemoryAssumption DEF PageEnd
<1> HIDE DEF end
<1>4. Len(items) = end - start + 1
  <2>1. start \in 1 .. Len(ids) + 1 /\ end \in start - 1 .. Len(ids)
    BY <1>0, <1>2, <1>3
  <2>2. Len(SubSeq(ids, start, end)) = IF start <= end THEN end - start + 1 ELSE 0
    <3>0. Len(ids) \in Nat
      BY <1>0
    <3>1. start \in Int /\ end \in Int /\ \A i \in start .. end : i \in 1 .. Len(ids)
      BY <2>1, <3>0
    <3>2. \A i \in start .. end : ids[i] \in Nat
      BY <1>0, <3>1
    <3> QED BY <3>1, <3>2, SubSeqProperties
  <2> QED BY <1>2, <1>3, <2>1, <2>2
<1> HIDE DEF items
<1>5. more => end # 0
  <2>1. CASE c = "subscriptions"
    BY <1>2, <1>3, <2>1, MemoryAssumption
  <2>2. CASE c # "subscriptions"
    BY <1>2, <1>3, <1>4, <2>2, MemoryAssumption
  <2> QED BY <2>1, <2>2
<1>6. ~more => end = Len(ids)
  <2>1. CASE c = "subscriptions"
    BY <1>0, <1>3, <2>1
  <2>2. CASE c # "subscriptions"
    <3>1. end = start + Limit - 1 => Len(items) = Limit
      BY <1>2, <1>3, <1>4, MemoryAssumption
    <3> QED BY <1>3, <2>2, <3>1
  <2> QED BY <2>1, <2>2
<1> HIDE DEF more
<1>7. more => ids[end] # NoCursor
  <2>1. more => end \in 1 .. Len(ids)
    <3>1. end \in Nat /\ Len(ids) \in Nat /\ end <= Len(ids)
      BY <1>0, <1>3
    <3> QED BY <1>5, <3>1
  <2> QED BY <1>0, <2>1 DEF NoCursor
<1>8. /\ page.next = NoCursor => end = Len(ids)
      /\ page.next # NoCursor => end # 0 /\ page.next = ids[end]
  BY <1>1, <1>5, <1>6, <1>7
<1>9. start \in Nat \ {0}
  BY <1>0, <1>2
<1>10. PageBounds(ids, cursor, page, start, end)
  BY <1>1, <1>2, <1>3, <1>8, <1>9 DEF PageBounds, items
<1> QED BY <1>10 DEF ids, page

LEMMA WalkFields ==
    ASSUME NEW w \in WalkType
    PROVE  /\ w.pc \in {"idle", "walking", "done"} /\ w.list \in Collections
           /\ w.cursor \in Nat /\ w.seen \in Seq(Nat) /\ w.present \in SUBSET Nat
           /\ w.lost \in BOOLEAN
  BY DEF WalkType

\* A page goes on where the list was left.
LEMMA PageExtends ==
    ASSUME NEW ids \in Seq(Nat),
           \A i \in DOMAIN ids : ids[i] # 0,
           \A i, j \in DOMAIN ids : i < j => ids[i] < ids[j],
           NEW cursor \in Nat, NEW seen \in Seq(Nat), NEW present \in SUBSET Nat,
           Covered(ids, cursor, seen, present),
           NEW page, NEW start, NEW end, PageBounds(ids, cursor, page, start, end)
    PROVE  /\ page.items \in Seq(Nat) /\ page.next \in Nat
           /\ page.next # NoCursor => Covered(ids, page.next, seen \o page.items, present)
           /\ page.next = NoCursor =>
                \A x \in present : \E i \in DOMAIN (seen \o page.items) :
                    (seen \o page.items)[i] = x
           /\ Ascending(ids, cursor, seen) =>
                /\ page.next # NoCursor => Ascending(ids, page.next, seen \o page.items)
                /\ \A i, j \in DOMAIN (seen \o page.items) :
                     i < j => (seen \o page.items)[i] < (seen \o page.items)[j]
<1> DEFINE items == page.items
           all == seen \o items
           n == Len(seen)
           m == end - start + 1
<1>1. /\ Len(ids) \in Nat /\ DOMAIN ids = 1 .. Len(ids)
      /\ \A i \in 1 .. Len(ids) : ids[i] \in Nat /\ ids[i] # 0
      /\ n \in Nat /\ DOMAIN seen = 1 .. n /\ \A i \in 1 .. n : seen[i] \in Nat
  OBVIOUS
<1>2. /\ start \in Nat \ {0} /\ end \in Nat /\ start <= end + 1 /\ end <= Len(ids)
      /\ items = SubSeq(ids, start, end)
      /\ start = 1 \/ ids[start - 1] = cursor
      /\ (\E i \in DOMAIN ids : ids[i] = cursor) => start # 1
      /\ page.next = NoCursor => end = Len(ids)
      /\ page.next # NoCursor => end # 0 /\ page.next = ids[end]
  BY DEF PageBounds
<1>a. start \in Nat \ {0} /\ end \in Nat /\ start <= end + 1 /\ end <= Len(ids) /\ Len(ids) \in Nat
  BY <1>1, <1>2
<1>3. m \in Nat /\ \A k \in 1 .. m : start + k - 1 \in 1 .. Len(ids) /\ start + k - 1 \in start .. end
  BY <1>a
<1>4. /\ items \in Seq(Nat) /\ Len(items) = m
      /\ \A k \in 1 .. m : items[k] = ids[start + k - 1]
  <2>1. \A i \in start .. end : ids[i] \in Nat
    <3>1. \A i \in start .. end : i \in 1 .. Len(ids)
      BY <1>a
    <3> QED BY <1>1, <3>1
  <2>2. /\ SubSeq(ids, start, end) \in Seq(Nat)
        /\ Len(SubSeq(ids, start, end)) = IF start <= end THEN end - start + 1 ELSE 0
        /\ \A k \in 1 .. end - start + 1 : SubSeq(ids, start, end)[k] = ids[start + k - 1]
    BY <1>a, <2>1, SubSeqProperties
  <2>3. (IF start <= end THEN end - start + 1 ELSE 0) = m
    BY <1>a
  <2> QED BY <1>2, <2>2, <2>3
<1> HIDE DEF items, m
<1>5. /\ all \in Seq(Nat) /\ Len(all) = n + m /\ DOMAIN all = 1 .. n + m
      /\ \A i \in 1 .. n : all[i] = seen[i]
      /\ \A k \in 1 .. m : all[n + k] = items[k]
  <2>1. /\ all \in Seq(Nat) /\ Len(all) = Len(seen) + Len(items)
        /\ \A i \in 1 .. Len(seen) + Len(items) :
             all[i] = IF i <= Len(seen) THEN seen[i] ELSE items[i - Len(seen)]
    BY <1>4, ConcatProperties
  <2> HIDE DEF all
  <2>2. DOMAIN all = 1 .. Len(all)
    BY <2>1
  <2>3. n \in Nat /\ m \in Nat /\ Len(items) = m /\ Len(seen) = n
    BY <1>1, <1>3, <1>4
  <2> HIDE DEF n
  <2>4. ASSUME NEW i \in 1 .. n PROVE all[i] = seen[i]
    <3>1. i \in 1 .. n + m /\ i <= n
      BY <2>3
    <3> QED BY <2>1, <2>3, <3>1
  <2>5. ASSUME NEW k \in 1 .. m PROVE all[n + k] = items[k]
    <3>1. n + k \in 1 .. n + m /\ ~(n + k <= n) /\ n + k - n = k
      BY <2>3
    <3> QED BY <2>1, <2>3, <3>1
  <2> QED BY <2>1, <2>2, <2>3, <2>4, <2>5
<1>6. page.next \in Nat
  <2>1. page.next # NoCursor => end \in 1 .. Len(ids)
    <3>1. end # 0 => end \in 1 .. Len(ids)
      BY <1>a
    <3> QED BY <1>2, <3>1
  <2>2. CASE page.next = NoCursor
    BY <2>2 DEF NoCursor
  <2>3. CASE page.next # NoCursor
    <3>1. end \in 1 .. Len(ids) /\ page.next = ids[end]
      BY <1>2, <2>1, <2>3
    <3> QED BY <1>1, <3>1
  <2> QED BY <2>2, <2>3
<1> HIDE DEF all, n
\* Every item of the list up to the end of the page is seen, if it was present.
<1>7. ASSUME NEW p \in 1 .. end, ids[p] \in present
      PROVE  \E i \in DOMAIN all : all[i] = ids[p]
  <2>1. CASE start <= p
    <3>1. p - start + 1 \in 1 .. m /\ start + (p - start + 1) - 1 = p
      BY <1>a, <2>1 DEF m
    <3>2. items[p - start + 1] = ids[p]
      BY <1>4, <3>1
    <3>3. n + (p - start + 1) \in 1 .. n + m
      BY <1>1, <1>3, <3>1
    <3> QED BY <1>5, <3>1, <3>2, <3>3
  <2>2. CASE p < start
    <3>0. start # 1 /\ p \in 1 .. Len(ids) /\ start - 1 \in 1 .. Len(ids) /\ p <= start - 1
      BY <1>a, <2>2
    <3>1. ids[start - 1] = cursor
      BY <1>2, <3>0
    <3>2. ids[p] <= cursor
      <4>1. CASE p = start - 1
        BY <1>1, <3>0, <3>1, <4>1
      <4>2. CASE p < start - 1
        <5>1. ids[p] < ids[start - 1]
          BY <1>1, <3>0, <4>2
        <5>2. ids[p] \in Nat
          BY <1>1, <3>0
        <5> QED BY <3>1, <5>1, <5>2
      <4> QED BY <1>a, <3>0, <4>1, <4>2
    <3>3. PICK i \in DOMAIN seen : seen[i] = ids[p]
      BY <1>7, <3>2 DEF Covered
    <3>4. i \in 1 .. n /\ i \in 1 .. n + m
      BY <1>1, <1>3
    <3> QED BY <1>5, <3>3, <3>4
  <2> QED BY <1>a, <2>1, <2>2
<1>8. ASSUME page.next # NoCursor PROVE Covered(ids, page.next, all, present)
  <2>1. end \in 1 .. Len(ids) /\ page.next = ids[end]
    <3>1. end # 0 /\ page.next = ids[end]
      BY <1>2, <1>8
    <3> QED BY <1>a, <3>1
  <2>2. ASSUME NEW x \in present, x <= page.next PROVE \E i \in DOMAIN all : all[i] = x
    <3>1. PICK p \in 1 .. Len(ids) : ids[p] = x
      BY <1>1 DEF Covered
    <3>2. p <= end
      <4> SUFFICES ASSUME end < p PROVE FALSE
        BY <1>a
      <4>1. ids[end] < ids[p]
        BY <1>1, <2>1
      <4>2. ids[end] \in Nat /\ ids[p] \in Nat
        BY <1>1, <2>1
      <4>3. ids[p] <= ids[end]
        BY <2>1, <2>2, <3>1
      <4> QED BY <4>1, <4>2, <4>3
    <3>3. p \in 1 .. end
      BY <1>a, <3>2
    <3> QED BY <1>7, <3>1, <3>3
  <2>3. \A x \in present : \E i \in DOMAIN ids : ids[i] = x
    BY DEF Covered
  <2> QED BY <2>2, <2>3 DEF Covered
<1>9. ASSUME page.next = NoCursor, NEW x \in present PROVE \E i \in DOMAIN all : all[i] = x
  <2>1. PICK p \in 1 .. Len(ids) : ids[p] = x
    BY <1>1 DEF Covered
  <2>2. end = Len(ids)
    BY <1>2, <1>9
  <2> QED BY <1>7, <2>1, <2>2
\* The items of the page lie behind the cursor, and ascend.
<1>10. ASSUME Ascending(ids, cursor, seen)
       PROVE  /\ \A k \in 1 .. m : cursor < items[k] /\ items[k] \in Nat
              /\ \A k, l \in 1 .. m : k < l => items[k] < items[l]
  <2>1. ASSUME NEW k \in 1 .. m PROVE cursor < items[k] /\ items[k] \in Nat
    <3>1. start + k - 1 \in 1 .. Len(ids) /\ items[k] = ids[start + k - 1]
      BY <1>3, <1>4
    <3>2. ids[start + k - 1] \in Nat /\ ids[start + k - 1] # 0
      BY <1>1, <3>1
    <3>3. CASE start = 1
      <4>1. ~\E i \in DOMAIN ids : ids[i] = cursor
        BY <1>2, <3>3
      <4>2. cursor = 0
        BY <1>10, <4>1 DEF Ascending, NoCursor
      <4> QED BY <3>1, <3>2, <4>2
    <3>4. CASE start # 1
      <4>1. ids[start - 1] = cursor
        BY <1>2, <3>4
      <4>2. start - 1 \in 1 .. Len(ids) /\ start - 1 < start + k - 1
        BY <1>a, <1>3, <3>4
      <4>3. ids[start - 1] < ids[start + k - 1]
        BY <1>1, <3>1, <4>2
      <4> QED BY <3>1, <3>2, <4>1, <4>3
    <3> QED BY <3>3, <3>4
  <2>2. ASSUME NEW k \in 1 .. m, NEW l \in 1 .. m, k < l PROVE items[k] < items[l]
    <3>1. start + k - 1 < start + l - 1
      BY <1>a, <1>3, <2>2
    <3>2. /\ start + k - 1 \in DOMAIN ids /\ start + l - 1 \in DOMAIN ids
          /\ items[k] = ids[start + k - 1] /\ items[l] = ids[start + l - 1]
      BY <1>1, <1>3, <1>4
    <3>3. ids[start + k - 1] < ids[start + l - 1]
      BY <3>1, <3>2
    <3> QED BY <3>2, <3>3
  <2> QED BY <2>1, <2>2
<1>11. ASSUME Ascending(ids, cursor, seen), NEW i \in DOMAIN all, NEW j \in DOMAIN all, i < j
       PROVE  all[i] < all[j]
  <2>0. i \in 1 .. n + m /\ j \in 1 .. n + m /\ n \in Nat /\ m \in Nat
    BY <1>1, <1>3, <1>5
  <2>1. CASE j <= n
    <3>1. i \in 1 .. n /\ j \in 1 .. n
      BY <1>11, <2>0, <2>1
    <3> QED BY <1>1, <1>5, <1>11, <3>1 DEF Ascending
  <2>2. CASE n < j
    <3>1. j - n \in 1 .. m /\ n + (j - n) = j
      BY <2>0, <2>2
    <3>2. all[j] = items[j - n] /\ cursor < items[j - n] /\ items[j - n] \in Nat
      BY <1>5, <1>10, <1>11, <3>1
    <3>3. CASE i <= n
      <4>1. i \in 1 .. n
        BY <2>0, <3>3
      <4>2. all[i] = seen[i] /\ seen[i] \in Nat /\ seen[i] <= cursor
        BY <1>1, <1>5, <1>11, <4>1 DEF Ascending
      <4> QED BY <3>2, <4>2
    <3>4. CASE n < i
      <4>1. i - n \in 1 .. m /\ n + (i - n) = i /\ i - n < j - n
        BY <1>11, <2>0, <3>4
      <4>2. all[i] = items[i - n]
        BY <1>5, <4>1
      <4> QED BY <1>10, <1>11, <3>1, <3>2, <4>1, <4>2
    <3> QED BY <2>0, <3>3, <3>4
  <2> QED BY <2>0, <2>1, <2>2
<1>12. ASSUME Ascending(ids, cursor, seen), page.next # NoCursor
       PROVE  Ascending(ids, page.next, all)
  <2>1. end \in 1 .. Len(ids) /\ page.next = ids[end]
    <3>1. end # 0 /\ page.next = ids[end]
      BY <1>2, <1>12
    <3> QED BY <1>a, <3>1
  <2>2. cursor <= page.next
    <3>1. CASE start = 1
      <4>1. ~\E i \in DOMAIN ids : ids[i] = cursor
        BY <1>2, <3>1
      <4>2. cursor = 0
        BY <1>12, <4>1 DEF Ascending, NoCursor
      <4> QED BY <1>6, <4>2
    <3>2. CASE start # 1
      <4>1. ids[start - 1] = cursor /\ start - 1 \in 1 .. Len(ids) /\ start - 1 <= end
        BY <1>2, <1>a, <3>2
      <4>2. CASE start - 1 = end
        BY <2>1, <4>1, <4>2
      <4>3. CASE start - 1 < end
        <5>1. ids[start - 1] < ids[end]
          BY <1>1, <2>1, <4>1, <4>3
        <5> QED BY <1>6, <2>1, <4>1, <5>1
      <4> QED BY <1>a, <4>1, <4>2, <4>3
    <3> QED BY <3>1, <3>2
  <2>3. ASSUME NEW i \in DOMAIN all PROVE all[i] <= page.next
    <3>0. i \in 1 .. n + m /\ n \in Nat /\ m \in Nat
      BY <1>1, <1>3, <1>5
    <3>1. CASE i <= n
      <4>1. i \in 1 .. n
        BY <3>0, <3>1
      <4>2. all[i] = seen[i] /\ seen[i] \in Nat /\ seen[i] <= cursor
        BY <1>1, <1>5, <1>12, <4>1 DEF Ascending
      <4> QED BY <1>6, <2>2, <4>2
    <3>2. CASE n < i
      <4>1. i - n \in 1 .. m /\ n + (i - n) = i
        BY <3>0, <3>2
      <4>2. all[i] = ids[start + (i - n) - 1]
        BY <1>4, <1>5, <4>1
      <4>3. PICK p : p = start + (i - n) - 1
        OBVIOUS
      <4>4. p \in 1 .. Len(ids) /\ p \in start .. end
        BY <1>3, <4>1, <4>3
      <4>5. p = end \/ p < end
        BY <1>a, <4>4
      <4>6. ids[p] \in Nat /\ (p < end => ids[p] < ids[end])
        BY <1>1, <2>1, <4>4
      <4> QED BY <1>6, <2>1, <4>2, <4>3, <4>5, <4>6
    <3> QED BY <3>0, <3>1, <3>2
  <2>4. \E i \in DOMAIN ids : ids[i] = page.next
    BY <1>1, <2>1
  <2> QED BY <1>11, <1>12, <2>3, <2>4 DEF Ascending
<1> QED BY <1>4, <1>6, <1>8, <1>9, <1>11, <1>12 DEF all, items

\* Which steps change the walk or the lists.
LEMMA NextWalkChange ==
    ASSUME [Next]_vars
    PROVE  \/ UNCHANGED <<walk, lists>>
           \/ /\ UNCHANGED walk
              /\ \E c \in Collections : \E x : lists' = [lists EXCEPT ![c] = Append(@, x)]
           \/ \E c \in Collections : \E x : DeleteHandler(c, x)
           \/ \E c \in Collections : StartWalk(c)
           \/ NextPage
<1> DEFINE Goal == \/ UNCHANGED <<walk, lists>>
                   \/ /\ UNCHANGED walk
                      /\ \E c \in Collections : \E x : lists' = [lists EXCEPT ![c] = Append(@, x)]
                   \/ \E c \in Collections : \E x : DeleteHandler(c, x)
                   \/ \E c \in Collections : StartWalk(c)
                   \/ NextPage
<1> SUFFICES Goal
  OBVIOUS
<1> USE DEF store
<1>1. ASSUME NEW r \in Routes, OptimizeHandler(r) PROVE Goal
  BY <1>1 DEF OptimizeHandler, PlanRoutes, Collections
<1>2. ASSUME NEW r \in Routes, PatchRouteHandler(r) PROVE Goal
  BY <1>2 DEF PatchRouteHandler, PatchRoute
<1>3. ASSUME NEW r \in Routes, NEW d \in Drivers, AssignHandler(r, d) PROVE Goal
  BY <1>3 DEF AssignHandler, AssignRoute
<1>4. ASSUME NEW c \in {"orders", "geofences", "subscriptions"}, CreateHandler(c) PROVE Goal
  BY <1>4 DEF CreateHandler, Create, Collections
<1>5. ASSUME NEW c \in {"geofences", "subscriptions"}, NEW x, DeleteHandler(c, x) PROVE Goal
  <2>1. c \in Collections
    BY DEF Collections
  <2> QED BY <1>5, <2>1
<1>6. ASSUME NEW i, WebhookDeliveryRetryHandler(i) PROVE Goal
  BY <1>6 DEF WebhookDeliveryRetryHandler, RetryWebhookDelivery
<1>7. ASSUME NEW q \in Requests, NEW r \in Routes, AdvanceHandler(q, r) PROVE Goal
  BY <1>7 DEF AdvanceHandler, AdvanceRoute
<1>8. ASSUME NEW q \in Requests, NEW events, DriverEventsHandler(q, events) PROVE Goal
  BY <1>8 DEF DriverEventsHandler
<1>9. ASSUME NEW q \in Requests, NEW d, NEW action, DriversHandler(q, d, action) PROVE Goal
  BY <1>9 DEF DriversHandler, UpdateHOS
<1>10. ASSUME NEW q \in Requests, HandlerStep(q) PROVE Goal
  BY <1>10 DEF HandlerStep, TryEvent, AdvanceRoute, ListDriverRoutes, PublishEvent,
               EmitLookup, EmitEnqueue, EnqueueWebhook, Answer
<1>11. ASSUME NEW elapsed, FetchDeliveries(elapsed) PROVE Goal
  BY <1>11 DEF FetchDeliveries
<1>12. CASE PostDelivery \/ SettleDelivery
  BY <1>12 DEF PostDelivery, SettleDelivery, FailWebhookDelivery, MarkWebhookDelivery
<1>13. CASE SessionStep \/ ProcessDies \/ PostPanics
  BY <1>13 DEF SessionStep, ProcessDies, PostPanics
<1>14. CASE UNCHANGED vars
  BY <1>14 DEF vars
<1> QED
  BY <1>1, <1>2, <1>3, <1>4, <1>5, <1>6, <1>7, <1>8, <1>9, <1>10, <1>11, <1>12, <1>13,
     <1>14 DEF Next

\* A list that loses nothing leaves a walk as good as it was.
LEMMA WalkStays ==
    ASSUME WalkInv, UNCHANGED walk,
           \A c \in Collections : \A i \in DOMAIN lists[c] :
                \E j \in DOMAIN lists'[c] : lists'[c][j] = lists[c][i]
    PROVE  WalkInv'
<1>1. walk.list \in Collections
  BY WalkFields DEF WalkInv
<1>2. \A x : (\E i \in DOMAIN lists[walk.list] : lists[walk.list][i] = x)
           => \E j \in DOMAIN lists'[walk.list] : lists'[walk.list][j] = x
  BY <1>1
<1>3. ASSUME Covered(lists[walk.list], walk.cursor, walk.seen, walk.present)
      PROVE  Covered(lists'[walk.list], walk.cursor, walk.seen, walk.present)
  BY <1>2, <1>3 DEF Covered
<1>4. ASSUME Ascending(lists[walk.list], walk.cursor, walk.seen)
      PROVE  Ascending(lists'[walk.list], walk.cursor, walk.seen)
  BY <1>2, <1>4 DEF Ascending
<1> QED BY <1>3, <1>4 DEF WalkInv

\* Deleting an item removes it from what the walk must show, and is noted when it is
\* the item of the cursor.
LEMMA DeleteKeepsWalk ==
    ASSUME ListInv, WalkInv, NEW c \in Collections, NEW x, DeleteHandler(c, x)
    PROVE  WalkInv'
<1> DEFINE l == lists[c]
           S == {i \in DOMAIN l : l[i] # x}
<1>1. l \in Seq(Nat) /\ S \in SUBSET DOMAIN l
  BY DEF ListInv
<1>2. lists'[c] = Subsequence(l, S) /\ \A d \in Collections \ {c} : lists'[d] = lists[d]
  BY DEF DeleteHandler, Delete, ListInv
<1>3. ASSUME NEW i \in DOMAIN l, l[i] # x
      PROVE  \E j \in DOMAIN lists'[c] : lists'[c][j] = l[i]
  <2>1. /\ Subsequence(l, S) \in Seq(Nat) /\ Len(Subsequence(l, S)) = Cardinality(S)
        /\ \A n \in S : \E k \in 1 .. Cardinality(S) : Subsequence(l, S)[k] = l[n]
    <3> HIDE DEF S, l
    <3> QED BY <1>1, SubsequenceFacts
  <2>2. i \in S
    BY <1>3
  <2> HIDE DEF S, l
  <2>3. DOMAIN Subsequence(l, S) = 1 .. Cardinality(S)
    BY <2>1
  <2> QED BY <1>2, <2>1, <2>2, <2>3
<1>4. walk \in WalkType /\ walk.list \in Collections
  BY WalkFields DEF WalkInv
<1>5. CASE walk.pc = "walking" /\ walk.list = c
  <2> DEFINE lost == walk.lost \/ walk.cursor = x
             present == walk.present \ {x}
  <2>1. walk' = [walk EXCEPT !.present = present, !.lost = lost]
    BY <1>5 DEF DeleteHandler
  <2>2. present \in SUBSET Nat /\ lost \in BOOLEAN
    BY <1>4, WalkFields
  <2>3. /\ Covered(l, walk.cursor, walk.seen, walk.present)
        /\ ~walk.lost => Ascending(l, walk.cursor, walk.seen)
    BY <1>5 DEF WalkInv
  <2>4. Covered(lists'[c], walk.cursor, walk.seen, present)
    <3>1. ASSUME NEW y \in present PROVE \E j \in DOMAIN lists'[c] : lists'[c][j] = y
      <4>1. PICK i \in DOMAIN l : l[i] = y
        BY <2>3 DEF Covered
      <4> QED BY <1>3, <4>1
    <3> QED BY <2>3, <3>1 DEF Covered
  <2>5. ASSUME ~lost PROVE Ascending(lists'[c], walk.cursor, walk.seen)
    <3>1. ~walk.lost /\ walk.cursor # x
      BY <2>5
    <3>2. Ascending(l, walk.cursor, walk.seen)
      BY <2>3, <3>1
    <3>3. ASSUME walk.cursor # NoCursor
          PROVE  \E j \in DOMAIN lists'[c] : lists'[c][j] = walk.cursor
      <4>1. PICK i \in DOMAIN l : l[i] = walk.cursor
        BY <3>2, <3>3 DEF Ascending
      <4> QED BY <1>3, <3>1, <4>1
    <3> QED BY <3>2, <3>3 DEF Ascending
  <2> HIDE DEF lost, present
  <2>6. /\ walk' \in WalkType /\ walk'.pc = "walking" /\ walk'.list = c
        /\ walk'.cursor = walk.cursor /\ walk'.seen = walk.seen
        /\ walk'.present = present /\ walk'.lost = lost
    BY <1>4, <1>5, <2>1, <2>2 DEF WalkType
  <2> QED BY <2>4, <2>5, <2>6 DEF WalkInv
<1>6. CASE ~(walk.pc = "walking" /\ walk.list = c)
  <2>1. walk' = walk
    BY <1>6 DEF DeleteHandler
  <2>2. walk.pc = "walking" => lists'[walk.list] = lists[walk.list]
    BY <1>2, <1>4, <1>6
  <2> QED BY <2>1, <2>2 DEF WalkInv
<1> QED BY <1>5, <1>6

LEMMA StartKeepsWalk ==
    ASSUME ListInv, WalkInv, NEW c \in Collections, StartWalk(c)
    PROVE  WalkInv'
<1> DEFINE l == lists[c]
           present == {l[i] : i \in DOMAIN l}
<1>1. /\ walk.pc = "idle" /\ walk.seen = <<>> /\ walk.cursor = 0 /\ walk \in WalkType
      /\ lists' = lists
  BY DEF StartWalk, WalkInv, store, NoCursor
<1>2. walk' = [walk EXCEPT !.pc = "walking", !.list = c, !.present = present]
  BY DEF StartWalk
<1>3. l \in Seq(Nat) /\ \A i \in DOMAIN l : l[i] \in 1 .. created[c] /\ created[c] \in Nat
  BY DEF ListInv
<1>4. \A x \in present : x \in Nat /\ ~(x <= 0) /\ \E i \in DOMAIN l : l[i] = x
  <2>1. \A i \in DOMAIN l : l[i] \in Nat /\ ~(l[i] <= 0)
    BY <1>3
  <2> QED BY <2>1
<1> HIDE DEF present
<1>5. /\ walk' \in WalkType /\ walk'.pc = "walking" /\ walk'.list = c /\ walk'.cursor = 0
      /\ walk'.seen = <<>> /\ walk'.present = present
  BY <1>1, <1>2, <1>4 DEF WalkType
<1>6. Covered(l, 0, <<>>, present)
  BY <1>4 DEF Covered
<1>7. Ascending(l, 0, <<>>)
  BY DEF Ascending, NoCursor
<1> QED BY <1>1, <1>5, <1>6, <1>7 DEF WalkInv

LEMMA PageKeepsWalk == ASSUME ListInv, WalkInv, NextPage PROVE WalkInv'
<1> DEFINE ids == lists[walk.list]
           page == ListPage(walk.list, walk.cursor)
           all == walk.seen \o page.items
           pc == IF page.next = NoCursor THEN "done" ELSE "walking"
<1>1. /\ walk.pc = "walking" /\ walk \in WalkType /\ lists' = lists
      /\ Covered(ids, walk.cursor, walk.seen, walk.present)
      /\ ~walk.lost => Ascending(ids, walk.cursor, walk.seen)
  BY DEF NextPage, WalkInv, store
<1>2. /\ walk.list \in Collections /\ walk.cursor \in Nat /\ walk.seen \in Seq(Nat)
      /\ walk.present \in SUBSET Nat
  BY <1>1, WalkFields
<1>3. /\ ids \in Seq(Nat) /\ \A i \in DOMAIN ids : ids[i] # 0
      /\ \A i, j \in DOMAIN ids : i < j => ids[i] < ids[j]
  <2>1. /\ ids \in Seq(Nat) /\ created[walk.list] \in Nat
        /\ \A i \in DOMAIN ids : ids[i] \in 1 .. created[walk.list]
        /\ \A i, j \in DOMAIN ids : i < j => ids[i] < ids[j]
    BY <1>2 DEF ListInv
  <2> QED BY <2>1
<1>4. PICK start, end : PageBounds(ids, walk.cursor, page, start, end)
  BY <1>3, PageFacts
<1>5. walk' = [walk EXCEPT !.seen = all, !.cursor = page.next, !.pc = pc]
  BY DEF NextPage
<1> HIDE DEF page, ids
<1>6. /\ page.items \in Seq(Nat) /\ page.next \in Nat
      /\ page.next # NoCursor => Covered(ids, page.next, all, walk.present)
      /\ page.next = NoCursor =>
           \A x \in walk.present : \E i \in DOMAIN all : all[i] = x
      /\ Ascending(ids, walk.cursor, walk.seen) =>
           /\ page.next # NoCursor => Ascending(ids, page.next, all)
           /\ \A i, j \in DOMAIN all : i < j => all[i] < all[j]
  BY <1>1, <1>2, <1>3, <1>4, PageExtends
<1>7. all \in Seq(Nat)
  BY <1>2, <1>6, ConcatProperties
<1>8. pc \in {"done", "walking"} /\ (pc = "done" <=> page.next = NoCursor)
  OBVIOUS
<1> HIDE DEF pc, all
<1>9. /\ walk' \in WalkType /\ walk'.pc = pc /\ walk'.list = walk.list /\ walk'.seen = all
      /\ walk'.cursor = page.next /\ walk'.present = walk.present /\ walk'.lost = walk.lost
  BY <1>1, <1>5, <1>6, <1>7, <1>8 DEF WalkType
<1>10. lists'[walk'.list] = ids
  BY <1>1, <1>9 DEF ids
<1>11. CASE page.next = NoCursor
  BY <1>1, <1>6, <1>8, <1>9, <1>11 DEF WalkInv
<1>12. CASE page.next # NoCursor
  BY <1>1, <1>6, <1>8, <1>9, <1>10, <1>12 DEF WalkInv
<1> QED BY <1>11, <1>12

LEMMA WalkStep == ASSUME ListInv, WalkInv, [Next]_vars PROVE WalkInv'
<1>1. CASE UNCHANGED <<walk, lists>>
  BY <1>1 DEF WalkInv
<1>2. ASSUME UNCHANGED walk, NEW c \in Collections, NEW x,
             lists' = [lists EXCEPT ![c] = Append(@, x)]
      PROVE  WalkInv'
  <2>1. ASSUME NEW d \in Collections, NEW i \in DOMAIN lists[d]
        PROVE  \E j \in DOMAIN lists'[d] : lists'[d][j] = lists[d][i]
    <3>1. CASE d = c
      <4>1. lists[c] \in Seq(Nat) /\ lists'[c] = Append(lists[c], x)
        BY <1>2 DEF ListInv
      <4>2. i \in DOMAIN Append(lists[c], x) /\ Append(lists[c], x)[i] = lists[c][i]
        BY <3>1, <4>1
      <4> QED BY <3>1, <4>1, <4>2
    <3>2. CASE d # c
      BY <1>2, <3>2 DEF ListInv
    <3> QED BY <3>1, <3>2
  <2> QED BY <1>2, <2>1, WalkStays
<1> QED BY <1>1, <1>2, NextWalkChange, DeleteKeepsWalk, StartKeepsWalk, PageKeepsWalk

LEMMA WalkInit == Init => WalkInv
<1> SUFFICES ASSUME Init PROVE WalkInv
  OBVIOUS
<1>1. walk = [pc |-> "idle", list |-> "orders", cursor |-> NoCursor, seen |-> <<>>,
              present |-> {}, lost |-> FALSE]
  BY DEF Init
<1>2. "orders" \in Collections /\ NoCursor \in Nat /\ <<>> \in Seq(Nat)
  BY DEF Collections, NoCursor
<1>3. walk \in WalkType /\ walk.pc = "idle" /\ walk.seen = <<>> /\ walk.cursor = NoCursor
  BY <1>1, <1>2 DEF WalkType
<1> QED BY <1>3 DEF WalkInv

LEMMA WalkAlways == Spec => []WalkInv
<1>1. HandlerInv /\ WalkInv /\ [Next]_vars => WalkInv'
  BY WalkStep DEF HandlerInv
<1> QED BY <1>1, WalkInit, HandlerAlways, PTL DEF Spec

\* A sequence of ascending numbers has no number twice.
LEMMA AscendingDistinct ==
    ASSUME NEW s \in Seq(Nat), \A i, j \in DOMAIN s : i < j => s[i] < s[j]
    PROVE  Cardinality({s[i] : i \in DOMAIN s}) = Len(s)
<1> DEFINE T == {s[i] : i \in DOMAIN s}
<1>1. Len(s) \in Nat /\ DOMAIN s = 1 .. Len(s) /\ \A i \in 1 .. Len(s) : s[i] \in Nat
  OBVIOUS
<1>2. s \in [1 .. Len(s) -> T]
  BY <1>1
<1>3. \A i, j \in 1 .. Len(s) : s[i] = s[j] => i = j
  BY <1>1
<1>4. \A x \in T : \E i \in 1 .. Len(s) : s[i] = x
  BY <1>1
<1>5. ExistsBijection(1 .. Len(s), T)
  <2>1. DOMAIN s = 1 .. Len(s)
    BY <1>1
  <2> HIDE DEF T
  <2>2. s \in Bijection(1 .. Len(s), T)
    BY <1>2, <1>3, <1>4, <2>1 DEF Bijection, Injection, IsInjective, Surjection
  <2> QED BY <2>2 DEF ExistsBijection
<1> HIDE DEF T
<1> QED BY <1>1, <1>5, FS_CountingElements DEF T

\* A client that follows the cursors to the end has seen every item that was listed
\* all the time, whatever is created and deleted meanwhile, and sees an item twice only
\* if the item its cursor stood on was deleted.
THEOREM WalksAreComplete == Spec => []WalkComplete
<1>1. WalkInv => WalkComplete
  <2> SUFFICES ASSUME WalkInv, walk.pc = "done"
               PROVE  LET seen == {walk.seen[i] : i \in DOMAIN walk.seen} IN
                      /\ walk.present \subseteq seen
                      /\ Cardinality(seen) < Len(walk.seen) => walk.lost
    BY DEF WalkComplete
  <2>1. /\ \A x \in walk.present : \E i \in DOMAIN walk.seen : walk.seen[i] = x
        /\ ~walk.lost => \A i, j \in DOMAIN walk.seen : i < j => walk.seen[i] < walk.seen[j]
        /\ walk.seen \in Seq(Nat)
    BY WalkFields DEF WalkInv
  <2>2. ~walk.lost => Cardinality({walk.seen[i] : i \in DOMAIN walk.seen}) = Len(walk.seen)
    BY <2>1, AscendingDistinct
  <2>3. Len(walk.seen) \in Nat
    BY <2>1
  <2> QED BY <2>1, <2>2, <2>3
<1> QED BY <1>1, WalkAlways, PTL

----------------------------------------------------------------------------
(* Sessions *)

SockType ==
    [state : {"new", "refused", "open", "over"}, keepalive : BOOLEAN, aborted : BOOLEAN,
     subs : [Ids -> Nat], heard : SUBSET Routes]

ChanType ==
    [session : Sessions, id : Ids, route : Routes, field : Fields, buf : Seq(EventTypes),
     registered : BOOLEAN, closed : BOOLEAN, running : BOOLEAN, replaced : BOOLEAN]

\* An entry of a session's map leads to a channel of this session, made for this id
\* and still with the broker.
EntryInv(s, id) ==
    sock[s].subs[id] # NoChannel =>
        /\ sock[s].subs[id] \in DOMAIN chans
        /\ chans[sock[s].subs[id]].session = s /\ chans[sock[s].subs[id]].id = id
        /\ chans[sock[s].subs[id]].registered

\* Route r is not hidden from the one who connected as session s.
OwnRoute(s, r) == Principal[s].role = "driver" => <<r, Principal[s].driver>> \in assigned

\* A channel with the broker is open, and an entry leads to it unless its id was
\* given away.
ChannelInv(c) ==
    /\ chans[c].registered => ~chans[c].closed
    /\ chans[c].registered /\ ~chans[c].replaced =>
         sock[chans[c].session].subs[chans[c].id] = c
    /\ Len(chans[c].buf) <= Capacity
    /\ OwnRoute(chans[c].session, chans[c].route)

\* A session that ended with its cleanup has no entries left.
SockInv(s) ==
    /\ sock[s].state = "over" /\ ~sock[s].aborted =>
         \A id \in Ids : sock[s].subs[id] = NoChannel
    /\ \A r \in sock[s].heard : OwnRoute(s, r)

SessionInv ==
    /\ sock \in [Sessions -> SockType] /\ chans \in Seq(ChanType) /\ ~chanPanic
    /\ \A s \in Sessions, id \in Ids : EntryInv(s, id)
    /\ \A c \in DOMAIN chans : ChannelInv(c)
    /\ \A s \in Sessions : SockInv(s)

----------------------------------------------------------------------------
(* The sessions, step by step *)

LEMMA ChanFields ==
    ASSUME NEW x \in ChanType
    PROVE  /\ x.session \in Sessions /\ x.id \in Ids /\ x.route \in Routes
           /\ x.buf \in Seq(EventTypes)
  BY DEF ChanType

LEMMA SockFields ==
    ASSUME NEW x \in SockType
    PROVE  /\ x.state \in {"new", "refused", "open", "over"} /\ x.subs \in [Ids -> Nat]
           /\ x.heard \in SUBSET Routes
  BY DEF SockType

\* The fields of a channel that say whom it belongs to and how it stands.
SameChannel(x, y) ==
    /\ y.session = x.session /\ y.id = x.id /\ y.route = x.route
    /\ y.registered = x.registered /\ y.closed = x.closed /\ y.replaced = x.replaced

\* A step that registers, closes and replaces no channel, and ends no session in an
\* orderly way.
LEMMA QuietStep ==
    ASSUME SessionInv, ~chanPanic', assigned \subseteq assigned',
           sock' \in [Sessions -> SockType], chans' \in Seq(ChanType),
           DOMAIN chans' = DOMAIN chans,
           \A c \in DOMAIN chans :
                SameChannel(chans[c], chans'[c]) /\ Len(chans'[c].buf) <= Capacity,
           \A s \in Sessions :
                /\ sock'[s].subs = sock[s].subs
                /\ sock'[s].state = "over" /\ ~sock'[s].aborted =>
                     sock[s].state = "over" /\ ~sock[s].aborted
                /\ \A r \in sock'[s].heard : r \in sock[s].heard \/ OwnRoute(s, r)
    PROVE  SessionInv'
<1>1. ASSUME NEW s, NEW r, OwnRoute(s, r) PROVE OwnRoute(s, r)'
  BY <1>1 DEF OwnRoute
<1>2. ASSUME NEW s \in Sessions, NEW id \in Ids PROVE EntryInv(s, id)'
  BY DEF SessionInv, EntryInv, SameChannel
<1>3. ASSUME NEW c \in DOMAIN chans PROVE ChannelInv(c)'
  <2>1. ChannelInv(c) /\ SameChannel(chans[c], chans'[c]) /\ Len(chans'[c].buf) <= Capacity
    BY DEF SessionInv
  <2>2. chans[c].session \in Sessions
    BY ChanFields DEF SessionInv
  <2>3. OwnRoute(chans[c].session, chans[c].route)'
    <3>1. PICK s, r : s = chans[c].session /\ r = chans[c].route
      OBVIOUS
    <3>2. OwnRoute(s, r)'
      BY <1>1, <2>1, <3>1 DEF ChannelInv
    <3>3. chans'[c].session = s /\ chans'[c].route = r
      BY <2>1, <3>1 DEF SameChannel
    <3> QED BY <3>2, <3>3 DEF OwnRoute
  <2> QED BY <2>1, <2>2, <2>3 DEF ChannelInv, SameChannel
<1>4. ASSUME NEW s \in Sessions PROVE SockInv(s)'
  <2>1. SockInv(s)
    BY DEF SessionInv
  <2>2. ASSUME NEW r \in sock'[s].heard PROVE OwnRoute(s, r)'
    BY <1>1, <2>1 DEF SockInv
  <2> QED BY <2>1, <2>2 DEF SockInv
<1> QED BY <1>2, <1>3, <1>4 DEF SessionInv

\* What the broker does to its channels when it publishes and when it unsubscribes.
LEMMA OfferFacts ==
    ASSUME NEW x \in ChanType, Len(x.buf) <= Capacity, NEW r, NEW evt \in EventTypes
    PROVE  /\ Offer(x, r, evt) \in ChanType /\ SameChannel(x, Offer(x, r, evt))
           /\ Len(Offer(x, r, evt).buf) <= Capacity
<1>1. CASE x.registered /\ x.route = r /\ Len(x.buf) < Capacity
  <2> DEFINE b == Append(x.buf, evt)
  <2>1. x.buf \in Seq(EventTypes)
    BY ChanFields
  <2>2. b \in Seq(EventTypes) /\ Len(b) = Len(x.buf) + 1 /\ Len(x.buf) \in Nat
    BY <2>1
  <2>3. Len(b) <= Capacity
    BY <1>1, <2>2, SessionAssumption
  <2>4. Offer(x, r, evt) = [x EXCEPT !.buf = b]
    BY <1>1 DEF Offer
  <2> HIDE DEF b
  <2> QED BY <2>2, <2>3, <2>4 DEF ChanType, SameChannel
<1>2. CASE ~(x.registered /\ x.route = r /\ Len(x.buf) < Capacity)
  <2>1. Offer(x, r, evt) = x
    BY <1>2 DEF Offer
  <2> QED BY <2>1 DEF SameChannel
<1> QED BY <1>1, <1>2

LEMMA PublishKeeps ==
    ASSUME SessionInv, NEW r \in Routes, NEW evt \in EventTypes, Publish(r, evt),
           UNCHANGED assigned
    PROVE  SessionInv'
<1>1. chans \in Seq(ChanType) /\ DOMAIN chans = 1 .. Len(chans) /\ Len(chans) \in Nat
  BY DEF SessionInv
<1>2. chans' = [c \in DOMAIN chans |-> Offer(chans[c], r, evt)] /\ sock' = sock
  BY DEF Publish
<1>3. ASSUME NEW c \in DOMAIN chans
      PROVE  /\ chans'[c] \in ChanType /\ SameChannel(chans[c], chans'[c])
             /\ Len(chans'[c].buf) <= Capacity
  <2>1. chans[c] \in ChanType /\ Len(chans[c].buf) <= Capacity
    BY <1>1 DEF SessionInv, ChannelInv
  <2> QED BY <1>2, <2>1, OfferFacts
<1>4. chans' \in Seq(ChanType) /\ DOMAIN chans' = DOMAIN chans
  BY <1>1, <1>2, <1>3
<1>5. ~chanPanic'
  <2>1. ASSUME NEW c \in DOMAIN chans PROVE ~(chans[c].registered /\ chans[c].closed)
    BY DEF SessionInv, ChannelInv
  <2>2. ~chanPanic
    BY DEF SessionInv
  <2> QED BY <2>1, <2>2 DEF Publish
<1>6. sock \in [Sessions -> SockType]
  BY DEF SessionInv
<1> QED BY <1>2, <1>3, <1>4, <1>5, <1>6, QuietStep

\* WsConnect, WsInit, WsForbidden, LoopPanics, FanOut and FanOutEnds.
LEMMA SocketKeeps ==
    ASSUME SessionInv, NEW s \in Sessions, UNCHANGED <<chans, chanPanic, assigned>>,
           NEW x \in SockType, sock' = [sock EXCEPT ![s] = x],
           x.subs = sock[s].subs, x.heard = sock[s].heard,
           x.state = "over" /\ ~x.aborted => sock[s].state = "over" /\ ~sock[s].aborted
    PROVE  SessionInv'
<1>1. sock' \in [Sessions -> SockType] /\ chans \in Seq(ChanType) /\ ~chanPanic
  BY DEF SessionInv
<1>2. \A c \in DOMAIN chans :
        SameChannel(chans[c], chans[c]) /\ Len(chans[c].buf) <= Capacity
  BY DEF SessionInv, ChannelInv, SameChannel
<1>3. ASSUME NEW t \in Sessions
      PROVE  /\ sock'[t].subs = sock[t].subs
             /\ sock'[t].state = "over" /\ ~sock'[t].aborted =>
                  sock[t].state = "over" /\ ~sock[t].aborted
             /\ \A r \in sock'[t].heard : r \in sock[t].heard \/ OwnRoute(t, r)
  BY DEF SessionInv
<1> QED BY <1>1, <1>2, <1>3, QuietStep

LEMMA FanOutKeeps ==
    ASSUME SessionInv, NEW c \in DOMAIN chans, FanOut(c), UNCHANGED assigned
    PROVE  SessionInv'
<1> DEFINE x == chans[c]
           b == Tail(x.buf)
           y == [x EXCEPT !.buf = b]
<1>1. /\ sock \in [Sessions -> SockType] /\ chans \in Seq(ChanType) /\ ~chanPanic
      /\ x \in ChanType /\ ChannelInv(c)
  BY DEF SessionInv
<1>2. x.session \in Sessions /\ x.route \in Routes /\ x.buf \in Seq(EventTypes)
  BY <1>1, ChanFields
<1>3. x.buf # <<>> /\ chans' = [chans EXCEPT ![c] = y] /\ chanPanic' = chanPanic
  BY DEF FanOut
<1>4. b \in Seq(EventTypes) /\ Len(b) = Len(x.buf) - 1 /\ Len(x.buf) \in Nat
  BY <1>2, <1>3
<1>5. Len(x.buf) <= Capacity
  BY <1>1 DEF ChannelInv
<1>6. Len(b) <= Capacity
  BY <1>4, <1>5, SessionAssumption
<1>7. y \in ChanType /\ SameChannel(x, y) /\ y.buf = b
  <2> HIDE DEF b, x
  <2> QED BY <1>1, <1>4 DEF ChanType, SameChannel
<1> HIDE DEF y, b
<1>8. /\ chans' \in Seq(ChanType) /\ DOMAIN chans' = DOMAIN chans
      /\ chans'[c] = y /\ \A d \in DOMAIN chans : d # c => chans'[d] = chans[d]
  BY <1>1, <1>3, <1>7
<1>9. ASSUME NEW d \in DOMAIN chans
      PROVE  SameChannel(chans[d], chans'[d]) /\ Len(chans'[d].buf) <= Capacity
  <2>1. CASE d = c
    BY <1>6, <1>7, <1>8, <2>1
  <2>2. CASE d # c
    BY <1>8, <2>2 DEF SessionInv, ChannelInv, SameChannel
  <2> QED BY <2>1, <2>2
<1>10. /\ sock' \in [Sessions -> SockType]
       /\ \A t \in Sessions :
            /\ sock'[t].subs = sock[t].subs /\ sock'[t].state = sock[t].state
            /\ sock'[t].aborted = sock[t].aborted
            /\ \A r \in sock'[t].heard : r \in sock[t].heard \/ (t = x.session /\ r = x.route)
  <2>1. CASE sock' = sock
    BY <1>1, <2>1
  <2>2. CASE sock' = [sock EXCEPT ![x.session].heard = @ \union {x.route}]
    <3> DEFINE s == x.session
               h == sock[s].heard \union {x.route}
               z == [sock[s] EXCEPT !.heard = h]
    <3>1. sock[s] \in SockType
      BY <1>1, <1>2
    <3>2. h \in SUBSET Routes
      BY <1>2, <3>1, SockFields
    <3>3. sock' = [sock EXCEPT ![s] = z]
      BY <2>2
    <3>4. \A r \in h : r \in sock[s].heard \/ r = x.route
      OBVIOUS
    <3> HIDE DEF h, s
    <3>5. /\ z \in SockType /\ z.subs = sock[s].subs /\ z.state = sock[s].state
          /\ z.aborted = sock[s].aborted /\ z.heard = h
      BY <3>1, <3>2 DEF SockType
    <3>6. s \in Sessions /\ s = x.session
      BY <1>2 DEF s
    <3> HIDE DEF z, x
    <3>7. sock' \in [Sessions -> SockType]
      BY <1>1, <3>3, <3>5
    <3>8. sock'[s] = z /\ \A t \in Sessions : t # s => sock'[t] = sock[t]
      BY <1>1, <3>3, <3>6
    <3> QED BY <3>4, <3>5, <3>6, <3>7, <3>8
  <2> QED BY <2>1, <2>2 DEF FanOut
<1>11. OwnRoute(x.session, x.route)
  BY <1>1 DEF ChannelInv
<1> HIDE DEF x
<1>12. ASSUME NEW t \in Sessions
       PROVE  /\ sock'[t].subs = sock[t].subs
              /\ sock'[t].state = "over" /\ ~sock'[t].aborted =>
                   sock[t].state = "over" /\ ~sock[t].aborted
              /\ \A r \in sock'[t].heard : r \in sock[t].heard \/ OwnRoute(t, r)
  BY <1>10, <1>11
<1> QED BY <1>1, <1>3, <1>8, <1>9, <1>10, <1>12, QuietStep

LEMMA FanOutEndsKeeps ==
    ASSUME SessionInv, NEW c \in DOMAIN chans, FanOutEnds(c), UNCHANGED assigned
    PROVE  SessionInv'
<1> DEFINE x == chans[c]
           y == [x EXCEPT !.running = FALSE]
<1>1. /\ sock \in [Sessions -> SockType] /\ chans \in Seq(ChanType) /\ ~chanPanic
      /\ x \in ChanType /\ ChannelInv(c)
  BY DEF SessionInv
<1>2. chans' = [chans EXCEPT ![c] = y] /\ chanPanic' = chanPanic /\ sock' = sock
  BY DEF FanOutEnds
<1>3. y \in ChanType /\ SameChannel(x, y) /\ y.buf = x.buf
  <2> HIDE DEF x
  <2> QED BY <1>1 DEF ChanType, SameChannel
<1> HIDE DEF y
<1>4. /\ chans' \in Seq(ChanType) /\ DOMAIN chans' = DOMAIN chans
      /\ chans'[c] = y /\ \A d \in DOMAIN chans : d # c => chans'[d] = chans[d]
  BY <1>1, <1>2, <1>3
<1>5. ASSUME NEW d \in DOMAIN chans
      PROVE  SameChannel(chans[d], chans'[d]) /\ Len(chans'[d].buf) <= Capacity
  <2>1. Len(chans[d].buf) <= Capacity
    BY DEF SessionInv, ChannelInv
  <2>2. CASE d = c
    BY <1>3, <1>4, <2>1, <2>2
  <2>3. CASE d # c
    BY <1>4, <2>1, <2>3 DEF SameChannel
  <2> QED BY <2>2, <2>3
<1> QED BY <1>1, <1>2, <1>4, <1>5, QuietStep

\* An id, in use or not, is given to a new channel.
LEMMA SubscribeKeeps ==
    ASSUME RouteInv, SessionInv, NEW s \in Sessions, NEW id \in Ids, NEW r \in Routes,
           NEW field \in Fields, WsSubscribe(s, id, r, field), UNCHANGED assigned
    PROVE  SessionInv'
<1>0. PICK n : n = Len(chans) + 1
  OBVIOUS
<1>1. /\ sock \in [Sessions -> SockType] /\ chans \in Seq(ChanType) /\ ~chanPanic
      /\ Len(chans) \in Nat /\ DOMAIN chans = 1 .. Len(chans)
      /\ \A c \in DOMAIN chans : chans[c] \in ChanType
  BY DEF SessionInv
<1> DEFINE old == sock[s].subs[id]
           kept == [c \in DOMAIN chans |-> [chans[c] EXCEPT !.replaced = @ \/ c = old]]
           new == NewChannel(s, id, r, field)
<1>2. /\ new \in ChanType /\ new.session = s /\ new.id = id /\ new.route = r
      /\ new.registered /\ ~new.closed /\ new.buf = <<>>
  BY DEF NewChannel, ChanType
<1>3. /\ chans' = Append(kept, new) /\ chanPanic' = chanPanic
      /\ sock' = [sock EXCEPT ![s].subs[id] = n]
      /\ Allowed(s, r) /\ sock[s].state = "open"
  BY <1>0 DEF WsSubscribe, Reading
<1>4. ASSUME NEW c \in DOMAIN chans
      PROVE  /\ kept[c] \in ChanType /\ kept[c].session = chans[c].session
             /\ kept[c].id = chans[c].id /\ kept[c].route = chans[c].route
             /\ kept[c].buf = chans[c].buf /\ kept[c].registered = chans[c].registered
             /\ kept[c].closed = chans[c].closed
             /\ ~kept[c].replaced => ~chans[c].replaced /\ c # old
  <2> DEFINE rep == chans[c].replaced \/ c = old
  <2>1. kept[c] = [chans[c] EXCEPT !.replaced = rep]
    OBVIOUS
  <2>2. rep \in BOOLEAN /\ (~rep => ~chans[c].replaced /\ c # old)
    OBVIOUS
  <2>3. chans[c] \in ChanType
    BY <1>1
  <2> HIDE DEF rep, old, kept
  <2> QED BY <2>1, <2>2, <2>3 DEF ChanType
<1>5. kept \in Seq(ChanType) /\ Len(kept) = Len(chans)
  <2>1. kept = [c \in 1 .. Len(chans) |-> kept[c]]
    BY <1>1
  <2>2. \A c \in 1 .. Len(chans) : kept[c] \in ChanType
    BY <1>1, <1>4
  <2> HIDE DEF kept
  <2>3. kept \in [1 .. Len(chans) -> ChanType]
    BY <2>1, <2>2
  <2> QED BY <1>1, <2>3
<1> HIDE DEF kept, new
<1>6. /\ chans' \in Seq(ChanType) /\ DOMAIN chans' = 1 .. n /\ n \in Nat
      /\ \A c \in DOMAIN chans : c \in DOMAIN chans' /\ chans'[c] = kept[c]
      /\ chans'[n] = new
  BY <1>0, <1>1, <1>2, <1>3, <1>5
<1>7. /\ n \notin DOMAIN chans /\ n # NoChannel
      /\ \A c \in DOMAIN chans' : c \in DOMAIN chans \/ c = n
  BY <1>0, <1>1, <1>6 DEF NoChannel
<1>8. sock[s] \in SockType /\ sock[s].subs \in [Ids -> Nat]
  BY <1>1, SockFields
<1>9. /\ sock' \in [Sessions -> SockType]
      /\ \A t \in Sessions : /\ sock'[t].state = sock[t].state
                             /\ sock'[t].aborted = sock[t].aborted
                             /\ sock'[t].heard = sock[t].heard
      /\ \A t \in Sessions, i \in Ids :
           sock'[t].subs[i] = IF t = s /\ i = id THEN n ELSE sock[t].subs[i]
  <2> DEFINE m == [sock[s].subs EXCEPT ![id] = n]
             z == [sock[s] EXCEPT !.subs = m]
  <2>1. m \in [Ids -> Nat] /\ \A i \in Ids : m[i] = IF i = id THEN n ELSE sock[s].subs[i]
    BY <1>6, <1>8
  <2>2. sock' = [sock EXCEPT ![s] = z]
    BY <1>3
  <2> HIDE DEF m
  <2>3. /\ z \in SockType /\ z.subs = m /\ z.state = sock[s].state
        /\ z.aborted = sock[s].aborted /\ z.heard = sock[s].heard
    BY <1>8, <2>1 DEF SockType
  <2> HIDE DEF z
  <2>4. sock' \in [Sessions -> SockType]
    BY <1>1, <2>2, <2>3
  <2>5. sock'[s] = z /\ \A t \in Sessions : t # s => sock'[t] = sock[t]
    BY <1>1, <2>2
  <2> QED BY <2>1, <2>3, <2>4, <2>5
<1>10. ASSUME NEW t \in Sessions, NEW i \in Ids PROVE EntryInv(t, i)'
  <2>1. CASE t = s /\ i = id
    <3>1. sock'[t].subs[i] = n
      BY <1>9, <2>1
    <3>2. n \in DOMAIN chans'
      BY <1>0, <1>1, <1>6
    <3> QED BY <1>2, <1>6, <2>1, <3>1, <3>2 DEF EntryInv
  <2>2. CASE ~(t = s /\ i = id)
    <3>1. sock'[t].subs[i] = sock[t].subs[i] /\ EntryInv(t, i)
      BY <1>9, <2>2 DEF SessionInv
    <3> QED BY <1>4, <1>6, <3>1 DEF EntryInv
  <2> QED BY <2>1, <2>2
<1>11. OwnRoute(s, r)
  <2>1. ASSUME Principal[s].role = "driver" PROVE <<r, Principal[s].driver>> \in assigned
    <3>1. Principal[s].driver # NoOne /\ Principal[s].driver = routes[r].driver
      BY <1>3, <2>1 DEF Allowed
    <3> QED BY <3>1 DEF RouteInv
  <2> QED BY <2>1 DEF OwnRoute
<1>12. ASSUME NEW t, NEW u, OwnRoute(t, u) PROVE OwnRoute(t, u)'
  BY <1>12 DEF OwnRoute
<1>13. ASSUME NEW c \in DOMAIN chans PROVE ChannelInv(c)'
  <2>1. /\ ChannelInv(c) /\ chans'[c].session = chans[c].session /\ chans'[c].id = chans[c].id
        /\ chans'[c].route = chans[c].route /\ chans'[c].buf = chans[c].buf
        /\ chans'[c].registered = chans[c].registered /\ chans'[c].closed = chans[c].closed
        /\ ~chans'[c].replaced => ~chans[c].replaced /\ c # old
    BY <1>4, <1>6 DEF SessionInv
  <2>2. chans[c].session \in Sessions /\ chans[c].id \in Ids
    BY <1>1, ChanFields
  <2>3. ASSUME chans'[c].registered, ~chans'[c].replaced
        PROVE  sock'[chans'[c].session].subs[chans'[c].id] = c
    <3>1. sock[chans[c].session].subs[chans[c].id] = c /\ c # old
      BY <2>1, <2>3 DEF ChannelInv
    <3>2. ~(chans[c].session = s /\ chans[c].id = id)
      BY <3>1
    <3>3. sock'[chans[c].session].subs[chans[c].id] = sock[chans[c].session].subs[chans[c].id]
      BY <1>9, <2>2, <3>2
    <3> QED BY <2>1, <3>1, <3>3
  <2>4. OwnRoute(chans[c].session, chans[c].route)'
    <3>1. PICK t, u : t = chans[c].session /\ u = chans[c].route
      OBVIOUS
    <3>2. OwnRoute(t, u)'
      BY <1>12, <2>1, <3>1 DEF ChannelInv
    <3> QED BY <2>1, <3>1, <3>2 DEF OwnRoute
  <2> QED BY <2>1, <2>3, <2>4 DEF ChannelInv
<1>14. ChannelInv(n)'
  <2>1. sock'[s].subs[id] = n
    BY <1>9
  <2>2. Len(<<>>) <= Capacity
    BY SessionAssumption
  <2>3. OwnRoute(s, r)'
    BY <1>11, <1>12
  <2> QED BY <1>2, <1>6, <2>1, <2>2, <2>3 DEF ChannelInv, OwnRoute
<1>15. ASSUME NEW t \in Sessions PROVE SockInv(t)'
  <2>1. SockInv(t)
    BY DEF SessionInv
  <2>2. ASSUME sock'[t].state = "over" /\ ~sock'[t].aborted, NEW i \in Ids
        PROVE  sock'[t].subs[i] = NoChannel
    <3>1. sock[t].state = "over" /\ ~sock[t].aborted /\ t # s
      BY <1>3, <1>9, <2>2
    <3> QED BY <1>9, <2>1, <3>1 DEF SockInv
  <2>3. ASSUME NEW u \in sock'[t].heard PROVE OwnRoute(t, u)'
    BY <1>9, <1>12, <2>1 DEF SockInv
  <2> QED BY <2>2, <2>3 DEF SockInv
<1> QED BY <1>1, <1>3, <1>6, <1>7, <1>9, <1>10, <1>13, <1>14, <1>15 DEF SessionInv

\* Channels of session s leave the broker, and the entries that lead to them are
\* deleted: those of one id, or all of them at the end.
LEMMA UnsubscribeKeeps ==
    ASSUME SessionInv, UNCHANGED assigned, NEW s \in Sessions, sock[s].state = "open",
           NEW I \in SUBSET Ids, NEW C, Unsubscribe(C),
           C = {sock[s].subs[i] : i \in I} \ {NoChannel},
           sock' \in [Sessions -> SockType],
           \A t \in Sessions : t # s => sock'[t] = sock[t],
           sock'[s].aborted = sock[s].aborted, sock'[s].heard = sock[s].heard,
           \A i \in Ids : sock'[s].subs[i] = IF i \in I THEN NoChannel ELSE sock[s].subs[i],
           sock'[s].state = "open" \/ I = Ids
    PROVE  SessionInv'
<1>1. /\ sock \in [Sessions -> SockType] /\ chans \in Seq(ChanType) /\ ~chanPanic
      /\ Len(chans) \in Nat /\ DOMAIN chans = 1 .. Len(chans)
      /\ \A c \in DOMAIN chans : chans[c] \in ChanType
  BY DEF SessionInv
<1>2. ASSUME NEW c \in C
      PROVE  /\ c \in DOMAIN chans /\ chans[c].session = s /\ chans[c].id \in I
             /\ sock[s].subs[chans[c].id] = c
             /\ chans[c].registered /\ ~chans[c].closed
  <2>1. PICK i \in I : c = sock[s].subs[i] /\ c # NoChannel
    OBVIOUS
  <2>2. EntryInv(s, i)
    BY DEF SessionInv
  <2>3. c \in DOMAIN chans /\ chans[c].session = s /\ chans[c].id = i /\ chans[c].registered
    BY <2>1, <2>2 DEF EntryInv
  <2>4. ChannelInv(c)
    BY <2>3 DEF SessionInv
  <2> QED BY <2>1, <2>3, <2>4 DEF ChannelInv
<1>3. ~chanPanic'
  BY <1>1, <1>2 DEF Unsubscribe
<1> DEFINE left(c) == [chans[c] EXCEPT !.registered = FALSE, !.closed = TRUE]
<1>4. chans' = [c \in DOMAIN chans |-> IF c \in C THEN left(c) ELSE chans[c]]
  BY DEF Unsubscribe
<1>5. ASSUME NEW c \in DOMAIN chans
      PROVE  /\ left(c) \in ChanType /\ left(c).session = chans[c].session
             /\ left(c).id = chans[c].id /\ left(c).route = chans[c].route
             /\ left(c).buf = chans[c].buf /\ ~left(c).registered
  <2>1. chans[c] \in ChanType
    BY <1>1
  <2> QED BY <2>1 DEF ChanType
<1> HIDE DEF left
<1>6. ASSUME NEW c \in DOMAIN chans
      PROVE  /\ chans'[c] \in ChanType /\ chans'[c].session = chans[c].session
             /\ chans'[c].id = chans[c].id /\ chans'[c].route = chans[c].route
             /\ chans'[c].buf = chans[c].buf
             /\ c \notin C => chans'[c] = chans[c]
             /\ c \in C => ~chans'[c].registered
  <2>1. chans'[c] = IF c \in C THEN left(c) ELSE chans[c]
    BY <1>4
  <2>2. chans[c] \in ChanType
    BY <1>1
  <2>3. CASE c \in C
    <3>1. chans'[c] = left(c)
      BY <2>1, <2>3
    <3> QED BY <1>5, <2>3, <3>1
  <2>4. CASE c \notin C
    <3>1. chans'[c] = chans[c]
      BY <2>1, <2>4
    <3> QED BY <2>2, <2>4, <3>1
  <2> QED BY <2>3, <2>4
<1>7. chans' \in Seq(ChanType) /\ DOMAIN chans' = DOMAIN chans
  <2>1. DOMAIN chans' = DOMAIN chans
    BY <1>4
  <2>2. chans' = [c \in 1 .. Len(chans) |-> chans'[c]]
    BY <1>1, <1>4
  <2>3. chans' \in [1 .. Len(chans) -> ChanType]
    BY <1>1, <1>6, <2>2
  <2> QED BY <1>1, <2>1, <2>3
<1>8. ASSUME NEW t \in Sessions, NEW i \in Ids PROVE EntryInv(t, i)'
  <2>1. ASSUME sock'[t].subs[i] # NoChannel
        PROVE  /\ sock'[t].subs[i] = sock[t].subs[i] /\ ~(t = s /\ i \in I)
    BY <2>1
  <2>2. ASSUME sock'[t].subs[i] # NoChannel
        PROVE  /\ sock[t].subs[i] \in DOMAIN chans /\ sock[t].subs[i] \notin C
               /\ chans[sock[t].subs[i]].session = t /\ chans[sock[t].subs[i]].id = i
               /\ chans[sock[t].subs[i]].registered
    <3>1. /\ sock[t].subs[i] \in DOMAIN chans
          /\ chans[sock[t].subs[i]].session = t /\ chans[sock[t].subs[i]].id = i
          /\ chans[sock[t].subs[i]].registered
      BY <2>1, <2>2 DEF SessionInv, EntryInv
    <3> QED BY <1>2, <2>1, <2>2, <3>1
  <2> QED BY <1>6, <1>7, <2>1, <2>2 DEF EntryInv
<1>9. ASSUME NEW t, NEW r, OwnRoute(t, r) PROVE OwnRoute(t, r)'
  BY <1>9 DEF OwnRoute
<1>10. ASSUME NEW c \in DOMAIN chans PROVE ChannelInv(c)'
  <2>1. ChannelInv(c)
    BY DEF SessionInv
  <2>2. chans[c].session \in Sessions /\ chans[c].id \in Ids
    BY <1>1, ChanFields
  <2>3. OwnRoute(chans[c].session, chans[c].route)'
    <3>1. PICK t, r : t = chans[c].session /\ r = chans[c].route
      OBVIOUS
    <3>2. OwnRoute(t, r)'
      BY <1>9, <2>1, <3>1 DEF ChannelInv
    <3> QED BY <1>6, <3>1, <3>2 DEF OwnRoute
  <2>4. ASSUME chans'[c].registered PROVE c \notin C /\ chans'[c] = chans[c]
    BY <1>6, <2>4
  <2>5. ASSUME chans'[c].registered, ~chans'[c].replaced
        PROVE  sock'[chans[c].session].subs[chans[c].id] = c
    <3>1. c \notin C /\ sock[chans[c].session].subs[chans[c].id] = c
      BY <2>1, <2>4, <2>5 DEF ChannelInv
    <3>2. c # NoChannel
      BY <1>1 DEF NoChannel
    <3>3. ~(chans[c].session = s /\ chans[c].id \in I)
      BY <3>1, <3>2
    <3> QED BY <2>2, <3>1, <3>3
  <2> QED BY <1>6, <2>1, <2>3, <2>4, <2>5 DEF ChannelInv
<1>11. ASSUME NEW t \in Sessions PROVE SockInv(t)'
  <2>1. SockInv(t)
    BY DEF SessionInv
  <2>2. sock'[t].heard = sock[t].heard
    OBVIOUS
  <2>3. ASSUME NEW r \in sock'[t].heard PROVE OwnRoute(t, r)'
    BY <1>9, <2>1, <2>2 DEF SockInv
  <2>4. ASSUME sock'[t].state = "over" /\ ~sock'[t].aborted, NEW i \in Ids
        PROVE  sock'[t].subs[i] = NoChannel
    <3>1. CASE t = s
      BY <2>4, <3>1
    <3>2. CASE t # s
      BY <2>1, <2>4, <3>2 DEF SockInv
    <3> QED BY <3>1, <3>2
  <2> QED BY <2>3, <2>4 DEF SockInv
<1> QED BY <1>3, <1>7, <1>8, <1>10, <1>11 DEF SessionInv

LEMMA CompleteKeeps ==
    ASSUME SessionInv, NEW s \in Sessions, NEW id \in Ids, WsComplete(s, id),
           UNCHANGED assigned
    PROVE  SessionInv'
<1> DEFINE m == [sock[s].subs EXCEPT ![id] = NoChannel]
           z == [sock[s] EXCEPT !.subs = m]
<1>1. sock \in [Sessions -> SockType] /\ sock[s] \in SockType
  BY DEF SessionInv
<1>2. sock[s].subs \in [Ids -> Nat]
  BY <1>1, SockFields
<1>3. /\ Unsubscribe({sock[s].subs[id]}) /\ sock' = [sock EXCEPT ![s] = z]
      /\ sock[s].state = "open" /\ sock[s].subs[id] # NoChannel
  BY DEF WsComplete, Reading
<1>4. m \in [Ids -> Nat] /\ \A i \in Ids : m[i] = IF i \in {id} THEN NoChannel
                                                 ELSE sock[s].subs[i]
  BY <1>2 DEF NoChannel
<1> HIDE DEF m
<1>5. /\ z \in SockType /\ z.subs = m /\ z.state = sock[s].state
      /\ z.aborted = sock[s].aborted /\ z.heard = sock[s].heard
  BY <1>1, <1>4 DEF SockType
<1> HIDE DEF z
<1>6. /\ sock' \in [Sessions -> SockType] /\ sock'[s] = z
      /\ \A t \in Sessions : t # s => sock'[t] = sock[t]
  BY <1>1, <1>3, <1>5
<1>7. {sock[s].subs[id]} = {sock[s].subs[i] : i \in {id}} \ {NoChannel}
  BY <1>3
<1>8. PICK I \in SUBSET Ids : I = {id}
  OBVIOUS
<1>9. PICK C : C = {sock[s].subs[id]}
  OBVIOUS
<1>10. /\ Unsubscribe(C) /\ C = {sock[s].subs[i] : i \in I} \ {NoChannel}
       /\ sock[s].state = "open" /\ sock'[s].state = "open"
  BY <1>3, <1>5, <1>6, <1>7, <1>8, <1>9
<1>11. /\ sock'[s].aborted = sock[s].aborted /\ sock'[s].heard = sock[s].heard
       /\ \A i \in Ids : sock'[s].subs[i] = IF i \in I THEN NoChannel ELSE sock[s].subs[i]
  BY <1>4, <1>5, <1>6, <1>8
<1> QED BY <1>6, <1>10, <1>11, UnsubscribeKeeps

LEMMA EndKeeps ==
    ASSUME SessionInv, NEW s \in Sessions, WsEnd(s), UNCHANGED assigned
    PROVE  SessionInv'
<1> DEFINE m == [i \in Ids |-> NoChannel]
           z == [sock[s] EXCEPT !.state = "over", !.subs = m]
<1>1. sock \in [Sessions -> SockType] /\ sock[s] \in SockType
  BY DEF SessionInv
<1>2. /\ Unsubscribe(Subscribed(s)) /\ sock' = [sock EXCEPT ![s] = z]
      /\ sock[s].state = "open"
  BY DEF WsEnd
<1>3. m \in [Ids -> Nat] /\ \A i \in Ids : m[i] = IF i \in Ids THEN NoChannel
                                                 ELSE sock[s].subs[i]
  BY DEF NoChannel
<1> HIDE DEF m
<1>4. /\ z \in SockType /\ z.subs = m
      /\ z.aborted = sock[s].aborted /\ z.heard = sock[s].heard
  BY <1>1, <1>3 DEF SockType
<1> HIDE DEF z
<1>5. /\ sock' \in [Sessions -> SockType] /\ sock'[s] = z
      /\ \A t \in Sessions : t # s => sock'[t] = sock[t]
  BY <1>1, <1>2, <1>4
<1>6. Subscribed(s) = {sock[s].subs[i] : i \in Ids} \ {NoChannel}
  BY DEF Subscribed
<1>7. PICK C : C = Subscribed(s)
  OBVIOUS
<1>8. Unsubscribe(C) /\ C = {sock[s].subs[i] : i \in Ids} \ {NoChannel}
  BY <1>2, <1>6, <1>7
<1>9. Ids \in SUBSET Ids
  OBVIOUS
<1>10. /\ sock'[s].aborted = sock[s].aborted /\ sock'[s].heard = sock[s].heard
       /\ \A i \in Ids : sock'[s].subs[i] = IF i \in Ids THEN NoChannel ELSE sock[s].subs[i]
  BY <1>3, <1>4, <1>5
<1> QED BY <1>2, <1>5, <1>8, <1>9, <1>10, UnsubscribeKeeps

\* The steps of a session.
LEMMA SessionStepKeeps ==
    ASSUME RouteInv, SessionInv, SessionStep
    PROVE  SessionInv'
<1>0. UNCHANGED assigned
  BY DEF SessionStep, book
<1>1. sock \in [Sessions -> SockType] /\ \A s \in Sessions : sock[s] \in SockType
  BY DEF SessionInv
<1>2. ASSUME NEW s \in Sessions, WsConnect(s) PROVE SessionInv'
  <2>1. PICK state \in {"open", "refused"} : sock' = [sock EXCEPT ![s].state = state]
    BY <1>2 DEF WsConnect
  <2> DEFINE x == [sock[s] EXCEPT !.state = state]
  <2>2. sock' = [sock EXCEPT ![s] = x] /\ UNCHANGED <<chans, chanPanic>>
    BY <1>2, <2>1 DEF WsConnect
  <2>3. /\ x \in SockType /\ x.subs = sock[s].subs /\ x.heard = sock[s].heard
        /\ x.state # "over"
    BY <1>1 DEF SockType
  <2> HIDE DEF x
  <2> QED BY <1>0, <2>2, <2>3, SocketKeeps
<1>3. ASSUME NEW s \in Sessions, WsInit(s) PROVE SessionInv'
  <2> DEFINE x == [sock[s] EXCEPT !.keepalive = TRUE]
  <2>1. sock' = [sock EXCEPT ![s] = x] /\ UNCHANGED <<chans, chanPanic>>
    BY <1>3 DEF WsInit
  <2>2. /\ x \in SockType /\ x.subs = sock[s].subs /\ x.heard = sock[s].heard
        /\ x.state = sock[s].state /\ sock[s].state = "open"
    BY <1>1, <1>3 DEF SockType, WsInit, Reading
  <2> HIDE DEF x
  <2> QED BY <1>0, <2>1, <2>2, SocketKeeps
<1>4. ASSUME NEW s \in Sessions, LoopPanics(s) PROVE SessionInv'
  <2> DEFINE x == [sock[s] EXCEPT !.state = "over", !.aborted = TRUE]
  <2>1. sock' = [sock EXCEPT ![s] = x] /\ UNCHANGED <<chans, chanPanic>>
    BY <1>4 DEF LoopPanics
  <2>2. /\ x \in SockType /\ x.subs = sock[s].subs /\ x.heard = sock[s].heard
        /\ x.aborted
    BY <1>1 DEF SockType
  <2> HIDE DEF x
  <2> QED BY <1>0, <2>1, <2>2, SocketKeeps
<1>5. ASSUME NEW s \in Sessions, NEW r \in Routes, WsForbidden(s, r) PROVE SessionInv'
  <2>1. sock' = [sock EXCEPT ![s] = sock[s]] /\ UNCHANGED <<chans, chanPanic>>
    BY <1>1, <1>5 DEF WsForbidden
  <2> QED BY <1>0, <1>1, <2>1, SocketKeeps
<1>6. ASSUME NEW s \in Sessions, WsEnd(s) PROVE SessionInv'
  BY <1>0, <1>6, EndKeeps
<1>7. ASSUME NEW s \in Sessions, NEW id \in Ids, WsComplete(s, id) PROVE SessionInv'
  BY <1>0, <1>7, CompleteKeeps
<1>8. ASSUME NEW s \in Sessions, NEW id \in Ids, NEW r \in Routes, NEW field \in Fields,
             WsSubscribe(s, id, r, field)
      PROVE  SessionInv'
  BY <1>0, <1>8, SubscribeKeeps
<1>9. ASSUME NEW c \in DOMAIN chans, FanOut(c) \/ FanOutEnds(c) PROVE SessionInv'
  BY <1>0, <1>9, FanOutKeeps, FanOutEndsKeeps
<1> QED BY <1>2, <1>3, <1>4, <1>5, <1>6, <1>7, <1>8, <1>9 DEF SessionStep

\* A handler publishes an event of a route.
LEMMA PublishEventKeeps ==
    ASSUME RequestInv, SessionInv, NEW q \in Requests, PublishEvent(q)
    PROVE  SessionInv'
<1>0. UNCHANGED assigned
  BY DEF PublishEvent, book
<1>1. /\ req[q] \in ReqType /\ GoodReq(req[q], routes) /\ req[q].pc = "publish"
      /\ req[q].pc \in Telling
  BY DEF RequestInv, PublishEvent, Telling
<1>2. req[q].evt \in EventTypes /\ req[q].targets \in SUBSET Routes
      /\ (req[q].kind # "hos" => req[q].route \in Routes)
  BY <1>1, ReqFields DEF GoodReq
<1>3. CASE req[q].kind = "advance" /\ Publish(req[q].route, req[q].evt)
  <2>1. req[q].route \in Routes
    BY <1>2, <1>3
  <2> QED BY <1>0, <1>2, <1>3, <2>1, PublishKeeps
<1>4. ASSUME NEW r \in req[q].targets, Publish(r, req[q].evt) PROVE SessionInv'
  <2>1. r \in Routes
    BY <1>2
  <2> QED BY <1>0, <1>2, <1>4, <2>1, PublishKeeps
<1> QED BY <1>3, <1>4 DEF PublishEvent

\* The other steps leave the sessions alone and take no assignment back.
LEMMA SessionsElsewhere ==
    ASSUME [Next]_vars, ~SessionStep, \A q \in Requests : ~PublishEvent(q)
    PROVE  UNCHANGED sessions /\ assigned \subseteq assigned'
<1> DEFINE Goal == UNCHANGED sessions /\ assigned \subseteq assigned'
<1> SUFFICES Goal
  OBVIOUS
<1> USE DEF book
<1>1. ASSUME NEW r \in Routes, OptimizeHandler(r) \/ PatchRouteHandler(r) PROVE Goal
  BY <1>1 DEF OptimizeHandler, PatchRouteHandler
<1>2. ASSUME NEW r \in Routes, NEW d \in Drivers, AssignHandler(r, d) PROVE Goal
  BY <1>2 DEF AssignHandler
<1>3. ASSUME NEW c, CreateHandler(c) PROVE Goal
  BY <1>3 DEF CreateHandler
<1>4. ASSUME NEW c, NEW x, DeleteHandler(c, x) PROVE Goal
  BY <1>4 DEF DeleteHandler
<1>5. ASSUME NEW i, WebhookDeliveryRetryHandler(i) PROVE Goal
  BY <1>5 DEF WebhookDeliveryRetryHandler
<1>6. ASSUME NEW q \in Requests, NEW r \in Routes, AdvanceHandler(q, r) PROVE Goal
  BY <1>6 DEF AdvanceHandler
<1>7. ASSUME NEW q \in Requests, NEW events, DriverEventsHandler(q, events) PROVE Goal
  BY <1>7 DEF DriverEventsHandler
<1>8. ASSUME NEW q \in Requests, NEW d, NEW action, DriversHandler(q, d, action) PROVE Goal
  BY <1>8 DEF DriversHandler
<1>9. ASSUME NEW q \in Requests, HandlerStep(q) PROVE Goal
  BY <1>9 DEF HandlerStep, TryEvent, ListDriverRoutes, EmitLookup, EmitEnqueue, Answer
<1>10. ASSUME NEW elapsed, FetchDeliveries(elapsed) PROVE Goal
  BY <1>10 DEF FetchDeliveries
<1>11. CASE PostDelivery \/ SettleDelivery
  BY <1>11 DEF PostDelivery, SettleDelivery
<1>12. ASSUME NEW c, StartWalk(c) PROVE Goal
  BY <1>12 DEF StartWalk
<1>13. CASE NextPage \/ ProcessDies \/ PostPanics
  BY <1>13 DEF NextPage, ProcessDies, PostPanics
<1>14. CASE UNCHANGED vars
  BY <1>14 DEF vars
<1> QED
  BY <1>1, <1>2, <1>3, <1>4, <1>5, <1>6, <1>7, <1>8, <1>9, <1>10, <1>11, <1>12, <1>13,
     <1>14 DEF Next

LEMMA SessionsKeep == ASSUME HandlerInv, SessionInv, [Next]_vars PROVE SessionInv'
<1>1. CASE SessionStep
  BY <1>1, SessionStepKeeps DEF HandlerInv
<1>2. ASSUME NEW q \in Requests, PublishEvent(q) PROVE SessionInv'
  BY <1>2, PublishEventKeeps DEF HandlerInv
<1>3. CASE UNCHANGED sessions /\ assigned \subseteq assigned'
  <2>1. sock' = sock /\ chans' = chans /\ chanPanic' = chanPanic
    BY <1>3 DEF sessions
  <2>2. /\ sock \in [Sessions -> SockType] /\ chans \in Seq(ChanType) /\ ~chanPanic
        /\ \A c \in DOMAIN chans :
             SameChannel(chans[c], chans[c]) /\ Len(chans[c].buf) <= Capacity
    BY DEF SessionInv, ChannelInv, SameChannel
  <2> QED BY <1>3, <2>1, <2>2, QuietStep
<1> QED BY <1>1, <1>2, <1>3, SessionsElsewhere

LEMMA SessionsInit == Init => SessionInv
<1> SUFFICES ASSUME Init PROVE SessionInv
  OBVIOUS
<1> DEFINE m == [i \in Ids |-> NoChannel]
           x == [state |-> "new", keepalive |-> FALSE, aborted |-> FALSE, subs |-> m,
                 heard |-> {}]
<1>1. sock = [s \in Sessions |-> x] /\ chans = <<>> /\ ~chanPanic
  BY DEF Init, SessionInit
<1>2. m \in [Ids -> Nat] /\ \A i \in Ids : m[i] = NoChannel
  BY DEF NoChannel
<1> HIDE DEF m
<1>3. x \in SockType /\ x.subs = m /\ x.heard = {}
  BY <1>2 DEF SockType
<1> HIDE DEF x
<1>4. \A s \in Sessions : sock[s] = x
  BY <1>1
<1>5. \A s \in Sessions, id \in Ids : EntryInv(s, id)
  BY <1>2, <1>3, <1>4 DEF EntryInv
<1>6. \A s \in Sessions : SockInv(s)
  BY <1>2, <1>3, <1>4 DEF SockInv
<1>7. sock \in [Sessions -> SockType] /\ chans \in Seq(ChanType) /\ DOMAIN chans = {}
  BY <1>1, <1>3
<1> QED BY <1>1, <1>5, <1>6, <1>7 DEF SessionInv

LEMMA SessionsAlways == Spec => []SessionInv
<1>1. HandlerInv /\ SessionInv /\ [Next]_vars => SessionInv'
  BY SessionsKeep
<1> QED BY <1>1, SessionsInit, HandlerAlways, PTL DEF Spec

----------------------------------------------------------------------------
(* What the sessions promise *)

\* A channel stays with the broker after its session only when its id was given to a
\* second subscription, or when the read loop panicked before the cleanup: complete
\* messages and the end of a session leave none behind.
THEOREM LeaksNeedReuse == Spec => []LeakNeedsReuse
<1>1. SessionInv => LeakNeedsReuse
  <2> SUFFICES ASSUME SessionInv, NEW c \in DOMAIN chans, chans[c].registered,
                      sock[chans[c].session].state = "over", ~chans[c].replaced,
                      ~sock[chans[c].session].aborted
               PROVE  FALSE
    BY DEF LeakNeedsReuse
  <2>1. chans[c].session \in Sessions /\ chans[c].id \in Ids
    BY ChanFields DEF SessionInv
  <2>2. sock[chans[c].session].subs[chans[c].id] = c
    BY DEF SessionInv, ChannelInv
  <2>3. sock[chans[c].session].subs[chans[c].id] = NoChannel
    BY <2>1 DEF SessionInv, SockInv
  <2>4. c \in Nat \ {0}
    BY DEF SessionInv
  <2> QED BY <2>2, <2>3, <2>4 DEF NoChannel
<1> QED BY <1>1, SessionsAlways, PTL

\* However complete messages, reused ids and the end of a session interleave with
\* publications, no channel is closed twice or sent to after its close.
THEOREM ChannelsNeverPanic == Spec => []NoChannelPanic
<1>1. SessionInv => NoChannelPanic
  BY DEF SessionInv, NoChannelPanic
<1> QED BY <1>1, SessionsAlways, PTL

\* A driver's session is sent only events of routes that were at some time assigned to
\* this driver, although the assignment is looked at only when the subscription is made.
THEOREM DriversSeeOwnRoutes == Spec => []DriverSawOwnRoutes
<1>1. SessionInv => DriverSawOwnRoutes
  BY DEF SessionInv, SockInv, OwnRoute, DriverSawOwnRoutes
<1> QED BY <1>1, SessionsAlways, PTL

----------------------------------------------------------------------------
(* Types *)

HosType == [status : {"off", "on"}, onBreak : BOOLEAN]

ClerkInv ==
    /\ hos \in [Drivers -> HosType] /\ up \in BOOLEAN
    /\ load \in Workloads /\ calls \in Nat /\ calls <= load.calls

\* Which steps change the state of the drivers, the workload and its count.
LEMMA NextClerkChange ==
    ASSUME [Next]_vars
    PROVE  /\ UNCHANGED hos \/ \E d \in Drivers, action \in HosActions : UpdateHOS(d, action)
           /\ UNCHANGED load
           /\ UNCHANGED calls \/ (calls < load.calls /\ calls' = calls + 1)
           /\ UNCHANGED up \/ up' = FALSE
<1> DEFINE Goal ==
        /\ UNCHANGED hos \/ \E d \in Drivers, action \in HosActions : UpdateHOS(d, action)
        /\ UNCHANGED load
        /\ UNCHANGED calls \/ (calls < load.calls /\ calls' = calls + 1)
        /\ UNCHANGED up \/ up' = FALSE
<1> SUFFICES Goal
  OBVIOUS
<1> USE DEF book, store, Request
<1>1. ASSUME NEW r \in Routes, OptimizeHandler(r) \/ PatchRouteHandler(r) PROVE Goal
  BY <1>1 DEF OptimizeHandler, PlanRoutes, PatchRouteHandler, PatchRoute
<1>2. ASSUME NEW r \in Routes, NEW d \in Drivers, AssignHandler(r, d) PROVE Goal
  BY <1>2 DEF AssignHandler, AssignRoute
<1>3. ASSUME NEW c, CreateHandler(c) PROVE Goal
  BY <1>3 DEF CreateHandler, Create
<1>4. ASSUME NEW c, NEW x, DeleteHandler(c, x) PROVE Goal
  BY <1>4 DEF DeleteHandler, Delete
<1>5. ASSUME NEW i, WebhookDeliveryRetryHandler(i) PROVE Goal
  BY <1>5 DEF WebhookDeliveryRetryHandler, RetryWebhookDelivery
<1>6. ASSUME NEW q \in Requests, NEW r \in Routes, AdvanceHandler(q, r) PROVE Goal
  BY <1>6 DEF AdvanceHandler, AdvanceRoute
<1>7. ASSUME NEW q \in Requests, NEW events, DriverEventsHandler(q, events) PROVE Goal
  BY <1>7 DEF DriverEventsHandler
<1>8. ASSUME NEW q \in Requests, NEW d \in Drivers, NEW action \in HosActions,
             DriversHandler(q, d, action)
      PROVE  Goal
  BY <1>8 DEF DriversHandler
<1>9. ASSUME NEW q \in Requests, HandlerStep(q) PROVE Goal
  BY <1>9 DEF HandlerStep, TryEvent, AdvanceRoute, ListDriverRoutes, PublishEvent,
              EmitLookup, EmitEnqueue, EnqueueWebhook, Answer
<1>10. ASSUME NEW elapsed, FetchDeliveries(elapsed) PROVE Goal
  BY <1>10 DEF FetchDeliveries
<1>11. CASE PostDelivery \/ SettleDelivery
  BY <1>11 DEF PostDelivery, SettleDelivery, FailWebhookDelivery, MarkWebhookDelivery
<1>12. ASSUME NEW c, StartWalk(c) PROVE Goal
  BY <1>12 DEF StartWalk
<1>13. CASE NextPage \/ SessionStep \/ ProcessDies \/ PostPanics
  BY <1>13 DEF NextPage, SessionStep, ProcessDies, PostPanics
<1>14. CASE UNCHANGED vars
  BY <1>14 DEF vars
<1> QED
  BY <1>1, <1>2, <1>3, <1>4, <1>5, <1>6, <1>7, <1>8, <1>9, <1>10, <1>11, <1>12, <1>13,
     <1>14 DEF Next

LEMMA HosKeeps ==
    ASSUME hos \in [Drivers -> HosType], NEW d \in Drivers, NEW action \in HosActions,
           UpdateHOS(d, action)
    PROVE  hos' \in [Drivers -> HosType]
<1>1. ASSUME NEW x \in HosType, hos' = [hos EXCEPT ![d] = x] PROVE hos' \in [Drivers -> HosType]
  BY <1>1
<1>2. hos[d] \in HosType
  OBVIOUS
<1>3. /\ [hos[d] EXCEPT !.status = "on"] \in HosType
      /\ [hos[d] EXCEPT !.status = "off"] \in HosType
      /\ [hos[d] EXCEPT !.onBreak = TRUE] \in HosType
      /\ [hos[d] EXCEPT !.onBreak = FALSE] \in HosType
  BY <1>2 DEF HosType
<1>4. CASE action = "shift_start"
  <2>1. hos' = [hos EXCEPT ![d] = [hos[d] EXCEPT !.status = "on"]]
    BY <1>4 DEF UpdateHOS
  <2> QED BY <1>1, <1>3, <2>1
<1>5. CASE action = "shift_end"
  <2>1. hos' = [hos EXCEPT ![d] = [hos[d] EXCEPT !.status = "off"]]
    BY <1>5 DEF UpdateHOS
  <2> QED BY <1>1, <1>3, <2>1
<1>6. CASE action = "break_start"
  <2>1. hos' = [hos EXCEPT ![d] = [hos[d] EXCEPT !.onBreak = TRUE]]
    BY <1>6 DEF UpdateHOS
  <2> QED BY <1>1, <1>3, <2>1
<1>7. CASE action = "break_end"
  <2>1. hos' = [hos EXCEPT ![d] = [hos[d] EXCEPT !.onBreak = FALSE]]
    BY <1>7 DEF UpdateHOS
  <2> QED BY <1>1, <1>3, <2>1
<1> QED BY <1>4, <1>5, <1>6, <1>7 DEF HosActions

LEMMA ClerkStep == ASSUME ClerkInv, [Next]_vars PROVE ClerkInv'
<1>1. hos' \in [Drivers -> HosType]
  BY NextClerkChange, HosKeeps DEF ClerkInv
<1>2. load' = load /\ load \in Workloads /\ load.calls \in Nat
  <2>1. load' = load
    BY NextClerkChange
  <2>2. load.calls \in 0 .. MaxCalls /\ MaxCalls \in Nat
    BY ServerAssumption DEF ClerkInv
  <2> QED BY <2>1, <2>2 DEF ClerkInv
<1>3. up' \in BOOLEAN
  BY NextClerkChange DEF ClerkInv
<1>4. calls' \in Nat /\ calls' <= load.calls
  <2>1. calls' = calls \/ (calls < load.calls /\ calls' = calls + 1)
    BY NextClerkChange
  <2>2. calls \in Nat /\ calls <= load.calls
    BY DEF ClerkInv
  <2> QED BY <1>2, <2>1, <2>2
<1> QED BY <1>1, <1>2, <1>3, <1>4 DEF ClerkInv

LEMMA ClerkInit == Init => ClerkInv
<1> SUFFICES ASSUME Init PROVE ClerkInv
  OBVIOUS
<1>1. hos \in [Drivers -> HosType]
  BY DEF Init, StoreInit, HosType
<1>2. load \in Workloads /\ calls = 0 /\ up = TRUE /\ load.calls \in Nat
  BY ServerAssumption DEF Init
<1> QED BY <1>1, <1>2 DEF ClerkInv

LEMMA ClerkAlways == Spec => []ClerkInv
<1>1. ClerkInv /\ [Next]_vars => ClerkInv'
  BY ClerkStep
<1> QED BY <1>1, ClerkInit, PTL DEF Spec

\* The types of the whole state, among them: no broker channel ever holds more than it
\* has room for, a list holds only items that were created, the attempts counted are no
\* more than the POSTs made, and no leg is announced that a route does not have.
THEOREM ServerTypes == Spec => []TypeOK
<1>1. HandlerInv /\ DeliveryInv /\ WalkInv /\ SessionInv /\ ClerkInv => TypeOK
  <2> SUFFICES ASSUME HandlerInv, DeliveryInv, WalkInv, SessionInv, ClerkInv PROVE TypeOK
    OBVIOUS
  <2>1. StoreTypeOK
    <3>1. /\ routes \in [Routes -> [driver : Drivers \union {NoOne},
                                    status : {"", "planned", "assigned", "updated"},
                                    version : Nat, legs : {0, DemoLegs}, done : 0 .. DemoLegs]]
          /\ \A r \in Routes : routes[r].done <= routes[r].legs
      BY DEF HandlerInv, RouteInv, RouteType
    <3>2. hos \in [Drivers -> [status : {"off", "on"}, onBreak : BOOLEAN]]
      BY DEF ClerkInv, HosType
    <3>3. \A c \in Collections : \A i \in DOMAIN lists[c] : lists[c][i] \in 1 .. created[c]
      BY DEF HandlerInv, ListInv
    <3>4. ASSUME NEW i \in DOMAIN queue
          PROVE  /\ queue[i].status \in {"pending", "retry", "delivered", "failed"}
                 /\ queue[i].attempts <= queue[i].posts
      <4>1. queue[i] \in DeliveryType /\ queue[i].attempts \in Nat /\ queue[i].posts \in Nat
        BY DeliveryFacts
      <4>2. queue[i].attempts <= Settled(i)
        BY DeliveryFacts DEF CountInv
      <4>3. Settled(i) = queue[i].posts \/ Settled(i) = queue[i].posts - 1
        BY DEF Settled
      <4>4. queue[i].attempts <= queue[i].posts
        BY <4>1, <4>2, <4>3
      <4> QED BY <4>1, <4>4, DeliveryFields
    <3>5. \A i \in DOMAIN dlq : dlq[i] \in DOMAIN queue
      BY DEF DeliveryInv, KeptInv
    <3> QED BY <3>1, <3>2, <3>3, <3>4, <3>5 DEF StoreTypeOK
  <2>2. SessionTypeOK
    <3>1. ASSUME NEW s \in Sessions
          PROVE  /\ sock[s].state \in {"new", "refused", "open", "over"}
                 /\ sock[s].subs \in [Ids -> 0 .. Len(chans)] /\ sock[s].heard \subseteq Routes
      <4>1. sock[s] \in SockType /\ chans \in Seq(ChanType)
        BY DEF SessionInv
      <4>2. /\ sock[s].state \in {"new", "refused", "open", "over"}
            /\ sock[s].subs \in [Ids -> Nat] /\ sock[s].heard \subseteq Routes
        BY <4>1, SockFields
      <4>3. Len(chans) \in Nat /\ DOMAIN chans = 1 .. Len(chans)
        BY <4>1
      <4>4. ASSUME NEW i \in Ids PROVE sock[s].subs[i] \in 0 .. Len(chans)
        <5>1. sock[s].subs[i] = NoChannel \/ sock[s].subs[i] \in DOMAIN chans
          BY DEF SessionInv, EntryInv
        <5> QED BY <4>3, <5>1 DEF NoChannel
      <4> QED BY <4>2, <4>4
    <3>2. ASSUME NEW c \in DOMAIN chans
          PROVE  /\ chans[c].session \in Sessions /\ chans[c].route \in Routes
                 /\ Len(chans[c].buf) <= Capacity
                 /\ \A k \in DOMAIN chans[c].buf : chans[c].buf[k] \in EventTypes
      <4>1. chans[c] \in ChanType /\ Len(chans[c].buf) <= Capacity
        BY DEF SessionInv, ChannelInv
      <4>2. /\ chans[c].session \in Sessions /\ chans[c].route \in Routes
            /\ chans[c].buf \in Seq(EventTypes)
        BY <4>1, ChanFields
      <4> QED BY <4>1, <4>2
    <3> QED BY <3>1, <3>2 DEF SessionTypeOK
  <2>3. up \in BOOLEAN /\ calls \in 0 .. MaxCalls
    <3>1. /\ up \in BOOLEAN /\ load.calls \in 0 .. MaxCalls /\ calls \in Nat
          /\ calls <= load.calls /\ MaxCalls \in Nat
      BY ServerAssumption DEF ClerkInv
    <3> QED BY <3>1
  <2>4. \A q \in Requests : req[q].pc \in Pcs
    <3>1. \A q \in Requests : req[q] \in ReqType
      BY DEF HandlerInv, RequestInv
    <3> QED BY <3>1, ReqFields
  <2>5. walk.pc \in {"idle", "walking", "done"}
    BY WalkFields DEF WalkInv
  <2>6. worker.answer \in {"none", "ok", "error"}
    BY WorkerFields DEF DeliveryInv, BatchInv
  <2>7. ASSUME NEW r \in Routes PROVE announced[r] \subseteq 1 .. DemoLegs
    <3>1. announced[r] \subseteq 1 .. routes[r].done /\ routes[r] \in RouteType
      BY DEF HandlerInv, AnnouncedInv, RouteInv
    <3>2. routes[r].done \in 0 .. 2
      BY <3>1, RouteFields DEF DemoLegs
    <3>3. 1 .. routes[r].done \subseteq 1 .. 2
      BY <3>2
    <3> QED BY <3>1, <3>3 DEF DemoLegs
  <2> QED BY <2>1, <2>2, <2>3, <2>4, <2>5, <2>6, <2>7 DEF TypeOK, Pcs
<1> QED BY <1>1, HandlerAlways, DeliveryAlways, WalkAlways, SessionsAlways, ClerkAlways, PTL

=============================================================================

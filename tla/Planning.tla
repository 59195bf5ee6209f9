------------------------------ MODULE Planning ------------------------------
(***************************************************************************)
(* One optimize request in the Postgres store, from the pending stops to   *)
(* the answer: PlanRoutes divides the stops, by clustering or with the     *)
(* ALNS search, and writes a route and its legs for every part, statement  *)
(* by statement and outside any transaction.  Only the stops its query     *)
(* returned are planned (see ProblemAssumption).  Clients advance routes   *)
(* they see while the request is still at work.                            *)
(*                                                                         *)
(* A request may fail at every statement; what it wrote stays.             *)
(***************************************************************************)
EXTENDS Optimiser

CONSTANTS
    Now,            \* the time at which routes are laid out
    MaxAdvances     \* bound: advances by clients

ASSUME PlanningAssumption ==
    /\ Now \in Nat /\ MaxAdvances \in Nat
    /\ \A p \in Problems : p.algorithm \in {"greedy", "alns"}

VARIABLES
    todo,       \* the orders still to be laid out; an empty one is a route without legs
    db,         \* routes and route_legs: for each route its order, its legs, whether it
                \* was advanced beyond the legs it had (ahead)
    clock,      \* curr: when the last leg laid out ends
    driveCum,   \* the drive time since the last break
    emitted,    \* the break legs hos.break.planned was emitted for: <<route, seq>>
    answer,     \* the break legs of the routes read back for the answer
    published,  \* the break legs published to the streams
    advances

table == <<todo, db, clock, driveCum, emitted, answer, published, advances>>
vars  == <<prob, pc, solver, table>>

Init ==
    /\ prob \in Problems
    /\ pc = "request"
    /\ curr = NoPlans /\ best = NoPlans /\ removed = <<>>
    /\ insertOp = "greedy" /\ iter = 0 /\ scan = Start
    /\ todo = <<>> /\ db = <<>> /\ clock = Now /\ driveCum = 0
    /\ emitted = {} /\ answer = {} /\ published = {} /\ advances = 0

----------------------------------------------------------------------------
(* The greedy planner: clusters around seeds that lie far apart, each      *)
(* ordered by nearest neighbour and improved by 2-opt.                     *)

\* Farthest-first: the next seed is the stop farthest from its nearest seed.
Seeds ==
    LET count == Min({prob.vehicles, prob.n})
        gap(S, i) == Min({Dist(At(i), At(s)) : s \in S})
        first[c \in 1 .. count] ==
            IF c = 1 THEN <<1>>
            ELSE LET S == ToSet(first[c - 1])
                 IN  Append(first[c - 1],
                            FirstLeast(Stops \ S, LAMBDA i : -gap(S, i)))
    IN  first[count]

\* Mutant: a stop between two seeds is in both clusters.
ClusterWithTies(c) ==
    {i \in Stops : \A d \in DOMAIN Seeds :
        Dist(At(i), At(Seeds[c])) <= Dist(At(i), At(Seeds[d]))}

\* The stops nearer to the c-th seed than to any other, a tie going to the first seed.
Cluster(c) ==
    {i \in Stops :
        c = FirstLeast(DOMAIN Seeds, LAMBDA d : Dist(At(i), At(Seeds[d])))}

NearestNeighbour(start, S) ==
    LET order[len \in 1 .. Cardinality(S)] ==
            IF len = 1 THEN <<start>>
            ELSE LET o == order[len - 1]
                 IN  Append(o, FirstLeast(S \ ToSet(o), LAMBDA j : Dist(At(Last(o)), At(j))))
    IN  order[Cardinality(S)]

\* One pass over all reversals, in the order of the two loops, and a second pass if the
\* first has changed something.
ImproveOrder2Opt(o) ==
    LET n == Len(o)
        try(q, i, k) ==
            LET r == Reversed(q, i, k)
            IN  IF 2 <= i /\ i < k /\ k < n /\ Shorter(PathDistance(r), PathDistance(q))
                THEN r ELSE q
        pass(q) ==
            LET tried[m \in 0 .. n * n] ==
                    IF m = 0 THEN q ELSE try(tried[m - 1], m \div n, m % n)
            IN  tried[n * n]
    IN  IF pass(o) = o THEN o ELSE pass(pass(o))

\* A cluster of fewer than two stops becomes a route without legs.
GreedyOrder(c) ==
    IF Cardinality(Cluster(c)) < 2 THEN <<>>
    ELSE ImproveOrder2Opt(NearestNeighbour(Seeds[c], Cluster(c)))

PlanEmpty ==
    /\ pc = "request" /\ prob.n < 2
    /\ todo' = << <<>> >>
    /\ pc' = "route"
    /\ UNCHANGED <<prob, solver, db, clock, driveCum, emitted, answer, published, advances>>

PlanGreedy ==
    /\ pc = "request" /\ prob.n >= 2 /\ prob.algorithm = "greedy"
    /\ todo' = [c \in DOMAIN Seeds |-> GreedyOrder(c)]
    /\ pc' = "route"
    /\ UNCHANGED <<prob, solver, db, clock, driveCum, emitted, answer, published, advances>>

PlanAlns ==
    /\ pc = "request" /\ prob.n >= 2 /\ prob.algorithm = "alns"
    /\ pc' = "seed"
    /\ UNCHANGED <<prob, solver, table>>

\* The plans of the best solution, the empty ones left out.  The search is gone.
TakeSolution ==
    /\ pc = "solved"
    /\ todo' = Subsequence([v \in Vehicles |-> best[v]], {v \in Vehicles : best[v] # <<>>})
    /\ pc' = "route"
    /\ curr' = NoPlans /\ best' = NoPlans /\ removed' = <<>>
    /\ insertOp' = "greedy" /\ iter' = 0 /\ scan' = Start
    /\ UNCHANGED <<prob, db, clock, driveCum, emitted, answer, published, advances>>

----------------------------------------------------------------------------
(* A route and its legs. *)

route == Len(db)
legs == db[route].legs
order == db[route].order

\* The stops of the order that have a leg, and the place of the next one.
hop == db[route].laid

\* The search starts at the first depot, the greedy planner at the nearest one.
Depot ==
    IF prob.algorithm = "alns" THEN prob.depots[1]
    ELSE prob.depots[FirstLeast(DOMAIN prob.depots, LAMBDA d : Dist(At(order[1]), prob.depots[d]))]

InsertRoute ==
    /\ pc = "route" /\ todo # <<>>
    /\ db' = Append(db, [order |-> Head(todo), legs |-> <<>>, laid |-> 0, ahead |-> FALSE])
    /\ todo' = Tail(todo)
    /\ clock' = Now
    /\ driveCum' = 0
    /\ pc' = IF Head(todo) = <<>> THEN "read" ELSE IF prob.depots = <<>> THEN "hops" ELSE "depot"
    /\ UNCHANGED <<prob, solver, emitted, answer, published, advances>>

\* A leg that is driven from a to b; stop 0 is the depot.
DriveLeg(from, to, drive, status) ==
    LET arrival == IF to = 0 THEN clock + drive ELSE Max({clock + drive, prob.opens[to]})
    IN  [kind |-> "drive", from |-> from, to |-> to, drive |-> drive, arrival |-> arrival,
         departure |-> IF to = 0 THEN arrival ELSE arrival + prob.service[to],
         status |-> status]

BreakLeg ==
    [kind |-> "break", from |-> 0, to |-> 0, drive |-> 0, arrival |-> clock,
     departure |-> clock + prob.breakSec, status |-> "pending"]

\* Mutant: a break takes no time.
AddLegKeepsClock(leg) ==
    /\ db' = [db EXCEPT ![route].legs = Append(@, leg),
                        ![route].laid = IF leg.kind = "drive" THEN @ + 1 ELSE @]
    /\ clock' = IF leg.kind = "break" THEN clock ELSE leg.departure
    /\ driveCum' = IF leg.kind = "break" THEN 0 ELSE driveCum + leg.drive
    /\ UNCHANGED <<prob, solver, todo, answer, published, advances>>

AddLeg(leg) ==
    /\ db' = [db EXCEPT ![route].legs = Append(@, leg),
                        ![route].laid = IF leg.kind = "drive" THEN @ + 1 ELSE @]
    /\ clock' = leg.departure
    /\ driveCum' = IF leg.kind = "break" THEN 0 ELSE driveCum + leg.drive
    /\ UNCHANGED <<prob, solver, todo, answer, published, advances>>

\* Mutant: the first leg is inserted as the others are.
InsertDepotLegPending ==
    /\ pc = "depot"
    /\ AddLeg(DriveLeg(0, order[1], Dist(Depot, At(order[1])), "pending"))
    /\ pc' = "hops"
    /\ UNCHANGED emitted

InsertDepotLeg ==
    /\ pc = "depot"
    /\ AddLeg(DriveLeg(0, order[1], Dist(Depot, At(order[1])), "in_progress"))
    /\ pc' = "hops"
    /\ UNCHANGED emitted

\* The stop the next leg starts at, as its place in the order.
from == IF prob.depots = <<>> THEN hop + 1 ELSE hop

NextDrive == Dist(At(order[from]), At(order[from + 1]))

\* Mutant: the drive still to come is not counted.
BreakOverdue == prob.hosMax > 0 /\ driveCum > prob.hosMax /\ legs # <<>>

BreakDue == prob.hosMax > 0 /\ driveCum + NextDrive > prob.hosMax /\ legs # <<>>

\* emitEvent is best effort: it may come to nothing.
InsertBreak ==
    /\ pc = "hops" /\ from < Len(order) /\ BreakDue
    /\ AddLeg(BreakLeg)
    /\ emitted' \in {emitted, emitted \union {<<route, Len(legs) + 1>>}}
    /\ pc' = "drive"

InsertLeg ==
    /\ \/ pc = "hops" /\ from < Len(order) /\ ~BreakDue
       \/ pc = "drive"
    /\ AddLeg(DriveLeg(order[from], order[from + 1], NextDrive,
                       IF legs = <<>> /\ prob.depots = <<>> THEN "in_progress" ELSE "pending"))
    /\ pc' = "hops"
    /\ UNCHANGED emitted

\* The way back is not subject to the drive limit.
InsertReturnLeg ==
    /\ pc = "hops" /\ from = Len(order) /\ prob.depots # <<>>
    /\ AddLeg(DriveLeg(Last(order), 0, Dist(At(Last(order)), Depot), "pending"))
    /\ pc' = "read"
    /\ UNCHANGED emitted

NoReturnLeg ==
    /\ pc = "hops" /\ from = Len(order) /\ prob.depots = <<>>
    /\ pc' = "read"
    /\ UNCHANGED <<prob, solver, table>>

\* The route is read back for the answer; an error there is ignored and leaves an empty
\* route in the answer, unless there were not enough stops to plan.
ReadRoute ==
    /\ pc = "read"
    /\ \/ answer' = answer \union {<<route, s>> : s \in {x \in DOMAIN legs : legs[x].kind = "break"}}
          /\ pc' = "route"
       \/ answer' = answer /\ pc' = IF prob.n < 2 THEN "failed" ELSE "route"
    /\ UNCHANGED <<prob, solver, todo, db, clock, driveCum, emitted, published, advances>>

\* OptimizeHandler publishes the breaks of the routes it got and answers.
Respond ==
    /\ pc = "route" /\ todo = <<>>
    /\ published' = IF prob.breakSec > 0 THEN answer ELSE {}
    /\ pc' = "answered"
    /\ UNCHANGED <<prob, solver, todo, db, clock, driveCum, emitted, answer, advances>>

\* An INSERT fails: the request ends, the rows written so far stay.
StatementFails ==
    /\ \/ pc = "request"
       \/ pc = "route" /\ todo # <<>>
       \/ pc \in {"depot", "drive"}
       \/ pc = "hops" /\ (from < Len(order) \/ prob.depots # <<>>)
    /\ pc' = "failed"
    /\ UNCHANGED <<prob, solver, table>>

Planner ==
    \/ PlanEmpty \/ PlanGreedy \/ PlanAlns \/ TakeSolution
    \/ InsertRoute \/ InsertDepotLeg \/ InsertBreak \/ InsertLeg
    \/ InsertReturnLeg \/ NoReturnLeg \/ ReadRoute \/ Respond
    \/ (Solve /\ UNCHANGED table)

\* AdvanceRoute on a route some client already sees (RouteAdvance has the details): the
\* first non-visited leg is visited, the one behind it is begun, if it is there.
Advance(r) ==
    LET l == db[r].legs
        Unvisited == {s \in DOMAIN l : l[s].status # "visited"}
        s == Min(Unvisited)
    IN  /\ Unvisited # {} /\ advances < MaxAdvances
        /\ db' = [db EXCEPT ![r].legs = [x \in DOMAIN l |->
                        IF x = s THEN [l[x] EXCEPT !.status = "visited"]
                        ELSE IF x = s + 1 THEN [l[x] EXCEPT !.status = "in_progress"]
                        ELSE l[x]],
                     ![r].ahead = @ \/ s = Len(l)]
        /\ advances' = advances + 1
        /\ UNCHANGED <<prob, pc, solver, todo, clock, driveCum, emitted, answer, published>>

\* The request has ended.
Done == pc \in {"answered", "failed"} /\ UNCHANGED vars

Next == Planner \/ StatementFails \/ (\E r \in DOMAIN db : Advance(r)) \/ Done

Spec == Init /\ [][Next]_vars

\* The goroutine that serves the request runs on.
FairSpec == Spec /\ WF_vars(Planner)

\* The same, with what ENABLED comes to written out, for TLC: a step of the request is
\* possible until the request has ended, and only clients' steps count advances.
RunsOn == <>[](pc \in {"answered", "failed"}) \/ []<><<advances' = advances>>_vars

SteadySpec == Spec /\ RunsOn

----------------------------------------------------------------------------
(* Properties *)

Searching ==
    {"head", "insert", "oropt", "oropt-next", "twoopt", "cross", "star", "accept", "solved"}

Phases ==
    {"request", "seed", "route", "depot", "hops", "drive", "read", "answered", "failed"}
    \union Searching

LegType ==
    [kind : {"drive", "break"}, from : 0 .. MaxStops, to : 0 .. MaxStops, drive : Nat,
     arrival : Nat, departure : Nat, status : {"pending", "in_progress", "visited"}]

\* The types of the state; Solve counts no more iterations than its limit allows.
TypeOK ==
    /\ pc \in Phases
    /\ curr \in [Vehicles -> Seq(Stops)] /\ best \in [Vehicles -> Seq(Stops)]
    /\ removed \in Seq(Stops) /\ insertOp \in InsertOps /\ iter \in 0 .. prob.limit
    /\ todo \in Seq(Seq(Stops)) /\ clock \in Nat /\ driveCum \in Nat
    /\ \A r \in DOMAIN db :
        /\ db[r].order \in Seq(Stops) /\ db[r].legs \in Seq(LegType)
        /\ db[r].laid \in 0 .. Len(db[r].order) + 1 /\ db[r].ahead \in BOOLEAN
    /\ \A S \in {emitted, answer, published} : \A x \in S : x[1] \in DOMAIN db
    /\ advances \in 0 .. MaxAdvances

\* A step of the search brings no stop in, and only the segment exchange loses one.
KeepsStops ==
    LET now  == Served(curr) \union ToSet(removed)
        then == Served(curr') \union ToSet(removed')
    IN  pc \in Searching \ {"solved"} => then \subseteq now /\ (then = now \/ pc = "star")

\* Removal and reinsertion, or-opt, 2-opt and the exchange of single stops keep the stops
\* of the current solution together; only the segment exchange of twoOptStarImprove
\* can lose one, and a lost stop never comes back, because only stops that are in the
\* plans are ever removed and reinserted.
StopsInPlay == [][KeepsStops]_vars

\* A missing stop costs more than all the driving and all the delay of a solution that
\* serves every stop once.
MissingIsWorst ==
    LET far  == Max({0} \union Range(prob.at) \union Range(prob.depots))
        busy == Max({0} \union Range(prob.service))
        delay == Max({0} \union {prob.n * (far + busy) - prob.closes[i] : i \in Stops})
    IN  prob.fail > prob.n * (far + prob.late * delay)

Carriable == {n \in Stops : \E v \in Vehicles : FeasibleAdd(v, n)}

\* No stop is in two places of the orders.
NoneTwice(orders) ==
    \A v, w \in DOMAIN orders : \A i \in DOMAIN orders[v], j \in DOMAIN orders[w] :
        orders[v][i] = orders[w][j] => v = w /\ i = j

\* What Solve returns serves every stop that some vehicle may carry, each exactly once,
\* although the current solution may have lost stops or hold them twice.
BestServesAll ==
    pc \in Searching /\ MissingIsWorst =>
        Served(best) = Carriable /\ NoneTwice(best)

\* The stops that wait for a plan; Stops are those the request has got to know of.
Pending == 1 .. prob.pending

\* The legs that bring a route to stop n; a route without a depot begins at its first stop.
Visits(n) ==
    (UNION {{<<r, s>> : s \in {x \in DOMAIN db[r].legs : db[r].legs[x].to = n}} :
             r \in DOMAIN db})
    \union {<<r, 0>> : r \in {q \in DOMAIN db : db[q].legs # <<>> /\ db[q].legs[1].from = n}}

\* A plan that was answered visits no stop twice, and leaves out only the pending stops
\* that the query did not return, stops that no vehicle may carry, and one stop for each
\* route without legs.
PlannedOnce ==
    pc = "answered" /\ (prob.algorithm = "alns" => MissingIsWorst) =>
        LET Carried == IF prob.algorithm = "alns" THEN Carriable ELSE Stops
            Unread  == Pending \ Stops
        IN  /\ \A n \in Pending : Cardinality(Visits(n)) <= 1
            /\ Cardinality({n \in Pending : Visits(n) = {}} \ (Unread \union (Stops \ Carried)))
                 <= Cardinality({r \in DOMAIN db : db[r].legs = <<>>})

\* The drive time of the legs l since the last break, after each leg.
DrivenSince(l) ==
    LET since[s \in 0 .. Len(l)] ==
            IF s = 0 THEN 0
            ELSE IF l[s].kind = "break" THEN 0 ELSE since[s - 1] + l[s].drive
    IN  since

\* Legs that follow each other without a break stay within the drive limit, but for the
\* way back to the depot; a leg on its own may be longer than the limit.
DriveLimitKept ==
    prob.hosMax > 0 =>
        \A r \in DOMAIN db : LET l == db[r].legs IN
            \A s \in DOMAIN l \ {1} :
                l[s].to # 0 /\ l[s - 1].kind = "drive" => DrivenSince(l)[s] <= prob.hosMax

\* The times of a route fit together: a leg is driven after the one before it has ended,
\* breaks included, and a stop that a leg leads to is reached when its window is open at
\* the earliest and left when it was served.  No leg leads to the first stop of a route
\* without a depot: such a route leaves it at Now, whatever its window and service time.
TimesAddUp ==
    \A r \in DOMAIN db : LET l == db[r].legs IN
        \A s \in DOMAIN l :
            /\ l[s].arrival >= l[s].drive + (IF s = 1 THEN Now ELSE l[s - 1].departure)
            /\ l[s].to # 0 => /\ l[s].arrival >= prob.opens[l[s].to]
                              /\ l[s].departure >= l[s].arrival + prob.service[l[s].to]
            /\ l[s].kind = "break" => l[s].departure >= l[s].arrival + prob.breakSec

\* At any moment, also while it is being laid out and after a failed request, the first
\* leg of a route that was not visited is in progress, unless a client advanced the route
\* to the end of the legs it had so far.
CurrentLegBegun ==
    \A r \in DOMAIN db : LET l == db[r].legs IN
        \A s \in DOMAIN l :
            l[s].status # "visited" /\ (\A x \in 1 .. s - 1 : l[x].status = "visited") =>
                l[s].status = "in_progress" \/ db[r].ahead

\* A request that does not use the regret insertion is answered or fails.
PlanningReturns ==
    prob.algorithm = "greedy" \/ prob.inserts = {"greedy"} ~> pc \in {"answered", "failed"}

\* timeBudgetMs: "Max wall-clock time for optimizer in milliseconds (ALNS)".  A search
\* ends.
SearchReturns == pc = "seed" ~> pc = "solved"

=============================================================================

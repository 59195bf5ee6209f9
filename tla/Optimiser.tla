----------------------------- MODULE Optimiser -----------------------------
(***************************************************************************)
(* The ALNS search (opt.Solve): a greedy seed, then iterations that take   *)
(* a few stops out of the current solution, put them back, improve the     *)
(* plans locally and keep the best solution met.                           *)
(*                                                                         *)
(* Stops lie on a line, so that distance, drive time and their cost are    *)
(* one number.  The random choices are nondeterministic: the operators     *)
(* (their adaptive weights only bias the choice), the stops removed, and   *)
(* the moment the time budget ends.  Demands are left out: every problem   *)
(* PlanRoutes builds sets them to zero.  A plan's clock starts at zero and *)
(* the time windows count from the epoch, as in the code.                  *)
(***************************************************************************)
EXTENDS Integers, Sequences, SequencesExt, Lists

CONSTANTS
    Problems,   \* the requests to plan: see ProblemAssumption
    MaxStops,   \* the stops the query returns at most: LIMIT 500 in the code
    MaxPlans,   \* bound: vehicles of a problem
    Skills,     \* what stops require and vehicles offer
    Far         \* math.MaxFloat64; also the end of a time window without end

InsertOps == {"greedy", "regret"}

ASSUME ProblemAssumption ==
    /\ MaxStops \in Nat /\ MaxPlans \in Nat \ {0} /\ Far \in Nat
    /\ \A p \in Problems :
        \* Of the pending stops the first n were returned: at most MaxStops, and any
        \* fewer when an error ends the loop over the rows, which nobody asks for.
        /\ p.pending \in Nat /\ p.n \in 0 .. MaxStops /\ p.n <= p.pending
        /\ p.vehicles \in 1 .. MaxPlans
        /\ p.at \in [1 .. p.n -> Nat] /\ p.service \in [1 .. p.n -> Nat]
        /\ p.opens \in [1 .. p.n -> Nat] /\ p.closes \in [1 .. p.n -> Nat]
        /\ p.needs \in [1 .. p.n -> SUBSET Skills]
        /\ p.skills \in [1 .. p.vehicles -> SUBSET Skills]
        /\ p.depots \in Seq(Nat) /\ p.hosMax \in Nat /\ p.breakSec \in Nat
        /\ p.fail \in Nat /\ p.late \in Nat /\ p.limit \in Nat \ {0}
        /\ p.inserts \in (SUBSET InsertOps) \ {{}}

VARIABLES
    prob,       \* the problem
    pc,         \* what is done next
    curr, best, \* the current and the best solution: a sequence of stops per vehicle
    removed,    \* the stops taken out and not put back yet
    insertOp,   \* the insertion operator of this iteration
    iter,       \* Metrics.Iterations
    scan        \* the loop variables of the seed and of or-opt

solver == <<curr, best, removed, insertOp, iter, scan>>

Stops  == 1 .. prob.n
Vehicles == 1 .. prob.vehicles
NoPlans  == [v \in Vehicles |-> <<>>]
Start    == [v |-> 1, i |-> 1, j |-> 1, found |-> <<>>, foundCost |-> Far,
             improved |-> FALSE]

\* The first element of S with the least d.
FirstLeast(S, d(_)) ==
    CHOOSE x \in S : \A y \in S : d(x) < d(y) \/ (d(x) = d(y) /\ x <= y)

Dist(a, b) == IF a < b THEN b - a ELSE a - b
At(n) == prob.at[n]

\* The drive to the i-th stop of an order: from the stop before it, or from the depot.
Hop(o, i) ==
    IF i > 1 THEN Dist(At(o[i - 1]), At(o[i]))
    ELSE IF prob.depots = <<>> THEN 0 ELSE Dist(prob.depots[1], At(o[1]))

PathDistance(o) == MapThenSumSet(LAMBDA i : Dist(At(o[i - 1]), At(o[i])), 2 .. Len(o))

Served(plans) == UNION {ToSet(plans[v]) : v \in Vehicles}

----------------------------------------------------------------------------
(* What a plan costs and whether it can be driven. *)

\* How late the i-th stop is served, by the clock of the cost function, which knows
\* neither breaks nor waiting.
Lateness(o, i) ==
    LET arrival == Total([j \in 1 .. i |-> Hop(o, j)])
                   + Total([j \in 1 .. i - 1 |-> prob.service[o[j]]])
    IN  Max({0, arrival - prob.closes[o[i]]})

\* Mutant: neither lateness nor missing stops are counted.
CostWithoutFailed(plans) ==
    Total([v \in Vehicles |-> Total([i \in DOMAIN plans[v] |-> Hop(plans[v], i)])])

PlanCost(o) == Total([i \in DOMAIN o |-> Hop(o, i) + prob.late * Lateness(o, i)])

Cost(plans) ==
    Total([v \in Vehicles |-> PlanCost(plans[v])])
    + prob.fail * Cardinality(Stops \ Served(plans))

\* schedulePlan: with the breaks the drive limit demands and the waits for windows to
\* open, every stop is reached before its window closes.
Schedulable(o) ==
    LET leave[i \in 0 .. Len(o)] ==
            IF i = 0 THEN [t |-> 0, since |-> 0, ok |-> TRUE]
            ELSE LET prev  == leave[i - 1]
                     drive == Hop(o, i)
                     rest  == prob.hosMax > 0 /\ prev.since + drive > prob.hosMax
                     reach == prev.t + drive + (IF rest THEN prob.breakSec ELSE 0)
                     arr   == Max({reach, prob.opens[o[i]]})
                 IN  [t     |-> arr + prob.service[o[i]],
                      since |-> drive + (IF rest THEN 0 ELSE prev.since),
                      ok    |-> prev.ok /\ arr <= prob.closes[o[i]]]
    IN  leave[Len(o)].ok

\* A vehicle without any skill on record takes every stop.
FeasibleAdd(v, n) == prob.skills[v] = {} \/ prob.needs[n] \subseteq prob.skills[v]

FeasibleAddAt(v, n, p) == FeasibleAdd(v, n) /\ Schedulable(InsertAt(curr[v], p, n))

\* An empty plan without a depot is entered from latitude and longitude 0.
InsertCost(v, n, p) ==
    LET o    == curr[v]
        prev == IF p > 1 THEN At(o[p - 1])
                ELSE IF prob.depots # <<>> THEN prob.depots[1]
                ELSE IF o # <<>> THEN At(o[1]) ELSE 0
        next == IF p <= Len(o) THEN At(o[p]) ELSE prev
    IN  Dist(prev, At(n)) + Dist(At(n), next) - Dist(prev, next) + prob.service[n]

----------------------------------------------------------------------------
(* The seed. *)

SeedCandidates(v) == {n \in Stops \ Served(curr) : FeasibleAdd(v, n)}

AppendCost(v, n) == IF curr[v] = <<>> THEN 0 ELSE Dist(At(Last(curr[v])), At(n))

\* The vehicles take turns; each appends the nearest stop it may carry.
GreedySeed ==
    /\ pc = "seed" /\ \E v \in Vehicles : SeedCandidates(v) # {}
    /\ LET v == scan.v
           n == FirstLeast(SeedCandidates(v), LAMBDA m : AppendCost(v, m))
       IN  curr' = IF SeedCandidates(v) = {} THEN curr
                   ELSE [curr EXCEPT ![v] = Append(@, n)]
    /\ scan' = [scan EXCEPT !.v = (@ % prob.vehicles) + 1]
    /\ UNCHANGED <<prob, pc, best, removed, insertOp, iter>>

\* A round in which no vehicle can take any of the stops left ends the seed.
SeedEnds ==
    /\ pc = "seed" /\ \A v \in Vehicles : SeedCandidates(v) = {}
    /\ best' = curr
    /\ scan' = Start
    /\ pc' = "head"
    /\ UNCHANGED <<prob, curr, removed, insertOp, iter>>

----------------------------------------------------------------------------
(* One iteration: remove, insert, improve, accept. *)

\* The time budget or the iteration limit is used up.
SearchEnds ==
    /\ pc = "head"
    /\ iter' = iter \/ (iter + 1 >= prob.limit /\ iter' = iter + 1)
    /\ pc' = "solved"
    /\ UNCHANGED <<prob, curr, best, removed, insertOp, scan>>

\* Stops of the plans, drawn one by one: any of them, in any order.
PickRandomNodes(k) ==
    UNION {SetToSeqs(S) : S \in kSubset(Min({k, Cardinality(Served(curr))}), Served(curr))}

\* How related two stops are: near, and with windows that overlap.  A window without an
\* end has the zero time there and overlaps with none.
Related(s, n) ==
    LET overlap == Min({prob.closes[s], prob.closes[n]}) - Max({prob.opens[s], prob.opens[n]})
    IN  Dist(At(s), At(n))
        - (IF Far \in {prob.closes[s], prob.closes[n]} THEN 0 ELSE 1000 * Max({0, overlap}))

\* A seed stop and the assigned ones most related to it, the most related first.  A stop
\* that the plans hold twice is related twice.
ShawRemoval(k) ==
    LET Assigned == UNION {{v} \X (DOMAIN curr[v]) : v \in Vehicles}
        stop(x) == curr[x[1]][x[2]]
        picks(s) ==
            LET Others  == {x \in Assigned : stop(x) # s}
                near(x) == Related(s, stop(x))
            IN  {q \in UNION {SetToSeqs(R) :
                        R \in kSubset(Min({k - 1, Cardinality(Others)}), Others)} :
                    \A i \in DOMAIN q : \A y \in Others \ {q[j] : j \in 1 .. i - 1} :
                        near(q[i]) <= near(y)}
    IN  UNION {{<<s>> \o [i \in DOMAIN q |-> stop(q[i])] : q \in picks(s)} :
                s \in Served(curr)}

\* removeNodes, for one plan.
Without(o, S) == Subsequence(o, {i \in DOMAIN o : o[i] \notin S})

\* Mutant: the iteration limit is not looked at.
RemoveNodesUnlimited ==
    /\ pc = "head"
    /\ iter' = iter + 1
    /\ \E k \in 1 .. 3 : \E S \in PickRandomNodes(k) :
        /\ removed' = S
        /\ curr' = [v \in Vehicles |-> Without(curr[v], ToSet(S))]
    /\ insertOp' \in prob.inserts
    /\ pc' = "insert"
    /\ UNCHANGED <<prob, best, scan>>

RemoveNodes ==
    /\ pc = "head" /\ iter + 1 < prob.limit
    /\ iter' = iter + 1
    /\ \E k \in 1 .. 3 : \E S \in PickRandomNodes(k) \union ShawRemoval(k) :
        /\ removed' = S
        /\ curr' = [v \in Vehicles |-> Without(curr[v], ToSet(S))]
    /\ insertOp' \in prob.inserts
    /\ pc' = "insert"
    /\ UNCHANGED <<prob, best, scan>>

\* Where each removed stop may go; the ties between places are broken either way.
Options(x) ==
    UNION {{<<v, p>> : p \in {q \in 1 .. Len(curr[v]) + 1 : FeasibleAddAt(v, removed[x], q)}} :
            v \in Vehicles}

PlaceCost(x, o) == InsertCost(o[1], removed[x], o[2])

Cheapest(x) == Min({PlaceCost(x, o) : o \in Options(x)})

\* What it costs to miss the cheapest place and take the second one.
Regret(x) ==
    LET first == CHOOSE o \in Options(x) : PlaceCost(x, o) = Cheapest(x)
        others == {PlaceCost(x, o) : o \in Options(x) \ {first}}
    IN  IF others = {} THEN Far ELSE Min(others) - Cheapest(x)

\* The removed stops the operator would put back next.
NextToInsert ==
    LET Placeable == {x \in DOMAIN removed : Options(x) # {}}
    IN  {x \in Placeable : \A y \in Placeable :
            IF insertOp = "greedy" THEN Cheapest(x) <= Cheapest(y)
                                   ELSE Regret(x) >= Regret(y)}

InsertCheapest ==
    /\ pc = "insert"
    /\ \E x \in NextToInsert : \E o \in Options(x) :
        /\ PlaceCost(x, o) = Cheapest(x)
        /\ curr' = [curr EXCEPT ![o[1]] = InsertAt(@, o[2], removed[x])]
        /\ removed' = RemoveAt(removed, x)
    /\ UNCHANGED <<prob, pc, best, insertOp, iter, scan>>

\* Mutant: a stop without a feasible place is left out.
InsertOrDrop ==
    /\ pc = "insert" /\ removed # <<>> /\ NextToInsert = {}
    /\ removed' = Tail(removed)
    /\ UNCHANGED <<prob, pc, curr, best, insertOp, iter, scan>>

\* No stop has a feasible place: one goes to the end of the shortest plan.
InsertAnyway ==
    /\ pc = "insert" /\ removed # <<>> /\ NextToInsert = {}
    /\ LET v == FirstLeast(Vehicles, LAMBDA w : Len(curr[w]))
       IN  curr' = [curr EXCEPT ![v] = Append(@, Head(removed))]
    /\ removed' = Tail(removed)
    /\ UNCHANGED <<prob, pc, best, insertOp, iter, scan>>

\* The regret insertion is followed by or-opt, the greedy one is not.
InsertEnds ==
    /\ pc = "insert" /\ removed = <<>>
    /\ pc' = IF insertOp = "regret" THEN "oropt" ELSE "twoopt"
    /\ scan' = Start
    /\ UNCHANGED <<prob, curr, best, removed, insertOp, iter>>

\* orOptLocalImprove, the body of its innermost loop: move stop i in front of place j.
\* A place behind the end of the shortened order is moved back to its end, in the loop
\* variable itself.
Relocated(o, i, j) == InsertAt(RemoveAt(o, i), j, o[i])

Clamped(j, len) == Min({j, len})

OrOptTry ==
    /\ pc = "oropt" /\ scan.i <= Len(curr[scan.v]) /\ scan.j <= Len(curr[scan.v]) + 1
    /\ LET o == curr[scan.v]
           skip == scan.j \in {scan.i, scan.i + 1}
           j == Clamped(scan.j, Len(o))
           cand == Relocated(o, scan.i, j)
           c == Cost([curr EXCEPT ![scan.v] = cand])
       IN  scan' = IF skip THEN scan
                   ELSE IF Schedulable(cand) /\ c < scan.foundCost
                        THEN [scan EXCEPT !.j = j, !.found = cand, !.foundCost = c]
                        ELSE [scan EXCEPT !.j = j]
    /\ pc' = "oropt-next"
    /\ UNCHANGED <<prob, curr, best, removed, insertOp, iter>>

\* j++
OrOptNext ==
    /\ pc = "oropt-next"
    /\ scan' = [scan EXCEPT !.j = @ + 1]
    /\ pc' = "oropt"
    /\ UNCHANGED <<prob, curr, best, removed, insertOp, iter>>

\* The loop over the places ends, or the loop over the stops.
OrOptOuter ==
    /\ pc = "oropt" /\ LET n == Len(curr[scan.v]) IN scan.i > n \/ scan.j > n + 1
    /\ LET improves == scan.foundCost < Cost(curr)
           again == improves \/ scan.improved
       IN  IF scan.i <= Len(curr[scan.v])
           THEN /\ scan' = [scan EXCEPT !.i = @ + 1, !.j = 1]
                /\ UNCHANGED <<pc, curr>>
           ELSE /\ curr' = IF improves THEN [curr EXCEPT ![scan.v] = scan.found] ELSE curr
                /\ scan' = IF scan.v < prob.vehicles
                           THEN [Start EXCEPT !.v = scan.v + 1, !.improved = again]
                           ELSE Start
                /\ pc' = IF scan.v < prob.vehicles \/ again THEN "oropt" ELSE "twoopt"
    /\ UNCHANGED <<prob, best, removed, insertOp, iter>>

----------------------------------------------------------------------------
(* The local improvements: any improving change, until there is none. *)

\* Mutant: an equal length counts as an improvement.
NoLonger(new, old) == new <= old

Shorter(new, old) == new < old

Reversed(o, i, k) == [x \in DOMAIN o |-> IF x \in i .. k THEN o[i + k - x] ELSE o[x]]

\* The reversals inside a plan; its first and last stop stay.
TwoOptMoves(v) ==
    UNION {{Reversed(curr[v], i, k) : k \in i + 1 .. Len(curr[v]) - 1} :
            i \in 2 .. Len(curr[v]) - 2}

TwoOptBetter ==
    UNION {{[curr EXCEPT ![v] = c] : c \in {d \in TwoOptMoves(v) :
                Schedulable(d) /\ Shorter(PathDistance(d), PathDistance(curr[v]))}} :
            v \in Vehicles}

\* Two plans give each other one stop.
CrossMoves(a, b) ==
    {<<ReplaceAt(curr[a], i, curr[b][j]), ReplaceAt(curr[b], j, curr[a][i])>> :
        i \in DOMAIN curr[a], j \in DOMAIN curr[b]}

\* append(append(o[:i], seg...), o[i+len:]...): the inner append writes into the array
\* the rest of the order is then read from, so a segment that is longer than the one it
\* replaces overwrites the stop behind it.
Spliced(o, i, len, seg) ==
    LET overwritten == [x \in DOMAIN o |->
            IF x \in i .. i + Len(seg) - 1 THEN seg[x - i + 1] ELSE o[x]]
    IN  SubSeq(o, 1, i - 1) \o seg \o SubSeq(overwritten, i + len, Len(o))

\* Two plans give each other segments of one or two stops.
StarMoves(a, b) ==
    LET Segments(o) == {s \in (DOMAIN o) \X {1, 2} : s[1] + s[2] - 1 <= Len(o)}
        seg(o, s) == SubSeq(o, s[1], s[1] + s[2] - 1)
    IN  {<<Spliced(curr[a], s[1], s[2], seg(curr[b], t)),
           Spliced(curr[b], t[1], t[2], seg(curr[a], s))>> :
            s \in Segments(curr[a]), t \in Segments(curr[b])}

\* A pair of plans is exchanged if both can be driven and are shorter together.  Skills
\* are not looked at.
Exchanged(Moves(_, _)) ==
    UNION {{[curr EXCEPT ![a] = m[1], ![b] = m[2]] : m \in {x \in Moves(a, b) :
                /\ a < b
                /\ Schedulable(x[1]) /\ Schedulable(x[2])
                /\ Shorter(PathDistance(x[1]) + PathDistance(x[2]),
                           PathDistance(curr[a]) + PathDistance(curr[b]))}} :
            a \in Vehicles, b \in Vehicles}

\* One improvement, or the end of a full scan that found none.
Improve(here, Better, next) ==
    /\ pc = here
    /\ LET better == Better IN
        \/ curr' \in better /\ UNCHANGED pc
        \/ better = {} /\ pc' = next /\ UNCHANGED curr
    /\ UNCHANGED <<prob, best, removed, insertOp, iter, scan>>

TwoOptImprove == Improve("twoopt", TwoOptBetter, "cross")
CrossExchangeImprove == Improve("cross", Exchanged(CrossMoves), "star")
TwoOptStarImprove == Improve("star", Exchanged(StarMoves), "accept")

\* Only a cheaper solution becomes the best one; the search goes on from the current
\* one in any case, also when it is not accepted.
Accept ==
    /\ pc = "accept"
    /\ best' = IF Cost(curr) < Cost(best) THEN curr ELSE best
    /\ pc' = "head"
    /\ UNCHANGED <<prob, curr, removed, insertOp, iter, scan>>

Solve ==
    \/ GreedySeed \/ SeedEnds \/ SearchEnds \/ RemoveNodes
    \/ InsertCheapest \/ InsertAnyway \/ InsertEnds
    \/ OrOptTry \/ OrOptNext \/ OrOptOuter
    \/ TwoOptImprove \/ CrossExchangeImprove \/ TwoOptStarImprove \/ Accept

============================================================================

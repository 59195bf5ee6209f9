----------------------------- MODULE MCPlanning -----------------------------
(* Requests to plan, small enough to search exhaustively. *)
EXTENDS Planning

\* A request whose query returned stops at the given places, all that are pending; each
\* is served in one unit of time.
Request(alg, at, depots, vehicles, hosMax) ==
    [algorithm |-> alg, pending |-> Len(at), n |-> Len(at), at |-> at,
     depots |-> depots, vehicles |-> vehicles, hosMax |-> hosMax, breakSec |-> 2,
     fail |-> 500, late |-> 4, limit |-> 3, inserts |-> {"greedy"},
     service |-> [i \in DOMAIN at |-> 1],
     opens |-> [i \in DOMAIN at |-> IF i = 2 THEN Now + 6 ELSE 0],
     closes |-> [i \in DOMAIN at |-> Far],
     needs |-> [i \in DOMAIN at |-> {}],
     skills |-> [v \in 1 .. vehicles |-> {}]]

\* The greedy planner on all placements of four stops at three places, and on one that
\* 2-opt improves; with few stops; and with six pending stops of which the query returned
\* five, its limit, or fewer, because an error ended the loop over the rows.
Clustered ==
    {Request("greedy", at, d, v, h) :
        at \in [1 .. 4 -> {10, 12, 18}] \union {<<12, 13, 10, 18>>},
        d \in {<<>>, <<11, 16>>}, v \in {1, 2}, h \in {0, 4}}
    \union {Request("greedy", [i \in 1 .. n |-> 10], <<>>, 3, 0) : n \in 0 .. 2}
    \union {[Request("greedy", at, d, 2, 4) EXCEPT !.pending = 6] :
                at \in {<<>>, <<10>>, <<10, 12, 18>>, <<10, 12, 13, 18, 16>>},
                d \in {<<>>, <<11>>}}

\* The search: plain, with the regret insertion, with windows that not every order meets,
\* with skills, with a missing stop that costs nothing, and with stops not read.
Searched ==
    LET plain == Request("alns", <<10, 12, 13, 18>>, <<>>, 2, 4)
        depot == Request("alns", <<10, 18, 12, 13>>, <<11>>, 2, 4)
    IN  {plain, depot,
         [plain EXCEPT !.inserts = {"greedy", "regret"}],
         [Request("alns", <<12, 13, 10, 18, 16>>, <<>>, 1, 4) EXCEPT !.pending = 6],
         [Request("alns", <<10, 18, 12, 13>>, <<11>>, 1, 0) EXCEPT
            !.opens = <<Now, Now + 6, 0, 0>>, !.closes = <<Now + 400, Far, 5, Far>>,
            !.fail = 2000],
         [plain EXCEPT !.needs = <<{}, {"cold"}, {"lift"}, {"cold"}>>,
                       !.skills = <<{"cold"}, {"cold"}>>],
         [plain EXCEPT !.fail = 0]}

PassProblems == Clustered \union Searched

\* A request with the default operators.
DefaultSearch == {[Request("alns", <<10, 12, 13>>, <<>>, 1, 0) EXCEPT !.inserts = InsertOps]}
=============================================================================

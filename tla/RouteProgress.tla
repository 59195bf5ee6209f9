--------------------------- MODULE RouteProgress ---------------------------
(***************************************************************************)
(* What clients of a route are promised: its legs are visited one after    *)
(* the other, in sequence, and a stop.advanced event tells of a leg that   *)
(* has been visited.                                                       *)
(***************************************************************************)
EXTENDS Naturals

CONSTANT N      \* number of legs

VARIABLES
    done,       \* the furthest leg visited, 0 at the start
    announced   \* the legs announced as passed

vars == <<done, announced>>

Init == done = 0 /\ announced = {}

Visit ==
    /\ done < N
    /\ done' = done + 1
    /\ UNCHANGED announced

Announce ==
    /\ \E k \in 1 .. done : announced' = announced \union {k}
    /\ UNCHANGED done

Next == Visit \/ Announce

Spec == Init /\ [][Next]_vars

=============================================================================

--------------------------- MODULE MCRouteAdvance ---------------------------
(* Routes of two and of three legs; in the longer one the second leg is a break. *)
EXTENDS RouteAdvance, TLC

MCKind   == <<"drive", "drive">>
MCDrive  == <<2, 2>>
MCKind3  == <<"drive", "break", "drive">>
MCDrive3 == <<2, 0, 2>>

\* Every question a policy may ask, and a limit on the drive time alone.
Strict == [enabled |-> TRUE, requirePoD |-> FALSE, trigger |-> "geofence_arrive",
           minDwell |-> 1, grace |-> 2, movingLock |-> TRUE, hosMax |-> 2]
Limit  == [Strict EXCEPT !.trigger = "", !.minDwell = 0, !.grace = 0,
                         !.movingLock = FALSE]

MCPolicies == {Strict}
MCPoliciesHos == {Limit}

Forced == [force |-> TRUE, reason |-> "manual"]
Asked  == [force |-> FALSE, reason |-> ""]

MCForced == {Forced}
MCUnforced == {Asked}
MCAsked == {Forced, Asked}

Event(type, leg, age) == [type |-> type, leg |-> leg, age |-> age]

\* An arrival with a departure, reported with some delay; a location on the way.
MCBatches == {<<Event("standing", 1, 0), Event("arrive", 1, 0), Event("depart", 1, 1)>>,
              <<Event("driving", 1, 0)>>}
MCNoBatches == {}

\* Drivers report breaks; the end of a shift is read and written the same way.
MCBreaks == {"break_start", "break_end"}
MCHosActions == MCBreaks \union {"shift_start", "shift_end"}

\* Neither requests nor drivers are told apart.
Symmetry == Permutations(Callers) \union Permutations(Drivers)
=============================================================================

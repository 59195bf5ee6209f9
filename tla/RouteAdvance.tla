---------------------------- MODULE RouteAdvance ----------------------------
(***************************************************************************)
(* Progress along one route in the Postgres store: AdvanceRoute and the    *)
(* requests that call it or change what it reads.                          *)
(*                                                                         *)
(* AdvanceRoute is a sequence of separate statements: it reads the route   *)
(* and its first non-visited leg, asks one policy question after another,  *)
(* and only then opens the transaction that marks the leg it read at the   *)
(* start.  Requests interleave between any two of these, also between the  *)
(* reads of the route's driver and of that driver's state.  The            *)
(* transaction itself is one step: its two updates lock the rows they      *)
(* write, and two such transactions that meet on a row are ordered by it.  *)
(*                                                                         *)
(* Event times are kept as ages, which grow as time passes; the numbers    *)
(* are multiples of one unit of time.                                      *)
(***************************************************************************)
EXTENDS Naturals, Sequences, FiniteSets, FiniteSetsExt

CONSTANTS
    Callers,    \* concurrent requests
    Drivers,    \* the drivers the route may be given to
    N,          \* the route's legs are 1 .. N
    Kind,       \* route_legs.kind of each leg: "drive" or "break"
    Drive,      \* route_legs.drive_sec of each leg
    Policies,   \* the auto-advance policies PatchRoute may store
    Requests,   \* the bodies of advance requests: [force, reason]
    Batches,    \* the batches of driver events: sequences of [type, leg, age]
    HosActions, \* the actions drivers report: shifts and breaks that start and end
    None,       \* no policy, no leg, no event, no driver
    MaxAge,     \* bound: ages that are told apart
    MaxCalls,   \* bound: requests made
    MaxFaults   \* bound: failed statements and crashes

Legs == 1 .. N
EventTypes == {"arrive", "depart", "pod"}
Reasons == {"", "manual", "pod_ack", "depart", "geofence_arrive"}

ASSUME RouteAssumption ==
    /\ N \in Nat /\ MaxAge \in Nat /\ MaxCalls \in Nat /\ MaxFaults \in Nat
    /\ Kind \in [Legs -> {"drive", "break"}] /\ Drive \in [Legs -> Nat]
    /\ None \notin Policies \union Nat \union Drivers
    /\ Batches \subseteq Seq([type : EventTypes \union {"driving", "standing"},
                              leg : Legs, age : 0 .. MaxAge])
    /\ Requests \subseteq [force : BOOLEAN, reason : Reasons]
    /\ HosActions \subseteq {"shift_start", "shift_end", "break_start", "break_end"}

VARIABLES
    status,     \* route_legs.status
    policy,     \* routes.auto_advance
    seen,       \* age of the latest event of each type at each leg's stop
    moving,     \* the latest reported speed is above 3 kph
    driver,     \* routes.driver_id
    onBreak,    \* the drivers with hos_state.break
    shiftOff,   \* the drivers with hos_state.status = "off"
    call,       \* where each request is in AdvanceRoute
    ever,       \* the legs that have been visited at some time
    emitted,    \* the legs whose stop.advanced event was emitted
    calls, faults

route == <<status, policy, driver>>
world == <<seen, moving, onBreak, shiftOff>>
vars  == <<route, world, call, ever, emitted, calls, faults>>

\* A request that is not in AdvanceRoute.  In one that is, three fields are history:
\* away are the drivers who have been unavailable ever since it began, holders whose
\* the route has been since then, and blind says that a policy query of it failed.
Idle == [pc |-> "idle", leg |-> None, pol |-> None, driver |-> None, force |-> FALSE,
         reason |-> "", batch |-> <<>>, at |-> 0,
         away |-> {}, holders |-> {}, blind |-> FALSE]

Questions == {"dwell", "grace", "moving", "drive", "assignee", "driver"}
Steps == {"route", "leg"} \union Questions \union {"txn", "report"}

CallRecords ==
    [pc : Steps \union {"idle"}, leg : Legs \union {None}, pol : Policies \union {None},
     driver : Drivers \union {None}, force : BOOLEAN, reason : Reasons,
     batch : Batches \union {<<>>}, at : Nat, away : SUBSET Drivers,
     holders : SUBSET (Drivers \union {None}), blind : BOOLEAN]

TypeOK ==
    /\ status \in [Legs -> {"pending", "in_progress", "visited"}]
    /\ policy \in Policies \union {None}
    /\ seen \in [EventTypes -> [Legs -> 0 .. MaxAge \union {None}]]
    /\ moving \in BOOLEAN /\ driver \in Drivers \union {None}
    /\ onBreak \subseteq Drivers /\ shiftOff \subseteq Drivers
    /\ call \in [Callers -> CallRecords]
    /\ \A c \in Callers :
        call[c].pc \in Steps \ {"route", "leg"} => call[c].leg \in Legs
    /\ ever \subseteq Legs /\ emitted \subseteq Legs
    /\ calls \in 0 .. MaxCalls /\ faults \in 0 .. MaxFaults

\* PlanRoutes inserts the first leg in progress and the others pending.
Init ==
    /\ status = [k \in Legs |-> IF k = 1 THEN "in_progress" ELSE "pending"]
    /\ policy = None
    /\ seen = [t \in EventTypes |-> [k \in Legs |-> None]]
    /\ moving = FALSE /\ driver = None /\ onBreak = {} /\ shiftOff = {}
    /\ call = [c \in Callers |-> Idle]
    /\ ever = {} /\ emitted = {}
    /\ calls = 0 /\ faults = 0

----------------------------------------------------------------------------
(* What AdvanceRoute reads. *)

Unvisited == {k \in Legs : status[k] # "visited"}

\* The drivers on a break or off shift.
Resting == onBreak \union shiftOff

\* Age below a limit: time.Since(ts) < limit, for an event that exists.
Recent(type, k, limit) == seen[type][k] # None /\ seen[type][k] < limit

\* The type of the driver event that a reason stands for.
EventOf(reason) ==
    CASE reason = "pod_ack" -> "pod"
      [] reason = "geofence_arrive" -> "arrive"
      [] OTHER -> reason

\* SUM(drive_sec) over the visited legs.
DriveOf(legs) == MapThenSumSet(LAMBDA k : Drive[k], legs)
VisitedDrive == DriveOf({k \in Legs : status[k] = "visited"})

----------------------------------------------------------------------------
(* Requests. *)

Begin(c, force, reason, batch, at) ==
    call' = [call EXCEPT ![c] =
        [pc |-> "route", leg |-> None, pol |-> None, driver |-> None, force |-> force,
         reason |-> reason, batch |-> batch, at |-> at, away |-> Resting,
         holders |-> {driver}, blind |-> FALSE]]

\* POST /v1/routes/{id}/advance.
Advance(c) ==
    /\ call[c].pc = "idle" /\ calls < MaxCalls
    /\ \E r \in Requests : Begin(c, r.force, r.reason, <<>>, 0)
    /\ calls' = calls + 1
    /\ UNCHANGED <<route, world, ever, emitted, faults>>

\* The reason given for a trigger event.
ReasonOf(type) ==
    CASE type = "pod" -> "pod_ack"
      [] type = "arrive" -> "geofence_arrive"
      [] OTHER -> "depart"

\* DriverEventsHandler's loop: the next trigger event after position i starts a call
\* of AdvanceRoute; without one the request is answered.
NextTrigger(c, batch, i) ==
    LET rest == {j \in DOMAIN batch : j > i /\ batch[j].type \in EventTypes} IN
    IF rest = {} THEN call' = [call EXCEPT ![c] = Idle]
    ELSE Begin(c, FALSE, ReasonOf(batch[Min(rest)].type), batch, Min(rest))

\* InsertDriverEvents: one transaction.  The latest event by its own timestamp
\* counts, and events may be reported late: a late location changes nothing.
Inserted(batch) ==
    LET ages(t, k) == {batch[i].age : i \in {j \in DOMAIN batch :
                                               batch[j].type = t /\ batch[j].leg = k}}
        located == {i \in DOMAIN batch : batch[i].type \in {"driving", "standing"}}
    IN  /\ seen' = [t \in EventTypes |-> [k \in Legs |->
                      IF ages(t, k) = {} THEN seen[t][k]
                      ELSE Min(ages(t, k) \union ({seen[t][k]} \ {None}))]]
        /\ moving' \in {moving} \union {batch[i].type = "driving" : i \in located}

\* POST /v1/driver-events: insert the batch, then try to advance for each trigger.
DriverEvents(c) ==
    /\ call[c].pc = "idle" /\ calls < MaxCalls
    /\ \E batch \in Batches :
        /\ Inserted(batch)
        /\ NextTrigger(c, batch, 0)
    /\ calls' = calls + 1
    /\ UNCHANGED <<route, onBreak, shiftOff, ever, emitted, faults>>

\* AdvanceRoute returned an error or an unchanged route: DriverEventsHandler goes on
\* with its next event, the advance handler answers.
Unchanged(c) == NextTrigger(c, call[c].batch, call[c].at)

----------------------------------------------------------------------------
(* AdvanceRoute, statement by statement. *)

Goto(c, next) == call' = [call EXCEPT ![c].pc = next]

\* Mutant: a forced request does not ask for the current leg.
GetRouteMutantForce(c) ==
    /\ call[c].pc = "route"
    /\ call' = [call EXCEPT ![c].pc = IF call[c].force THEN "txn" ELSE "leg",
                            ![c].pol = policy]
    /\ UNCHANGED <<route, world, ever, emitted, calls, faults>>

GetRoute(c) ==
    /\ call[c].pc = "route"
    /\ call' = [call EXCEPT ![c].pc = "leg", ![c].pol = policy]
    /\ UNCHANGED <<route, world, ever, emitted, calls, faults>>

\* The policy questions that need no query: enabled, requirePoD, trigger.
Refused(q) ==
    \/ ~q.pol.enabled
    \/ q.pol.requirePoD /\ q.reason # "pod_ack"
    \/ q.pol.trigger # "" /\ q.reason # "" /\ q.pol.trigger # q.reason

\* Mutant: any leg that is not visited, not the first in sequence.
CurrentLegMutantUnordered(c) ==
    /\ call[c].pc = "leg"
    /\ IF Unvisited = {} THEN Unchanged(c)
       ELSE \E k \in Unvisited : call' = [call EXCEPT ![c].leg = k, ![c].pc = "txn"]
    /\ UNCHANGED <<route, world, ever, emitted, calls, faults>>

\* The first non-visited leg becomes this call's leg, for good.
CurrentLeg(c) ==
    /\ call[c].pc = "leg"
    /\ LET q == call[c]
           found(next) == call' = [call EXCEPT ![c].leg = Min(Unvisited), ![c].pc = next]
       IN  \/ Unvisited = {} /\ Unchanged(c)
           \/ Unvisited # {} /\ (q.force \/ q.pol = None) /\ found("txn")
           \/ /\ Unvisited # {} /\ ~q.force /\ q.pol # None
              /\ IF Refused(q) THEN Unchanged(c) ELSE found("dwell")
    /\ UNCHANGED <<route, world, ever, emitted, calls, faults>>

\* One policy question: the call is refused, with an alert, or moves on.
Gate(c, here, blocked, next) ==
    /\ call[c].pc = here
    /\ IF blocked THEN Unchanged(c) ELSE Goto(c, next)
    /\ UNCHANGED <<route, world, ever, emitted, calls, faults>>

MinDwell(c) ==
    Gate(c, "dwell", Recent("arrive", call[c].leg, call[c].pol.minDwell), "grace")

GracePeriod(c) ==
    LET type == EventOf(call[c].reason) IN
    Gate(c, "grace",
         type \in EventTypes /\ Recent(type, call[c].leg, call[c].pol.grace), "moving")

MovingLock(c) == Gate(c, "moving", call[c].pol.movingLock /\ moving, "drive")

\* The drive time of every leg visited so far counts, breaks or not.
OverDriven(q) == q.pol.hosMax > 0 /\ VisitedDrive >= q.pol.hosMax

HosMaxDrive(c) == Gate(c, "drive", OverDriven(call[c]), "assignee")

\* The route's driver is looked up; only then, by another query, the driver's state.
Assignee(c) ==
    /\ call[c].pc = "assignee"
    /\ call' = [call EXCEPT ![c].driver = driver,
                            ![c].pc = IF driver = None THEN "txn" ELSE "driver"]
    /\ UNCHANGED <<route, world, ever, emitted, calls, faults>>

\* Mutant: a break is not looked at.
DriverStateMutantShiftOnly(c) == Gate(c, "driver", call[c].driver \in shiftOff, "txn")

DriverState(c) == Gate(c, "driver", call[c].driver \in Resting, "txn")

\* What follows a question that could not be asked.
Skip == [dwell |-> "grace", grace |-> "moving", moving |-> "drive",
         drive |-> "assignee", assignee |-> "txn", driver |-> "txn"]

\* The errors of the policy queries are ignored: a question that could not be asked
\* counts as answered well.
QueryFails(c) ==
    /\ faults < MaxFaults
    /\ faults' = faults + 1
    /\ call[c].pc \in Questions
    /\ call' = [call EXCEPT ![c].pc = Skip[call[c].pc], ![c].blind = TRUE]
    /\ UNCHANGED <<route, world, ever, emitted, calls>>

\* Mark the leg visited and the next one in progress, as one transaction, without
\* looking again at what their status is now.
Commit(c) ==
    /\ call[c].pc = "txn"
    /\ status' = [k \in Legs |-> CASE k = call[c].leg -> "visited"
                                   [] k = call[c].leg + 1 -> "in_progress"
                                   [] OTHER -> status[k]]
    /\ ever' = ever \union {call[c].leg}
    /\ Goto(c, "report")
    /\ UNCHANGED <<policy, driver, world, emitted, calls, faults>>

\* The route is read back and the handler emits stop.advanced; the remaining
\* triggers of a batch are dropped.
Report(c) ==
    /\ call[c].pc = "report"
    /\ emitted' = emitted \union {call[c].leg}
    /\ call' = [call EXCEPT ![c] = Idle]
    /\ UNCHANGED <<route, world, ever, calls, faults>>

\* Mutant: the event is emitted although a statement failed.
StatementFailsMutantEmits(c) ==
    /\ call[c].pc # "idle" /\ faults < MaxFaults
    /\ faults' = faults + 1
    /\ Unchanged(c)
    /\ emitted' = emitted \union ({call[c].leg} \ {None})
    /\ UNCHANGED <<route, world, ever, calls>>

\* A statement of AdvanceRoute fails: an open transaction is rolled back and the
\* caller sees an error.  After the commit it is the final read that fails: the
\* route has advanced, no event is emitted, a batch goes on to its next trigger.
StatementFails(c) ==
    /\ call[c].pc \in {"route", "leg", "txn", "report"} /\ faults < MaxFaults
    /\ faults' = faults + 1
    /\ Unchanged(c)
    /\ UNCHANGED <<route, world, ever, emitted, calls>>

\* The process stops and is started again: its requests are gone.
Crash ==
    /\ faults < MaxFaults
    /\ faults' = faults + 1
    /\ call' = [c \in Callers |-> Idle]
    /\ UNCHANGED <<route, world, ever, emitted, calls>>

----------------------------------------------------------------------------
(* What else changes. *)

PatchRoute ==
    /\ \E p \in Policies : policy' = p
    /\ UNCHANGED <<status, driver, world, call, ever, emitted, calls, faults>>

\* POST /v1/routes/{id}/assign: also a route that has a driver is given to another.
AssignRoute ==
    /\ \E d \in Drivers :
        /\ driver' = d
        /\ call' = [c \in Callers |->
                [call[c] EXCEPT !.holders = IF @ = {} THEN {} ELSE @ \union {d}]]
    /\ UNCHANGED <<status, policy, world, ever, emitted, calls, faults>>

\* UpdateHOS, for requests of one driver that do not overlap.
UpdateHOS(d, action) ==
    /\ onBreak' = CASE action = "break_start" -> onBreak \union {d}
                    [] action = "break_end" -> onBreak \ {d}
                    [] OTHER -> onBreak
    /\ shiftOff' = CASE action = "shift_end" -> shiftOff \union {d}
                     [] action = "shift_start" -> shiftOff \ {d}
                     [] OTHER -> shiftOff
    /\ call' = [c \in Callers |-> [call[c] EXCEPT !.away = @ \intersect Resting']]
    /\ UNCHANGED <<route, seen, moving, ever, emitted, calls, faults>>

TimePasses ==
    /\ seen' = [t \in EventTypes |-> [k \in Legs |->
                  IF seen[t][k] \in {None, MaxAge} THEN seen[t][k] ELSE seen[t][k] + 1]]
    /\ UNCHANGED <<route, moving, onBreak, shiftOff, call, ever, emitted, calls, faults>>

CallStep(c) ==
    \/ GetRoute(c) \/ CurrentLeg(c)
    \/ MinDwell(c) \/ GracePeriod(c) \/ MovingLock(c) \/ HosMaxDrive(c)
    \/ Assignee(c) \/ DriverState(c)
    \/ Commit(c) \/ Report(c)

Next ==
    \/ \E c \in Callers : Advance(c) \/ DriverEvents(c) \/ CallStep(c)
                           \/ QueryFails(c) \/ StatementFails(c)
    \/ PatchRoute \/ AssignRoute \/ TimePasses \/ Crash
    \/ \E d \in Drivers, action \in HosActions : UpdateHOS(d, action)

Spec == Init /\ [][Next]_vars

----------------------------------------------------------------------------
(* Properties *)

\* Whatever the requests that race each other, no leg is visited or started before
\* all legs in front of it have been visited.
NoLegSkipped ==
    \A k \in Legs : status[k] # "pending" \/ k \in ever =>
        \A j \in 1 .. k - 1 : j \in ever

\* A request that is subject to a policy reaches its transaction only if, since it
\* began, the route was without a driver for a moment, or was that of a driver who was
\* neither on a break nor off shift for a moment, unless a query that would have told
\* failed.  AdvanceRoute: "If driver assigned and hos_state.break true, block".  This is
\* less: no moment need be found at which the route's own driver was available, since
\* the two reads are of two moments.
UnavailableDriverBlocks ==
    \A c \in Callers : LET q == call[c] IN
        q.pc = "txn" /\ ~q.force /\ q.pol # None /\ ~q.blind => q.holders \ q.away # {}

Progress == INSTANCE RouteProgress
                WITH done <- Max(ever \union {0}), announced <- emitted

\* The route advances leg by leg and stop.advanced is emitted only for legs that
\* were visited, also when statements fail and requests race.
ImplementsProgress == Progress!Spec

\* AdvanceRoute: "Determine current leg (first non-visited)".  Every transaction
\* takes the first non-visited leg to visited.
AdvancesCurrentLeg ==
    [][status' # status =>
        /\ Unvisited # {}
        /\ status'[Min(Unvisited)] = "visited"
        /\ \A k \in Legs : status[k] = "visited" => status'[k] = "visited"]_status

\* The drive time since the last break that was taken.
ContinuousDrive ==
    LET visited == {k \in Legs : status[k] = "visited"}
    IN  DriveOf({k \in visited : \A j \in visited : Kind[j] = "break" => j < k})

\* hosMaxDriveSec: "Max continuous drive seconds before requiring break".  A break
\* is demanded only of a driver who has driven that long since the last one.
HosLimitIsContinuous ==
    \A c \in Callers :
        call[c].pc = "drive" /\ OverDriven(call[c]) => ContinuousDrive >= call[c].pol.hosMax

----------------------------------------------------------------------------
(* The inductive invariants behind the safety properties. *)

\* The legs visited so far are the first m, for some m.
EverPrefix == \E m \in 0 .. N : ever = 1 .. m

\* What the statuses and the requests in flight say of the legs that were visited.
LegInv ==
    /\ \A k \in Legs : status[k] = "visited" => k \in ever
    /\ \A k \in Legs : status[k] = "in_progress" => k = 1 \/ k - 1 \in ever
    /\ \A c \in Callers : call[c].pc \in Steps \ {"route", "leg"} =>
            \A j \in 1 .. call[c].leg - 1 : j \in ever
    /\ \A c \in Callers : call[c].pc = "report" => call[c].leg \in ever
    /\ emitted \subseteq ever

\* A driver who was unavailable all along still is; whose the route is now, and whose
\* the request found it to be, it has been at some moment since the request began.
Watched(q) ==
    /\ q.away \subseteq Resting
    /\ q.pc # "idle" => driver \in q.holders
    /\ q.pc = "driver" => q.driver \in q.holders

HeldInv == \A c \in Callers : Watched(call[c])

SafetyInv == EverPrefix /\ LegInv /\ HeldInv /\ UnavailableDriverBlocks

\* Requests on a route come one at a time.
SoleCaller == \E c \in Callers : Callers = {c}

\* With one request at a time the visited legs are a prefix of the route and the
\* request's leg stays the first non-visited one until the transaction.
SoleInv ==
    /\ \A k \in Legs : status[k] = "visited" => \A j \in 1 .. k - 1 : status[j] = "visited"
    /\ \A c \in Callers : call[c].pc \in Steps \ {"route", "leg", "report"} =>
            /\ status[call[c].leg] # "visited"
            /\ \A j \in 1 .. call[c].leg - 1 : status[j] = "visited"

=============================================================================

------------------------- MODULE RouteAdvanceProofs -------------------------
(***************************************************************************)
(* The safety of route progress, for any number of racing requests, any    *)
(* route, any policies and any driver events.  The legs visited so far     *)
(* form a prefix of the route because every request acts on a leg all of   *)
(* whose predecessors had been visited when it was read; this survives     *)
(* races although the leg's own status may not.                            *)
(***************************************************************************)
EXTENDS RouteAdvance, WellFoundedInduction, TLAPS

\* A non-empty set of naturals has a least element and Min is that element.
LEMMA NatMin ==
    ASSUME NEW S \in SUBSET Nat, S # {}
    PROVE  Min(S) \in S /\ \A y \in S : Min(S) <= y
<1>1. \E x \in S : \A y \in S : ~(<<y, x>> \in OpToRel(<, Nat))
  BY NatLessThanWellFounded, WFMin
<1>2. PICK x \in S : \A y \in S : ~(<<y, x>> \in OpToRel(<, Nat))
  BY <1>1
<1>3. ASSUME NEW y \in S PROVE x <= y
  <2>1. x \in Nat /\ y \in Nat
    OBVIOUS
  <2>2. ~(y < x)
    BY <1>2, <2>1 DEF OpToRel
  <2> QED BY <2>1, <2>2
<1> QED BY <1>3 DEF Min

\* The greatest element of an initial segment.
LEMMA MaxSegment ==
    ASSUME NEW m \in Nat
    PROVE  Max((1 .. m) \union {0}) = m
<1> DEFINE S == (1 .. m) \union {0}
<1>1. m \in S /\ \A y \in S : m >= y
  OBVIOUS
<1>2. \A x \in S : (\A y \in S : x >= y) => x = m
  BY <1>1
<1> QED BY <1>1, <1>2 DEF Max

\* A request that is not in AdvanceRoute has seen nothing.
LEMMA IdleFacts ==
    Idle \in CallRecords /\ Idle.pc = "idle" /\ Watched(Idle)
  BY DEF Idle, CallRecords, Reasons, Watched

\* What starting the next call of AdvanceRoute, or answering, does to a request.
LEMMA RestartFacts ==
    ASSUME TypeOK, NEW c \in Callers, NEW batch \in Batches \union {<<>>}, NEW i \in Nat,
           NextTrigger(c, batch, i)
    PROVE  \E q \in CallRecords :
               /\ call' = [call EXCEPT ![c] = q]
               /\ q.pc \in {"idle", "route"}
               /\ Watched(q)
<1> DEFINE rest == {j \in DOMAIN batch : j > i /\ batch[j].type \in EventTypes}
           reason == ReasonOf(batch[Min(rest)].type)
           started == [pc |-> "route", leg |-> None, pol |-> None, driver |-> None,
                       force |-> FALSE, reason |-> reason, batch |-> batch,
                       at |-> Min(rest), away |-> Resting, holders |-> {driver},
                       blind |-> FALSE]
<1>1. CASE rest = {}
  <2>1. Idle \in CallRecords /\ Idle.pc = "idle" /\ Watched(Idle)
    BY IdleFacts
  <2>2. call' = [call EXCEPT ![c] = Idle]
    BY <1>1 DEF NextTrigger
  <2> QED BY <2>1, <2>2
<1>2. CASE rest # {}
  <2>1. DOMAIN batch \subseteq Nat
    BY RouteAssumption
  <2>2. Min(rest) \in Nat
    BY <1>2, <2>1, NatMin
  <2>3. reason \in Reasons
    BY DEF ReasonOf, Reasons
  <2>4. /\ Resting \in SUBSET Drivers
        /\ {driver} \in SUBSET (Drivers \union {None})
    BY DEF TypeOK, Resting
  <2>5. started \in CallRecords /\ started.pc = "route"
    BY <2>2, <2>3, <2>4 DEF CallRecords, Steps
  <2>6. Watched(started)
    BY DEF Watched
  <2>7. call' = [call EXCEPT ![c] = started]
    BY <1>2 DEF NextTrigger, Begin
  <2> HIDE DEF started
  <2> QED BY <2>5, <2>6, <2>7
<1> QED BY <1>1, <1>2

\* The same for a call that AdvanceRoute left unchanged.
LEMMA UnchangedFacts ==
    ASSUME TypeOK, NEW c \in Callers, Unchanged(c)
    PROVE  \E q \in CallRecords :
               /\ call' = [call EXCEPT ![c] = q]
               /\ q.pc \in {"idle", "route"}
               /\ Watched(q)
<1>1. call[c].batch \in Batches \union {<<>>} /\ call[c].at \in Nat
  BY DEF TypeOK, CallRecords
<1> QED BY <1>1, RestartFacts DEF Unchanged

Inv == TypeOK /\ SafetyInv

----------------------------------------------------------------------------
(* The invariant. *)

LEMMA InitInv == Init => Inv
<1> SUFFICES ASSUME Init PROVE Inv
  OBVIOUS
<1> USE RouteAssumption
<1>1. Idle \in CallRecords /\ Idle.pc = "idle" /\ Watched(Idle)
  BY IdleFacts
<1>2. ASSUME NEW c \in Callers PROVE call[c] = Idle
  BY DEF Init
<1>3. "idle" \notin Steps
  BY DEF Steps, Questions
<1>4. TypeOK
  <2>1. status \in [Legs -> {"pending", "in_progress", "visited"}]
    BY DEF Init
  <2>2. seen \in [EventTypes -> [Legs -> 0 .. MaxAge \union {None}]]
    BY DEF Init
  <2>3. call \in [Callers -> CallRecords]
    BY <1>1 DEF Init
  <2>4. calls \in 0 .. MaxCalls /\ faults \in 0 .. MaxFaults
    BY DEF Init
  <2>5. \A c \in Callers : call[c].pc \in Steps \ {"route", "leg"} => call[c].leg \in Legs
    BY <1>1, <1>2, <1>3
  <2>6. /\ moving \in BOOLEAN /\ driver \in Drivers \union {None}
        /\ onBreak \subseteq Drivers /\ shiftOff \subseteq Drivers
    BY Zenon DEF Init
  <2>7. policy \in Policies \union {None} /\ ever \subseteq Legs /\ emitted \subseteq Legs
    BY DEF Init
  <2> QED BY <2>1, <2>2, <2>3, <2>4, <2>5, <2>6, <2>7, Zenon DEF TypeOK
<1>5. EverPrefix
  <2>1. ever = 1 .. 0 /\ 0 \in 0 .. N
    BY DEF Init
  <2> QED BY <2>1 DEF EverPrefix
<1>6. LegInv
  <2>1. \A k \in Legs : status[k] # "visited" /\ (status[k] = "in_progress" => k = 1)
    BY DEF Init
  <2>2. emitted \subseteq ever
    BY DEF Init
  <2> QED BY <1>1, <1>2, <1>3, <2>1, <2>2 DEF LegInv, Steps
<1>7. HeldInv /\ UnavailableDriverBlocks
  BY <1>1, <1>2 DEF HeldInv, UnavailableDriverBlocks
<1> QED BY <1>4, <1>5, <1>6, <1>7 DEF Inv, SafetyInv

\* A step that changes one request and no leg.
LEMMA CallPreserves ==
    ASSUME Inv, NEW c \in Callers, NEW q \in CallRecords,
           call' = [call EXCEPT ![c] = q],
           q.pc \in Steps \ {"route", "leg"} =>
               q.leg \in Legs /\ \A j \in 1 .. q.leg - 1 : j \in ever,
           q.pc # "report",
           Watched(q),
           q.pc = "txn" /\ ~q.force /\ q.pol # None /\ ~q.blind => q.holders \ q.away # {},
           UNCHANGED <<route, onBreak, shiftOff, ever>>,
           seen' \in [EventTypes -> [Legs -> 0 .. MaxAge \union {None}]],
           moving' \in BOOLEAN,
           emitted' \subseteq ever,
           calls' \in 0 .. MaxCalls, faults' \in 0 .. MaxFaults
    PROVE  Inv'
<1>0. TypeOK /\ EverPrefix /\ LegInv /\ HeldInv /\ UnavailableDriverBlocks
  BY DEF Inv, SafetyInv
<1>1. UNCHANGED <<status, policy, driver, onBreak, shiftOff, ever>>
  BY DEF route
<1>2. \A d \in Callers : call'[d] = IF d = c THEN q ELSE call[d]
  BY <1>0 DEF TypeOK
<1>3. call' \in [Callers -> CallRecords]
  BY <1>0 DEF TypeOK
<1>4. \A d \in Callers : call'[d].pc \in Steps \ {"route", "leg"} => call'[d].leg \in Legs
  BY <1>0, <1>2 DEF TypeOK
<1>5. ever \subseteq Legs
  BY <1>0 DEF TypeOK
<1>6. TypeOK'
  BY <1>0, <1>1, <1>3, <1>4, <1>5, Zenon DEF TypeOK
<1>7. EverPrefix'
  BY <1>0, <1>1 DEF EverPrefix
<1>8. LegInv'
  <2>1. \A d \in Callers : call'[d].pc \in Steps \ {"route", "leg"} =>
            \A j \in 1 .. call'[d].leg - 1 : j \in ever
    BY <1>0, <1>2 DEF LegInv
  <2>2. \A d \in Callers : call'[d].pc = "report" => call'[d].leg \in ever
    BY <1>0, <1>2 DEF LegInv
  <2> QED BY <1>0, <1>1, <2>1, <2>2 DEF LegInv
<1>9. HeldInv'
  <2>1. driver' = driver /\ Resting' = Resting
    BY <1>1 DEF Resting
  <2> QED BY <1>0, <1>2, <2>1 DEF HeldInv, Watched
<1>10. UnavailableDriverBlocks'
  BY <1>0, <1>2 DEF UnavailableDriverBlocks
<1> QED BY <1>6, <1>7, <1>8, <1>9, <1>10 DEF Inv, SafetyInv

\* A request that begins anew or is answered.
LEMMA RestartPreserves ==
    ASSUME Inv, NEW c \in Callers,
           \E q \in CallRecords : /\ call' = [call EXCEPT ![c] = q]
                                  /\ q.pc \in {"idle", "route"}
                                  /\ Watched(q),
           UNCHANGED <<route, onBreak, shiftOff, ever>>,
           seen' \in [EventTypes -> [Legs -> 0 .. MaxAge \union {None}]],
           moving' \in BOOLEAN,
           emitted' \subseteq ever,
           calls' \in 0 .. MaxCalls, faults' \in 0 .. MaxFaults
    PROVE  Inv'
<1>1. PICK q \in CallRecords : /\ call' = [call EXCEPT ![c] = q]
                               /\ q.pc \in {"idle", "route"}
                               /\ Watched(q)
  OBVIOUS
<1>2. q.pc \notin Steps \ {"route", "leg"} /\ q.pc # "report" /\ q.pc # "txn"
  BY <1>1 DEF Steps, Questions
<1> QED BY <1>1, <1>2, CallPreserves

\* An element of a sequence belongs to the set the sequence is over.
LEMMA SeqElement ==
    ASSUME NEW R, NEW q \in Seq(R), NEW i \in DOMAIN q
    PROVE  q[i] \in R
  OBVIOUS

\* What a batch of driver events leaves in the store is well typed.
LEMMA InsertedType ==
    ASSUME TypeOK, NEW batch \in Batches, Inserted(batch)
    PROVE  /\ seen' \in [EventTypes -> [Legs -> 0 .. MaxAge \union {None}]]
           /\ moving' \in BOOLEAN
<1> USE RouteAssumption
<1> DEFINE ages(t, k) == {batch[i].age : i \in {j \in DOMAIN batch :
                                               batch[j].type = t /\ batch[j].leg = k}}
           located == {i \in DOMAIN batch : batch[i].type \in {"driving", "standing"}}
           all(t, k) == ages(t, k) \union ({seen[t][k]} \ {None})
           Events == [type : EventTypes \union {"driving", "standing"},
                      leg : Legs, age : 0 .. MaxAge]
<1>1. \A i \in DOMAIN batch : batch[i].age \in 0 .. MaxAge
  <2>1. batch \in Seq(Events)
    OBVIOUS
  <2>2. ASSUME NEW i \in DOMAIN batch PROVE batch[i] \in Events
    BY <2>1, SeqElement
  <2> QED BY <2>2
<1>2. ASSUME NEW t \in EventTypes, NEW k \in Legs, ages(t, k) # {}
      PROVE  Min(all(t, k)) \in 0 .. MaxAge
  <2>1. seen[t][k] \in 0 .. MaxAge \union {None}
    BY DEF TypeOK
  <2>2. all(t, k) \subseteq 0 .. MaxAge /\ all(t, k) # {}
    BY <1>1, <1>2, <2>1
  <2>3. all(t, k) \in SUBSET Nat
    BY <2>2
  <2>4. Min(all(t, k)) \in all(t, k)
    BY <2>2, <2>3, NatMin
  <2> QED BY <2>2, <2>4
<1>3. seen' = [t \in EventTypes |-> [k \in Legs |->
                 IF ages(t, k) = {} THEN seen[t][k] ELSE Min(all(t, k))]]
  BY DEF Inserted
<1>4. ASSUME NEW t \in EventTypes, NEW k \in Legs
      PROVE  (IF ages(t, k) = {} THEN seen[t][k] ELSE Min(all(t, k)))
                 \in 0 .. MaxAge \union {None}
  <2>1. seen[t][k] \in 0 .. MaxAge \union {None}
    BY DEF TypeOK
  <2>2. CASE ages(t, k) = {}
    BY <2>1, <2>2
  <2>3. CASE ages(t, k) # {}
    <3>1. Min(all(t, k)) \in 0 .. MaxAge
      BY <1>2, <2>3
    <3> HIDE DEF all, ages
    <3> QED BY <2>3, <3>1
  <2> HIDE DEF all, ages
  <2> QED BY <2>2, <2>3
<1> HIDE DEF ages, all
<1>5. seen' \in [EventTypes -> [Legs -> 0 .. MaxAge \union {None}]]
  BY <1>3, <1>4
<1>6. moving' \in {moving} \union {batch[i].type = "driving" : i \in located}
  BY DEF Inserted
<1>7. moving' \in BOOLEAN
  BY <1>6, Zenon DEF TypeOK
<1> QED BY <1>5, <1>7

\* Moving a request's control changes nothing else of it.
LEMMA MovedFacts ==
    ASSUME NEW r \in CallRecords, NEW next \in Steps, NEW q, q = [r EXCEPT !.pc = next]
    PROVE  /\ q \in CallRecords /\ q.pc = next
           /\ q.leg = r.leg /\ q.driver = r.driver /\ q.force = r.force
           /\ q.pol = r.pol /\ q.blind = r.blind
           /\ q.away = r.away /\ q.holders = r.holders
  BY DEF CallRecords

\* The transaction: the visited legs stay a prefix of the route.
LEMMA CommitPreserves ==
    ASSUME Inv, NEW c \in Callers, Commit(c)
    PROVE  Inv'
<1> USE RouteAssumption
<1> DEFINE l == call[c].leg
<1>0. TypeOK /\ EverPrefix /\ LegInv /\ HeldInv /\ UnavailableDriverBlocks
  BY DEF Inv, SafetyInv
<1>1. l \in Legs /\ \A j \in 1 .. l - 1 : j \in ever
  BY <1>0 DEF Commit, TypeOK, LegInv, Steps
<1>2. /\ call' = [call EXCEPT ![c].pc = "report"]
      /\ ever' = ever \union {l}
      /\ UNCHANGED <<policy, driver, seen, moving, onBreak, shiftOff, emitted, calls, faults>>
  BY DEF Commit, Goto, world
<1>3. \A k \in Legs : status'[k] = IF k = l THEN "visited"
                                   ELSE IF k = l + 1 THEN "in_progress" ELSE status[k]
  BY <1>1 DEF Commit, Legs
<1>4. /\ call' \in [Callers -> CallRecords]
      /\ \A d \in Callers : d # c => call'[d] = call[d]
      /\ call'[c].pc = "report" /\ call'[c].leg = l
      /\ call'[c].away = call[c].away /\ call'[c].holders = call[c].holders
  <2>1. call \in [Callers -> CallRecords]
    BY <1>0 DEF TypeOK
  <2>2. call' = [call EXCEPT ![c] = [call[c] EXCEPT !.pc = "report"]]
    BY <1>2
  <2>3. call[c] \in CallRecords /\ "report" \in Steps
    BY <2>1 DEF Steps
  <2>4. /\ [call[c] EXCEPT !.pc = "report"] \in CallRecords
        /\ [call[c] EXCEPT !.pc = "report"].pc = "report"
        /\ [call[c] EXCEPT !.pc = "report"].leg = l
        /\ [call[c] EXCEPT !.pc = "report"].away = call[c].away
        /\ [call[c] EXCEPT !.pc = "report"].holders = call[c].holders
    BY <2>1, <2>3, MovedFacts
  <2> QED BY <2>1, <2>2, <2>4
<1>5. status' \in [Legs -> {"pending", "in_progress", "visited"}]
  <2>1. DOMAIN status' = Legs /\ status' = [k \in Legs |-> status'[k]]
    BY DEF Commit
  <2>2. \A k \in Legs : status'[k] \in {"pending", "in_progress", "visited"}
    BY <1>0, <1>3 DEF TypeOK
  <2> QED BY <2>1, <2>2
<1>6. TypeOK'
  <2>1. ever' \subseteq Legs
    BY <1>0, <1>1, <1>2 DEF TypeOK
  <2>2. \A d \in Callers : call'[d].pc \in Steps \ {"route", "leg"} => call'[d].leg \in Legs
    BY <1>0, <1>1, <1>4 DEF TypeOK
  <2> QED BY <1>0, <1>2, <1>4, <1>5, <2>1, <2>2, Zenon DEF TypeOK
<1>7. EverPrefix'
  <2>1. PICK m \in 0 .. N : ever = 1 .. m
    BY <1>0 DEF EverPrefix
  <2>2. l \in 1 .. N /\ l <= m + 1
    <3>1. l \in 1 .. N
      BY <1>1 DEF Legs
    <3>2. CASE l = 1
      BY <2>1, <3>1, <3>2
    <3>3. CASE l # 1
      <4>1. l - 1 \in 1 .. l - 1
        BY <3>1, <3>3
      <4>2. l - 1 \in 1 .. m
        BY <1>1, <2>1, <4>1
      <4> QED BY <3>1, <4>2
    <3> QED BY <3>1, <3>2, <3>3
  <2>3. CASE l <= m
    <3>1. ever' = 1 .. m
      BY <1>2, <2>1, <2>2, <2>3
    <3> QED BY <2>1, <3>1 DEF EverPrefix
  <2>4. CASE l = m + 1
    <3>1. ever' = 1 .. l
      BY <1>2, <2>1, <2>2, <2>4
    <3>2. l \in 0 .. N
      BY <2>2
    <3> QED BY <3>1, <3>2 DEF EverPrefix
  <2> QED BY <2>1, <2>2, <2>3, <2>4
<1>8. LegInv'
  <2>1. \A k \in Legs : status'[k] = "visited" => k \in ever'
    BY <1>0, <1>2, <1>3 DEF LegInv
  <2>2. \A k \in Legs : status'[k] = "in_progress" => k = 1 \/ k - 1 \in ever'
    <3> SUFFICES ASSUME NEW k \in Legs, status'[k] = "in_progress"
                 PROVE  k = 1 \/ k - 1 \in ever'
      OBVIOUS
    <3>1. CASE k = l + 1
      BY <1>1, <1>2, <3>1 DEF Legs
    <3>2. CASE k # l + 1
      BY <1>0, <1>2, <1>3, <3>2 DEF LegInv
    <3> QED BY <3>1, <3>2
  <2>3. \A d \in Callers : call'[d].pc \in Steps \ {"route", "leg"} =>
            \A j \in 1 .. call'[d].leg - 1 : j \in ever'
    BY <1>0, <1>1, <1>2, <1>4 DEF LegInv
  <2>4. \A d \in Callers : call'[d].pc = "report" => call'[d].leg \in ever'
    BY <1>0, <1>2, <1>4 DEF LegInv
  <2> QED BY <1>0, <1>2, <2>1, <2>2, <2>3, <2>4 DEF LegInv
<1>9. HeldInv'
  <2>1. driver' = driver /\ Resting' = Resting
    BY <1>2 DEF Resting
  <2>2. call[c].pc = "txn"
    BY DEF Commit
  <2>3. Watched(call[c])
    BY <1>0 DEF HeldInv
  <2>4. Watched(call[c])'
    BY <1>4, <2>1, <2>2, <2>3 DEF Watched
  <2>5. ASSUME NEW d \in Callers, d # c PROVE Watched(call[d])'
    BY <1>0, <1>4, <2>1, <2>5 DEF HeldInv, Watched
  <2> QED BY <2>4, <2>5 DEF HeldInv
<1>10. UnavailableDriverBlocks'
  BY <1>0, <1>4 DEF UnavailableDriverBlocks
<1> QED BY <1>6, <1>7, <1>8, <1>9, <1>10 DEF Inv, SafetyInv

\* A policy question, asked of a request that has its leg.
LEMMA QuestionPreserves ==
    ASSUME Inv, NEW c \in Callers, NEW next \in {"grace", "moving", "drive", "assignee", "txn"},
           call[c].pc \in Questions,
           \/ Unchanged(c)
           \/ /\ Goto(c, next)
              /\ next = "txn" => call[c].pc = "driver" /\ call[c].driver \notin Resting,
           UNCHANGED <<route, world, ever, emitted, calls, faults>>
    PROVE  Inv'
<1>0. TypeOK /\ LegInv /\ HeldInv
  BY DEF Inv, SafetyInv
<1>1. /\ UNCHANGED <<route, onBreak, shiftOff, ever>>
      /\ seen' \in [EventTypes -> [Legs -> 0 .. MaxAge \union {None}]]
      /\ moving' \in BOOLEAN /\ emitted' \subseteq ever
      /\ calls' \in 0 .. MaxCalls /\ faults' \in 0 .. MaxFaults
  BY <1>0, Zenon DEF world, TypeOK, LegInv
<1>2. CASE Unchanged(c)
  BY <1>0, <1>1, <1>2, UnchangedFacts, RestartPreserves
<1>3. CASE /\ Goto(c, next)
           /\ next = "txn" => call[c].pc = "driver" /\ call[c].driver \notin Resting
  <2> DEFINE q == [call[c] EXCEPT !.pc = next]
  <2>1. call[c] \in CallRecords /\ next \in Steps
    BY <1>0 DEF TypeOK, Steps, Questions
  <2>2. /\ q \in CallRecords /\ q.pc = next
        /\ q.leg = call[c].leg /\ q.driver = call[c].driver
        /\ q.away = call[c].away /\ q.holders = call[c].holders
    BY <2>1, MovedFacts
  <2>3. call' = [call EXCEPT ![c] = q]
    BY <1>3 DEF Goto
  <2>4. call[c].leg \in Legs /\ \A j \in 1 .. call[c].leg - 1 : j \in ever
    BY <1>0 DEF TypeOK, LegInv, Steps, Questions
  <2>w. Watched(call[c]) /\ call[c].pc # "idle"
    BY <1>0 DEF HeldInv, Questions
  <2>5. Watched(q)
    BY <2>2, <2>w DEF Watched
  <2>6. q.pc = "txn" => q.holders \ q.away # {}
    <3>1. ASSUME q.pc = "txn" PROVE q.driver \in q.holders /\ q.driver \notin q.away
      BY <1>3, <2>2, <2>w, <3>1 DEF Watched
    <3> QED BY <3>1
  <2>7. q.pc # "report"
    BY <2>2
  <2> HIDE DEF q
  <2> QED BY <1>1, <2>2, <2>3, <2>4, <2>5, <2>6, <2>7, CallPreserves
<1> QED BY <1>2, <1>3

\* The request finds whose the route is: nobody's, or a driver's whose state it will ask.
LEMMA AssigneePreserves ==
    ASSUME Inv, NEW c \in Callers, Assignee(c)
    PROVE  Inv'
<1> USE RouteAssumption
<1> DEFINE next == IF driver = None THEN "txn" ELSE "driver"
           q == [call[c] EXCEPT !.driver = driver, !.pc = next]
<1>0. TypeOK /\ LegInv /\ HeldInv
  BY DEF Inv, SafetyInv
<1>1. /\ UNCHANGED <<route, onBreak, shiftOff, ever>>
      /\ seen' \in [EventTypes -> [Legs -> 0 .. MaxAge \union {None}]]
      /\ moving' \in BOOLEAN /\ emitted' \subseteq ever
      /\ calls' \in 0 .. MaxCalls /\ faults' \in 0 .. MaxFaults
  BY <1>0, Zenon DEF Assignee, world, TypeOK, LegInv
<1>2. /\ call[c] \in CallRecords /\ next \in Steps /\ next \in {"txn", "driver"}
      /\ driver \in Drivers \union {None}
  BY <1>0 DEF TypeOK, Steps, Questions
<1>3. /\ q \in CallRecords /\ q.pc = next /\ q.leg = call[c].leg /\ q.driver = driver
      /\ q.away = call[c].away /\ q.holders = call[c].holders
  <2> HIDE DEF next
  <2> QED BY <1>2 DEF CallRecords
<1>4. call' = [call EXCEPT ![c] = q]
  BY DEF Assignee
<1>5. call[c].leg \in Legs /\ \A j \in 1 .. call[c].leg - 1 : j \in ever
  BY <1>0 DEF Assignee, TypeOK, LegInv, Steps, Questions
<1>6. Watched(call[c]) /\ call[c].pc = "assignee"
  BY <1>0 DEF HeldInv, Assignee
<1>7. driver \in q.holders /\ q.away \subseteq Resting
  BY <1>3, <1>6 DEF Watched
<1>8. Watched(q)
  BY <1>3, <1>7 DEF Watched
<1>9. q.pc = "txn" => q.holders \ q.away # {}
  <2>1. Resting \subseteq Drivers
    BY <1>0 DEF TypeOK, Resting
  <2>2. ASSUME q.pc = "txn" PROVE driver \in q.holders \ q.away
    BY <1>3, <1>7, <2>1, <2>2
  <2> QED BY <2>2
<1>10. q.pc # "report"
  BY <1>2, <1>3
<1> HIDE DEF q, next
<1> QED BY <1>1, <1>3, <1>4, <1>5, <1>8, <1>9, <1>10, CallPreserves

\* What a change of the route's driver or of a driver's state does to the requests: it
\* moves none of them, adds to whose the route has been, takes from who has been away.
Observed(r, q) ==
    /\ q \in CallRecords /\ q.pc = r.pc /\ q.leg = r.leg /\ q.driver = r.driver
    /\ q.force = r.force /\ q.pol = r.pol /\ q.blind = r.blind
    /\ r.holders \subseteq q.holders /\ q.away \subseteq r.away

\* The histories of a request after either change.
Given(r, h) == [r EXCEPT !.holders = h]
Rested(r, a) == [r EXCEPT !.away = a]

LEMMA GivenFacts ==
    ASSUME NEW r \in CallRecords,
           NEW h \in SUBSET (Drivers \union {None}), r.holders \subseteq h
    PROVE  /\ Observed(r, Given(r, h))
           /\ Given(r, h).away = r.away /\ Given(r, h).holders = h
  BY DEF Given, CallRecords, Observed

LEMMA RestedFacts ==
    ASSUME NEW r \in CallRecords, NEW a \in SUBSET Drivers, a \subseteq r.away
    PROVE  /\ Observed(r, Rested(r, a))
           /\ Rested(r, a).away = a /\ Rested(r, a).holders = r.holders
  BY DEF Rested, CallRecords, Observed

LEMMA ObservedPreserves ==
    ASSUME Inv, call' \in [Callers -> CallRecords],
           \A d \in Callers : Observed(call[d], call'[d]),
           HeldInv', driver' \in Drivers \union {None},
           onBreak' \subseteq Drivers, shiftOff' \subseteq Drivers,
           UNCHANGED <<status, policy, seen, moving, ever, emitted, calls, faults>>
    PROVE  Inv'
<1>0. TypeOK /\ EverPrefix /\ LegInv /\ UnavailableDriverBlocks
  BY DEF Inv, SafetyInv
<1>1. TypeOK'
  <2>1. \A d \in Callers :
            call'[d].pc \in Steps \ {"route", "leg"} => call'[d].leg \in Legs
    BY <1>0 DEF TypeOK, Observed
  <2> QED BY <1>0, <2>1, Zenon DEF TypeOK
<1>2. EverPrefix' /\ LegInv'
  BY <1>0 DEF EverPrefix, LegInv, Observed
<1>3. UnavailableDriverBlocks'
  <2> SUFFICES ASSUME NEW d \in Callers, call'[d].pc = "txn", ~call'[d].force,
                      call'[d].pol # None, ~call'[d].blind
               PROVE  call'[d].holders \ call'[d].away # {}
    BY DEF UnavailableDriverBlocks
  <2>1. call[d].holders \ call[d].away # {}
    BY <1>0 DEF UnavailableDriverBlocks, Observed
  <2> QED BY <2>1 DEF Observed
<1> QED BY <1>1, <1>2, <1>3 DEF Inv, SafetyInv

\* The route is given to a driver.
LEMMA AssignPreserves ==
    ASSUME Inv, AssignRoute
    PROVE  Inv'
<1>0. TypeOK /\ HeldInv
  BY DEF Inv, SafetyInv
<1>1. PICK e \in Drivers :
        /\ driver' = e
        /\ call' = [c \in Callers |->
                [call[c] EXCEPT !.holders = IF @ = {} THEN {} ELSE @ \union {e}]]
  BY DEF AssignRoute
<1>2. UNCHANGED <<status, policy, seen, moving, onBreak, shiftOff, ever, emitted, calls, faults>>
  BY DEF AssignRoute, world
<1>3. ASSUME NEW d \in Callers
      PROVE  /\ Observed(call[d], call'[d]) /\ call'[d].away = call[d].away
             /\ call[d].holders # {} => e \in call'[d].holders
  <2> DEFINE h == IF call[d].holders = {} THEN {} ELSE call[d].holders \union {e}
  <2>1. call[d] \in CallRecords
    BY <1>0 DEF TypeOK
  <2>2. h \in SUBSET (Drivers \union {None}) /\ call[d].holders \subseteq h
    BY <2>1 DEF CallRecords
  <2>3. call'[d] = Given(call[d], h)
    BY <1>1 DEF Given
  <2>4. call[d].holders # {} => e \in h
    OBVIOUS
  <2> HIDE DEF h
  <2>5. /\ Observed(call[d], call'[d]) /\ call'[d].away = call[d].away
        /\ call'[d].holders = h
    BY <2>1, <2>2, <2>3, GivenFacts
  <2> QED BY <2>4, <2>5
<1>4. call' \in [Callers -> CallRecords]
  BY <1>1, <1>3 DEF Observed
<1>5. HeldInv'
  <2> SUFFICES ASSUME NEW d \in Callers PROVE Watched(call[d])'
    BY DEF HeldInv
  <2>1. Watched(call[d]) /\ Resting' = Resting
    BY <1>0, <1>2 DEF HeldInv, Resting
  <2>2. call'[d].pc # "idle" => e \in call'[d].holders
    BY <1>3, <2>1 DEF Watched, Observed
  <2> QED BY <1>1, <1>3, <2>1, <2>2 DEF Watched, Observed
<1>6. driver' \in Drivers \union {None} /\ onBreak' \subseteq Drivers /\ shiftOff' \subseteq Drivers
  BY <1>0, <1>1, <1>2 DEF TypeOK
<1> QED BY <1>2, <1>3, <1>4, <1>5, <1>6, ObservedPreserves

\* A driver's state changes.
LEMMA UpdateHOSPreserves ==
    ASSUME Inv, NEW e \in Drivers, NEW action \in HosActions, UpdateHOS(e, action)
    PROVE  Inv'
<1>0. TypeOK /\ HeldInv
  BY DEF Inv, SafetyInv
<1>1. UNCHANGED <<status, policy, driver, seen, moving, ever, emitted, calls, faults>>
  BY DEF UpdateHOS, route
<1>2. onBreak' \subseteq Drivers /\ shiftOff' \subseteq Drivers
  BY <1>0 DEF UpdateHOS, TypeOK
<1>3. ASSUME NEW d \in Callers
      PROVE  /\ Observed(call[d], call'[d]) /\ call'[d].away \subseteq Resting'
             /\ call'[d].holders = call[d].holders
  <2> DEFINE a == call[d].away \intersect Resting'
  <2>1. call[d] \in CallRecords
    BY <1>0 DEF TypeOK
  <2>2. a \in SUBSET Drivers /\ a \subseteq call[d].away /\ a \subseteq Resting'
    BY <2>1 DEF CallRecords
  <2>3. call'[d] = Rested(call[d], a)
    BY DEF UpdateHOS, Rested
  <2> HIDE DEF a
  <2>4. /\ Observed(call[d], call'[d]) /\ call'[d].away = a
        /\ call'[d].holders = call[d].holders
    BY <2>1, <2>2, <2>3, RestedFacts
  <2> QED BY <2>2, <2>4
<1>4. call' \in [Callers -> CallRecords]
  BY <1>3 DEF Observed, UpdateHOS
<1>5. HeldInv'
  <2> SUFFICES ASSUME NEW d \in Callers PROVE Watched(call[d])'
    BY DEF HeldInv
  <2>1. Watched(call[d])
    BY <1>0 DEF HeldInv
  <2> QED BY <1>1, <1>3, <2>1 DEF Watched, Observed
<1>6. driver' \in Drivers \union {None}
  BY <1>0, <1>1 DEF TypeOK
<1> QED BY <1>1, <1>2, <1>3, <1>4, <1>5, <1>6, ObservedPreserves

LEMMA NextInv == Inv /\ [Next]_vars => Inv'
<1> SUFFICES ASSUME Inv, [Next]_vars PROVE Inv'
  OBVIOUS
<1> USE RouteAssumption
<1>0. TypeOK /\ EverPrefix /\ LegInv /\ HeldInv /\ UnavailableDriverBlocks
  BY DEF Inv, SafetyInv
<1>t. /\ seen \in [EventTypes -> [Legs -> 0 .. MaxAge \union {None}]]
      /\ moving \in BOOLEAN /\ driver \in Drivers \union {None} /\ emitted \subseteq ever
      /\ onBreak \subseteq Drivers /\ shiftOff \subseteq Drivers
      /\ calls \in 0 .. MaxCalls /\ faults \in 0 .. MaxFaults
      /\ call \in [Callers -> CallRecords]
  BY <1>0 DEF TypeOK, LegInv
<1>i. Idle \in CallRecords /\ Idle.pc = "idle" /\ Watched(Idle)
  BY IdleFacts
<1>1. ASSUME NEW c \in Callers, Advance(c) PROVE Inv'
  <2>1. PICK r \in Requests : Begin(c, r.force, r.reason, <<>>, 0)
    BY <1>1 DEF Advance
  <2> DEFINE q == [pc |-> "route", leg |-> None, pol |-> None, driver |-> None,
                   force |-> r.force, reason |-> r.reason, batch |-> <<>>, at |-> 0,
                   away |-> Resting, holders |-> {driver}, blind |-> FALSE]
  <2>2. /\ Resting \in SUBSET Drivers
        /\ {driver} \in SUBSET (Drivers \union {None})
    BY <1>t DEF Resting
  <2>r. q \in CallRecords /\ q.pc = "route"
    BY <2>2 DEF CallRecords, Steps
  <2>3. q \in CallRecords /\ q.pc = "route" /\ Watched(q)
    BY <2>r DEF Watched
  <2>4. call' = [call EXCEPT ![c] = q]
    BY <2>1 DEF Begin
  <2>5. calls' \in 0 .. MaxCalls
    BY <1>1, <1>t DEF Advance
  <2>6. UNCHANGED <<route, seen, moving, onBreak, shiftOff, ever, emitted, faults>>
    BY <1>1 DEF Advance, world
  <2> HIDE DEF q
  <2> QED BY <1>t, <2>3, <2>4, <2>5, <2>6, RestartPreserves
<1>2. ASSUME NEW c \in Callers, DriverEvents(c) PROVE Inv'
  <2>1. PICK batch \in Batches : Inserted(batch) /\ NextTrigger(c, batch, 0)
    BY <1>2 DEF DriverEvents
  <2>2. /\ seen' \in [EventTypes -> [Legs -> 0 .. MaxAge \union {None}]]
        /\ moving' \in BOOLEAN
    BY <1>0, <2>1, InsertedType
  <2>3. calls' \in 0 .. MaxCalls
    BY <1>2, <1>t DEF DriverEvents
  <2>4. UNCHANGED <<route, onBreak, shiftOff, ever, emitted, faults>>
    BY <1>2 DEF DriverEvents
  <2>5. batch \in Batches \union {<<>>} /\ 0 \in Nat
    OBVIOUS
  <2>6. \E q \in CallRecords : /\ call' = [call EXCEPT ![c] = q]
                               /\ q.pc \in {"idle", "route"}
                               /\ Watched(q)
    BY <1>0, <2>1, <2>5, RestartFacts
  <2> QED BY <1>t, <2>2, <2>3, <2>4, <2>6, RestartPreserves
<1>3. ASSUME NEW c \in Callers, GetRoute(c) PROVE Inv'
  <2> DEFINE q == [call[c] EXCEPT !.pc = "leg", !.pol = policy]
  <2>1. call[c] \in CallRecords /\ policy \in Policies \union {None} /\ "leg" \in Steps
    BY <1>0 DEF TypeOK, Steps
  <2>2. /\ q \in CallRecords /\ q.pc = "leg"
        /\ q.away = call[c].away /\ q.holders = call[c].holders
    BY <2>1 DEF CallRecords
  <2>3. call' = [call EXCEPT ![c] = q]
    BY <1>3 DEF GetRoute
  <2>4. Watched(q)
    BY <1>0, <1>3, <2>2 DEF HeldInv, Watched, GetRoute
  <2>5. UNCHANGED <<route, seen, moving, onBreak, shiftOff, ever, emitted, calls, faults>>
    BY <1>3 DEF GetRoute, world
  <2> HIDE DEF q
  <2> QED BY <1>t, <2>2, <2>3, <2>4, <2>5, CallPreserves
<1>4. ASSUME NEW c \in Callers, CurrentLeg(c) PROVE Inv'
  <2>1. UNCHANGED <<route, seen, moving, onBreak, shiftOff, ever, emitted, calls, faults>>
    BY <1>4 DEF CurrentLeg, world
  <2>2. CASE Unchanged(c)
    BY <1>0, <1>t, <2>1, <2>2, UnchangedFacts, RestartPreserves
  <2>3. ASSUME Unvisited # {}, NEW next \in {"txn", "dwell"},
               call' = [call EXCEPT ![c].leg = Min(Unvisited), ![c].pc = next],
               next = "txn" => call[c].force \/ call[c].pol = None
        PROVE  Inv'
    <3> DEFINE q == [call[c] EXCEPT !.leg = Min(Unvisited), !.pc = next]
    <3>1. Unvisited \in SUBSET Nat
      BY DEF Unvisited, Legs
    <3>2. Min(Unvisited) \in Unvisited /\ \A y \in Unvisited : Min(Unvisited) <= y
      BY <2>3, <3>1, NatMin
    <3>3. Min(Unvisited) \in Legs
      BY <3>2 DEF Unvisited
    <3>4. ASSUME NEW j \in 1 .. Min(Unvisited) - 1 PROVE j \in ever
      <4>1. j \in Legs /\ j < Min(Unvisited) /\ j \in Nat
        BY <3>3 DEF Legs
      <4>2. j \notin Unvisited
        <5>1. SUFFICES ASSUME j \in Unvisited PROVE FALSE
          OBVIOUS
        <5>2. Min(Unvisited) <= j /\ Min(Unvisited) \in Nat
          BY <3>1, <3>2, <5>1
        <5> QED BY <4>1, <5>2
      <4> QED BY <1>0, <4>1, <4>2 DEF Unvisited, LegInv
    <3>5. call[c] \in CallRecords /\ next \in Steps
      BY <1>t DEF Steps, Questions
    <3>6. /\ q \in CallRecords /\ q.pc = next /\ q.leg = Min(Unvisited)
          /\ q.away = call[c].away /\ q.holders = call[c].holders
          /\ q.force = call[c].force /\ q.pol = call[c].pol
      BY <3>3, <3>5 DEF CallRecords
    <3>7. call' = [call EXCEPT ![c] = q]
      BY <2>3
    <3>8. Watched(q)
      BY <1>0, <1>4, <2>3, <3>6 DEF HeldInv, Watched, CurrentLeg
    <3> HIDE DEF q
    <3>9. q.pc # "report" /\ (q.pc = "txn" => q.force \/ q.pol = None)
      BY <2>3, <3>6
    <3> QED BY <1>t, <2>1, <3>3, <3>4, <3>6, <3>7, <3>8, <3>9, CallPreserves
  <2> QED BY <1>4, <2>2, <2>3 DEF CurrentLeg
<1>5. ASSUME NEW c \in Callers, MinDwell(c) PROVE Inv'
  BY <1>5, QuestionPreserves DEF MinDwell, Gate, Questions
<1>6. ASSUME NEW c \in Callers, GracePeriod(c) PROVE Inv'
  BY <1>6, QuestionPreserves DEF GracePeriod, Gate, Questions
<1>7. ASSUME NEW c \in Callers, MovingLock(c) PROVE Inv'
  BY <1>7, QuestionPreserves DEF MovingLock, Gate, Questions
<1>8. ASSUME NEW c \in Callers, HosMaxDrive(c) PROVE Inv'
  BY <1>8, QuestionPreserves DEF HosMaxDrive, Gate, Questions
<1>9. ASSUME NEW c \in Callers, DriverState(c) PROVE Inv'
  BY <1>9, QuestionPreserves DEF DriverState, Gate, Questions
<1>a. ASSUME NEW c \in Callers, Assignee(c) PROVE Inv'
  BY <1>a, AssigneePreserves
<1>10. ASSUME NEW c \in Callers, Commit(c) PROVE Inv'
  BY <1>10, CommitPreserves
<1>11. ASSUME NEW c \in Callers, Report(c) PROVE Inv'
  <2>1. emitted' \subseteq ever
    BY <1>0, <1>11, <1>t DEF Report, LegInv
  <2>2. call' = [call EXCEPT ![c] = Idle]
    BY <1>11 DEF Report
  <2>3. UNCHANGED <<route, seen, moving, onBreak, shiftOff, ever, calls, faults>>
    BY <1>11 DEF Report, world
  <2> QED BY <1>i, <1>t, <2>1, <2>2, <2>3, RestartPreserves
<1>12. ASSUME NEW c \in Callers, QueryFails(c) PROVE Inv'
  <2> DEFINE next == Skip[call[c].pc]
             q == [call[c] EXCEPT !.pc = next, !.blind = TRUE]
  <2>1. call[c].pc \in Questions /\ call' = [call EXCEPT ![c] = q]
    BY <1>12 DEF QueryFails
  <2>2. next \in {"grace", "moving", "drive", "assignee", "txn"}
    BY <2>1 DEF Skip, Questions
  <2>3. call[c] \in CallRecords /\ next \in Steps
    BY <1>t, <2>2 DEF Steps, Questions
  <2>4. /\ q \in CallRecords /\ q.pc = next /\ q.leg = call[c].leg /\ q.blind = TRUE
        /\ q.away = call[c].away /\ q.holders = call[c].holders
    BY <2>3 DEF CallRecords
  <2>5. call' = [call EXCEPT ![c] = q]
    BY <2>1
  <2>6. call[c].leg \in Legs /\ \A j \in 1 .. call[c].leg - 1 : j \in ever
    BY <1>0, <2>1 DEF TypeOK, LegInv, Steps, Questions
  <2>7. Watched(q)
    BY <1>0, <2>1, <2>2, <2>4 DEF HeldInv, Watched, Questions
  <2>8. UNCHANGED <<route, seen, moving, onBreak, shiftOff, ever, emitted, calls>>
    BY <1>12 DEF QueryFails, world
  <2>9. faults' \in 0 .. MaxFaults
    BY <1>12, <1>t DEF QueryFails
  <2>10. q.pc # "report"
    BY <2>2, <2>4
  <2> HIDE DEF q, next
  <2> QED BY <1>t, <2>4, <2>5, <2>6, <2>7, <2>8, <2>9, <2>10, CallPreserves
<1>13. ASSUME NEW c \in Callers, StatementFails(c) PROVE Inv'
  <2>1. UNCHANGED <<route, seen, moving, onBreak, shiftOff, ever, emitted, calls>>
    BY <1>13 DEF StatementFails, world
  <2>2. faults' \in 0 .. MaxFaults
    BY <1>13, <1>t DEF StatementFails
  <2>3. Unchanged(c)
    BY <1>13 DEF StatementFails
  <2> QED BY <1>0, <1>t, <2>1, <2>2, <2>3, UnchangedFacts, RestartPreserves
<1>14. CASE Crash
  <2>1. \A d \in Callers : call'[d] = Idle
    BY <1>14 DEF Crash
  <2>2. UNCHANGED <<status, policy, driver, seen, moving, onBreak, shiftOff, ever, emitted, calls>>
    BY <1>14 DEF Crash, route, world
  <2>3. faults' \in 0 .. MaxFaults
    BY <1>14, <1>t DEF Crash
  <2>4. call' \in [Callers -> CallRecords]
    BY <1>14, <1>i DEF Crash
  <2>5. "idle" \notin Steps
    BY DEF Steps, Questions
  <2>6. TypeOK'
    BY <1>0, <1>i, <2>1, <2>2, <2>3, <2>4, <2>5 DEF TypeOK
  <2>7. SafetyInv'
    BY <1>0, <1>i, <2>1, <2>2, <2>5
    DEF SafetyInv, EverPrefix, LegInv, HeldInv, Watched, UnavailableDriverBlocks, Resting,
        Idle, Steps, Questions
  <2> QED BY <2>6, <2>7 DEF Inv
<1>15. CASE PatchRoute \/ TimePasses \/ UNCHANGED vars
  <2>1. UNCHANGED <<status, driver, moving, onBreak, shiftOff, call, ever, emitted, calls,
                    faults>>
    BY <1>15, Zenon DEF PatchRoute, TimePasses, vars, route, world
  <2>2. policy' \in Policies \union {None}
    BY <1>0, <1>15 DEF PatchRoute, TimePasses, vars, route, TypeOK
  <2>3. seen' \in [EventTypes -> [Legs -> 0 .. MaxAge \union {None}]]
    <3>1. CASE UNCHANGED seen
      BY <1>t, <3>1
    <3>2. CASE TimePasses
      <4>1. ASSUME NEW t \in EventTypes, NEW k \in Legs
            PROVE  (IF seen[t][k] \in {None, MaxAge} THEN seen[t][k] ELSE seen[t][k] + 1)
                       \in 0 .. MaxAge \union {None}
        BY <1>t
      <4> QED BY <3>2, <4>1 DEF TimePasses
    <3> QED BY <1>15, <3>1, <3>2 DEF PatchRoute, vars, world
  <2>4. TypeOK'
    BY <1>0, <2>1, <2>2, <2>3 DEF TypeOK
  <2>5. SafetyInv'
    BY <1>0, <1>t, <2>1
    DEF SafetyInv, EverPrefix, LegInv, HeldInv, Watched, UnavailableDriverBlocks, Resting
  <2> QED BY <2>4, <2>5 DEF Inv
<1>16. ASSUME NEW e \in Drivers, NEW action \in HosActions, UpdateHOS(e, action)
       PROVE  Inv'
  BY <1>16, UpdateHOSPreserves
<1>17. CASE AssignRoute
  BY <1>17, AssignPreserves
<1> QED
  BY <1>1, <1>2, <1>3, <1>4, <1>5, <1>6, <1>7, <1>8, <1>9, <1>10, <1>11, <1>12, <1>13,
     <1>14, <1>15, <1>16, <1>17, <1>a DEF Next, CallStep

\* Whatever requests race on a route, in every reachable state no leg was visited or
\* started before those in front of it, and no request under a policy gets past the
\* question of the driver when everyone the route was given to was unavailable throughout.
THEOREM LegsInOrder == Spec => [](TypeOK /\ NoLegSkipped /\ UnavailableDriverBlocks)
<1>1. Inv => TypeOK /\ NoLegSkipped /\ UnavailableDriverBlocks
  <2> SUFFICES ASSUME Inv PROVE TypeOK /\ NoLegSkipped /\ UnavailableDriverBlocks
    OBVIOUS
  <2>1. TypeOK /\ EverPrefix /\ LegInv /\ UnavailableDriverBlocks
    BY DEF Inv, SafetyInv
  <2>2. PICK m \in 0 .. N : ever = 1 .. m
    BY <2>1 DEF EverPrefix
  <2>3. ASSUME NEW k \in Legs, status[k] # "pending" \/ k \in ever,
               NEW j \in 1 .. k - 1
        PROVE  j \in ever
    <3>1. k \in 1 .. N /\ j \in Nat /\ j >= 1 /\ j <= k - 1 /\ m \in Nat
      BY RouteAssumption DEF Legs
    <3>2. k \in ever \/ k = 1 \/ k - 1 \in ever
      BY <2>1, <2>3 DEF TypeOK, LegInv
    <3> QED BY <2>2, <3>1, <3>2
  <2> QED BY <2>1, <2>3 DEF NoLegSkipped
<1>2. Spec => []Inv
  BY InitInv, NextInv, PTL DEF Spec
<1> QED BY <1>1, <1>2, PTL

\* The route, its driver's state and every request at work keep their types.
THEOREM RouteTypes == Spec => []TypeOK
  BY LegsInOrder, PTL

\* However the route changes hands and the drivers' states change between the reads of a
\* request, drivers who are unavailable during all of it keep the request, if a policy
\* applies to it and its queries succeed, from advancing a route that is always one of
\* theirs.
THEOREM UnavailableBlocks == Spec => []UnavailableDriverBlocks
  BY LegsInOrder, PTL

----------------------------------------------------------------------------
(* The contract. *)

\* Every step of the store is a step of the contract or changes nothing it tells of.
LEMMA StepRefines ==
    Inv /\ Inv' /\ [Next]_vars => [Progress!Next]_(Progress!vars)
<1> SUFFICES ASSUME Inv, Inv', [Next]_vars PROVE [Progress!Next]_(Progress!vars)
  OBVIOUS
<1> USE RouteAssumption
<1> DEFINE done == Max(ever \union {0})
<1>0. TypeOK /\ EverPrefix /\ LegInv /\ EverPrefix'
  BY DEF Inv, SafetyInv
<1>1. PICK m \in 0 .. N : ever = 1 .. m
  BY <1>0 DEF EverPrefix
<1>2. PICK n \in 0 .. N : ever' = 1 .. n
  BY <1>0 DEF EverPrefix
<1>3. done = m /\ done' = n /\ m \in Nat /\ n \in Nat
  BY <1>1, <1>2, MaxSegment
<1>4. ASSUME NEW c \in Callers, Commit(c) PROVE [Progress!Next]_(Progress!vars)
  <2> DEFINE l == call[c].leg
  <2>1. l \in 1 .. N /\ ever' = ever \union {l} /\ emitted' = emitted
    BY <1>0, <1>4 DEF Commit, TypeOK, Steps, Legs
  <2>2. \A j \in 1 .. l - 1 : j \in 1 .. m
    BY <1>0, <1>1, <1>4 DEF Commit, LegInv, Steps
  <2>3. CASE l \in 1 .. m
    <3>1. ever' = ever
      BY <1>1, <2>1, <2>3
    <3> QED BY <2>1, <3>1 DEF Progress!vars
  <2>4. CASE l \notin 1 .. m
    <3>1. l = m + 1
      <4>1. CASE l = 1
        BY <1>3, <2>1, <2>4, <4>1
      <4>2. CASE l # 1
        <5>1. l - 1 \in 1 .. l - 1
          BY <2>1, <4>2
        <5>2. l - 1 \in 1 .. m
          BY <2>2, <5>1
        <5> QED BY <1>3, <2>1, <2>4, <5>2
      <4> QED BY <4>1, <4>2
    <3>2. ever' = 1 .. m + 1
      BY <1>1, <1>3, <2>1, <3>1
    <3>3. done' = m + 1
      BY <1>3, <3>2, MaxSegment
    <3>4. done < N /\ done' = done + 1
      BY <1>3, <2>1, <3>1, <3>3
    <3> QED BY <2>1, <3>4 DEF Progress!Next, Progress!Visit
  <2> QED BY <2>3, <2>4
<1>5. ASSUME NEW c \in Callers, Report(c) PROVE [Progress!Next]_(Progress!vars)
  <2>1. call[c].leg \in ever /\ emitted' = emitted \union {call[c].leg} /\ ever' = ever
    BY <1>0, <1>5 DEF Report, LegInv
  <2>2. call[c].leg \in 1 .. done /\ done' = done
    BY <1>1, <1>3, <2>1
  <2>3. \E k \in 1 .. done : emitted' = emitted \union {k}
    BY <2>1, <2>2
  <2> QED BY <2>2, <2>3 DEF Progress!Next, Progress!Announce
<1>6. CASE UNCHANGED <<ever, emitted>>
  BY <1>6 DEF Progress!vars
<1> QED
  BY <1>4, <1>5, <1>6
  DEF Next, CallStep, vars, Advance, DriverEvents, GetRoute, CurrentLeg, MinDwell, GracePeriod,
      MovingLock, HosMaxDrive, Assignee, DriverState, Gate, QueryFails, StatementFails, Crash,
      PatchRoute, AssignRoute, TimePasses, UpdateHOS

\* The store keeps the promise of RouteProgress to the clients of a route: leg by
\* leg, and no stop.advanced for a leg that was not visited.
THEOREM RouteKeepsPromise == Spec => ImplementsProgress
<1>1. Init => Progress!Init
  <2>1. Max((1 .. 0) \union {0}) = 0 /\ 1 .. 0 = {}
    BY MaxSegment
  <2> QED BY <2>1 DEF Init, Progress!Init
<1>2. Spec => []Inv
  BY InitInv, NextInv, PTL DEF Spec
<1> QED BY <1>1, <1>2, StepRefines, PTL DEF Spec, ImplementsProgress, Progress!Spec

----------------------------------------------------------------------------
(* One request at a time. *)

\* A step that leaves the statuses alone and moves one request's control.
LEMMA SoleCallPreserves ==
    ASSUME TypeOK, SoleInv, NEW c \in Callers, NEW q,
           call' = [call EXCEPT ![c] = q], status' = status,
           q.pc \in Steps \ {"route", "leg", "report"} =>
               /\ q.leg \in Legs /\ status[q.leg] # "visited"
               /\ \A j \in 1 .. q.leg - 1 : status[j] = "visited"
    PROVE  SoleInv'
<1>1. \A d \in Callers : call'[d] = IF d = c THEN q ELSE call[d]
  BY DEF TypeOK
<1> QED BY <1>1 DEF SoleInv

LEMMA SoleNext == SoleCaller /\ TypeOK /\ SoleInv /\ [Next]_vars => SoleInv'
<1> SUFFICES ASSUME SoleCaller, TypeOK, SoleInv, [Next]_vars PROVE SoleInv'
  OBVIOUS
<1> USE RouteAssumption
<1>1. ASSUME NEW c \in Callers, Advance(c) PROVE SoleInv'
  <2>1. PICK r \in Requests : Begin(c, r.force, r.reason, <<>>, 0)
    BY <1>1 DEF Advance
  <2> DEFINE q == [pc |-> "route", leg |-> None, pol |-> None, driver |-> None,
                   force |-> r.force, reason |-> r.reason, batch |-> <<>>, at |-> 0,
                   away |-> Resting, holders |-> {driver}, blind |-> FALSE]
  <2>2. call' = [call EXCEPT ![c] = q] /\ status' = status /\ q.pc = "route"
    BY <1>1, <2>1 DEF Begin, Advance, route
  <2> HIDE DEF q
  <2> QED BY <2>2, SoleCallPreserves
<1>2. ASSUME NEW c \in Callers, status' = status,
             \E q \in CallRecords : /\ call' = [call EXCEPT ![c] = q]
                                    /\ q.pc \in {"idle", "route"}
                                    /\ Watched(q)
      PROVE  SoleInv'
  <2>1. PICK q \in CallRecords : call' = [call EXCEPT ![c] = q] /\ q.pc \in {"idle", "route"}
    BY <1>2
  <2>2. q.pc \notin Steps \ {"route", "leg", "report"}
    BY <2>1 DEF Steps, Questions
  <2> QED BY <1>2, <2>1, <2>2, SoleCallPreserves
<1>3. ASSUME NEW c \in Callers, DriverEvents(c) PROVE SoleInv'
  <2>1. PICK batch \in Batches \union {<<>>} : NextTrigger(c, batch, 0)
    BY <1>3 DEF DriverEvents
  <2>2. status' = status /\ 0 \in Nat
    BY <1>3 DEF DriverEvents, route
  <2> QED BY <1>2, <2>1, <2>2, RestartFacts
<1>4. ASSUME NEW c \in Callers, Unchanged(c), status' = status PROVE SoleInv'
  BY <1>2, <1>4, UnchangedFacts
<1>5. ASSUME NEW c \in Callers, GetRoute(c) PROVE SoleInv'
  <2> DEFINE q == [call[c] EXCEPT !.pc = "leg", !.pol = policy]
  <2>1. call' = [call EXCEPT ![c] = q] /\ status' = status
    BY <1>5 DEF GetRoute, route
  <2>2. call[c] \in CallRecords
    BY DEF TypeOK
  <2>3. q.pc = "leg"
    BY <2>2 DEF CallRecords
  <2> HIDE DEF q
  <2> QED BY <2>1, <2>3, SoleCallPreserves
<1>6. ASSUME NEW c \in Callers, CurrentLeg(c) PROVE SoleInv'
  <2>1. status' = status
    BY <1>6 DEF CurrentLeg, route
  <2>2. ASSUME Unvisited # {}, NEW next \in {"txn", "dwell"},
               call' = [call EXCEPT ![c].leg = Min(Unvisited), ![c].pc = next]
        PROVE  SoleInv'
    <3> DEFINE q == [call[c] EXCEPT !.leg = Min(Unvisited), !.pc = next]
    <3>1. Unvisited \in SUBSET Nat
      BY DEF Unvisited, Legs
    <3>2. Min(Unvisited) \in Unvisited /\ \A y \in Unvisited : Min(Unvisited) <= y
      BY <2>2, <3>1, NatMin
    <3>3. Min(Unvisited) \in Legs /\ status[Min(Unvisited)] # "visited"
      BY <3>2 DEF Unvisited
    <3>4. ASSUME NEW j \in 1 .. Min(Unvisited) - 1 PROVE status[j] = "visited"
      <4>1. j \in Legs /\ j < Min(Unvisited) /\ j \in Nat
        BY <3>3 DEF Legs
      <4>2. ASSUME j \in Unvisited PROVE FALSE
        <5>1. Min(Unvisited) <= j /\ Min(Unvisited) \in Nat
          BY <3>1, <3>2, <4>2
        <5> QED BY <4>1, <5>1
      <4> QED BY <4>1, <4>2 DEF Unvisited
    <3>5. call[c] \in CallRecords
      BY DEF TypeOK
    <3>6. q.pc = next /\ q.leg = Min(Unvisited)
      BY <3>5 DEF CallRecords
    <3>7. call' = [call EXCEPT ![c] = q]
      BY <2>2
    <3> HIDE DEF q
    <3> QED BY <2>1, <3>3, <3>4, <3>6, <3>7, SoleCallPreserves
  <2> QED BY <1>4, <1>6, <2>1, <2>2 DEF CurrentLeg
<1>7. ASSUME NEW c \in Callers, NEW next \in Steps, status' = status,
             call[c].pc \in Questions,
             Unchanged(c) \/ Goto(c, next)
      PROVE  SoleInv'
  <2>1. CASE Unchanged(c)
    BY <1>4, <1>7, <2>1
  <2>2. CASE Goto(c, next)
    <3> DEFINE q == [call[c] EXCEPT !.pc = next]
    <3>1. call[c] \in CallRecords
      BY DEF TypeOK
    <3>2. q.leg = call[c].leg
      BY <3>1, MovedFacts
    <3>3. call' = [call EXCEPT ![c] = q]
      BY <2>2 DEF Goto
    <3>4. /\ call[c].leg \in Legs /\ status[call[c].leg] # "visited"
          /\ \A j \in 1 .. call[c].leg - 1 : status[j] = "visited"
      BY <1>7 DEF SoleInv, TypeOK, Steps, Questions
    <3> HIDE DEF q
    <3> QED BY <1>7, <3>2, <3>3, <3>4, SoleCallPreserves
  <2> QED BY <1>7, <2>1, <2>2
<1>8. ASSUME NEW c \in Callers,
             MinDwell(c) \/ GracePeriod(c) \/ MovingLock(c) \/ HosMaxDrive(c) \/ DriverState(c)
      PROVE  SoleInv'
  <2>1. {"grace", "moving", "drive", "assignee", "txn"} \subseteq Steps
    BY DEF Steps, Questions
  <2> QED BY <1>7, <1>8, <2>1
        DEF MinDwell, GracePeriod, MovingLock, HosMaxDrive, DriverState, Gate, route, Questions
<1>a. ASSUME NEW c \in Callers, Assignee(c) PROVE SoleInv'
  <2> DEFINE next == IF driver = None THEN "txn" ELSE "driver"
             q == [call[c] EXCEPT !.driver = driver, !.pc = next]
  <2>1. call[c] \in CallRecords
    BY DEF TypeOK
  <2>2. call' = [call EXCEPT ![c] = q] /\ status' = status
    BY <1>a DEF Assignee, route
  <2>3. q.leg = call[c].leg
    BY <2>1 DEF CallRecords
  <2>4. /\ call[c].leg \in Legs /\ status[call[c].leg] # "visited"
        /\ \A j \in 1 .. call[c].leg - 1 : status[j] = "visited"
    BY <1>a DEF Assignee, SoleInv, TypeOK, Steps, Questions
  <2> HIDE DEF q
  <2> QED BY <2>2, <2>3, <2>4, SoleCallPreserves
<1>9. ASSUME NEW c \in Callers, Commit(c) PROVE SoleInv'
  <2>1. Callers = {c}
    BY DEF SoleCaller
  <2>2. call[c] \in CallRecords /\ "report" \in Steps
    BY DEF TypeOK, Steps
  <2>3. call'[c] = [call[c] EXCEPT !.pc = "report"]
    BY <1>9 DEF Commit, Goto, TypeOK
  <2>4. call'[c].pc = "report"
    BY <2>2, <2>3, MovedFacts
  <2>5. /\ call[c].leg \in Legs
        /\ \A j \in 1 .. call[c].leg - 1 : status[j] = "visited"
        /\ status[call[c].leg] # "visited"
    BY <1>9 DEF Commit, SoleInv, TypeOK, Steps
  <2>6. \A k \in Legs : status'[k] = IF k = call[c].leg THEN "visited"
                                     ELSE IF k = call[c].leg + 1 THEN "in_progress"
                                     ELSE status[k]
    BY <1>9, <2>5 DEF Commit, Legs
  <2>7. ASSUME NEW k \in Legs, status'[k] = "visited", NEW j \in 1 .. k - 1
        PROVE  status'[j] = "visited"
    <3>1. k \in 1 .. N /\ j \in 1 .. N /\ j < k /\ call[c].leg \in 1 .. N
      BY <2>5 DEF Legs
    <3>2. k <= call[c].leg
      <4>1. CASE k = call[c].leg
        BY <3>1, <4>1
      <4>2. CASE k # call[c].leg
        <5>1. status[k] = "visited"
          BY <2>6, <2>7, <4>2
        <5>2. call[c].leg \notin 1 .. k - 1
          BY <2>5, <5>1 DEF SoleInv
        <5> QED BY <3>1, <5>2
      <4> QED BY <4>1, <4>2
    <3>3. j \in Legs /\ j \in 1 .. call[c].leg - 1 /\ j # call[c].leg /\ j # call[c].leg + 1
      BY <3>1, <3>2 DEF Legs
    <3> QED BY <2>5, <2>6, <3>3
  <2> QED BY <2>1, <2>4, <2>7 DEF SoleInv
<1>10. ASSUME NEW c \in Callers, Report(c) PROVE SoleInv'
  <2>1. call' = [call EXCEPT ![c] = Idle] /\ status' = status
    BY <1>10 DEF Report, route
  <2>2. Idle.pc \notin Steps
    BY DEF Idle, Steps, Questions
  <2> QED BY <2>1, <2>2, SoleCallPreserves
<1>11. ASSUME NEW c \in Callers, QueryFails(c) PROVE SoleInv'
  <2> DEFINE q == [call[c] EXCEPT !.pc = Skip[call[c].pc], !.blind = TRUE]
  <2>2. call[c].pc \in Steps \ {"route", "leg", "report"}
    BY <1>11 DEF QueryFails, Questions, Steps
  <2>3. call[c] \in CallRecords
    BY DEF TypeOK
  <2>4. q.leg = call[c].leg
    BY <2>3 DEF CallRecords
  <2>5. call' = [call EXCEPT ![c] = q] /\ status' = status
    BY <1>11 DEF QueryFails, route
  <2>6. /\ call[c].leg \in Legs /\ status[call[c].leg] # "visited"
        /\ \A j \in 1 .. call[c].leg - 1 : status[j] = "visited"
    BY <2>2 DEF SoleInv, TypeOK
  <2> HIDE DEF q
  <2> QED BY <2>4, <2>5, <2>6, SoleCallPreserves
<1>12. ASSUME NEW c \in Callers, StatementFails(c) PROVE SoleInv'
  BY <1>4, <1>12 DEF StatementFails, route
<1>13. CASE Crash
  <2>1. \A d \in Callers : call'[d].pc = "idle"
    BY <1>13 DEF Crash, Idle
  <2>2. status' = status
    BY <1>13 DEF Crash, route
  <2> QED BY <2>1, <2>2 DEF SoleInv, Steps, Questions
<1>14. CASE PatchRoute \/ TimePasses \/ UNCHANGED vars
  <2>1. UNCHANGED <<status, call>>
    BY <1>14 DEF PatchRoute, TimePasses, vars, route
  <2> QED BY <2>1 DEF SoleInv
<1>15. CASE AssignRoute \/ \E e \in Drivers, action \in HosActions : UpdateHOS(e, action)
  <2>1. ASSUME NEW d \in Callers
        PROVE  call'[d].pc = call[d].pc /\ call'[d].leg = call[d].leg
    <3>1. call[d] \in CallRecords
      BY DEF TypeOK
    <3>2. CASE AssignRoute
      <4>1. PICK e \in Drivers :
              call' = [c \in Callers |->
                  [call[c] EXCEPT !.holders = IF @ = {} THEN {} ELSE @ \union {e}]]
        BY <3>2 DEF AssignRoute
      <4> QED BY <3>1, <4>1 DEF CallRecords
    <3>3. ASSUME NEW e \in Drivers, NEW action \in HosActions, UpdateHOS(e, action)
          PROVE  call'[d].pc = call[d].pc /\ call'[d].leg = call[d].leg
      BY <3>1, <3>3 DEF UpdateHOS, CallRecords
    <3> QED BY <1>15, <3>2, <3>3
  <2>2. status' = status
    BY <1>15 DEF AssignRoute, UpdateHOS, route
  <2> QED BY <2>1, <2>2 DEF SoleInv
<1> QED
  BY <1>1, <1>3, <1>5, <1>6, <1>8, <1>9, <1>10, <1>11, <1>12, <1>13, <1>14, <1>15, <1>a
  DEF Next, CallStep

\* When requests on a route come one at a time, every advance takes the first
\* non-visited leg to visited and no visited leg is ever reopened.
THEOREM SoleCallerAdvances == SoleCaller => (Spec => AdvancesCurrentLeg)
<1> SUFFICES ASSUME SoleCaller PROVE Spec => AdvancesCurrentLeg
  OBVIOUS
<1> USE RouteAssumption
<1>1. Init => SoleInv
  <2> SUFFICES ASSUME Init PROVE SoleInv
    OBVIOUS
  <2>1. \A k \in Legs : status[k] # "visited"
    BY DEF Init
  <2>2. \A c \in Callers : call[c].pc = "idle"
    BY DEF Init, Idle
  <2> QED BY <2>1, <2>2 DEF SoleInv, Steps, Questions
<1>2. TypeOK /\ SoleInv /\ [Next]_vars =>
          [status' # status =>
              /\ Unvisited # {}
              /\ status'[Min(Unvisited)] = "visited"
              /\ \A k \in Legs : status[k] = "visited" => status'[k] = "visited"]_status
  <2> SUFFICES ASSUME TypeOK, SoleInv, Next, status' # status
               PROVE  /\ Unvisited # {}
                      /\ status'[Min(Unvisited)] = "visited"
                      /\ \A k \in Legs : status[k] = "visited" => status'[k] = "visited"
    BY DEF vars, route
  <2>1. PICK c \in Callers : Commit(c)
    BY DEF Next, CallStep, Advance, DriverEvents, GetRoute, CurrentLeg, MinDwell, GracePeriod,
           MovingLock, HosMaxDrive, Assignee, DriverState, Gate, QueryFails, StatementFails, Crash,
           PatchRoute, AssignRoute, TimePasses, UpdateHOS, Report, route
  <2> DEFINE l == call[c].leg
  <2>2. /\ l \in Legs /\ status[l] # "visited"
        /\ \A j \in 1 .. l - 1 : status[j] = "visited"
    BY <2>1 DEF Commit, SoleInv, TypeOK, Steps
  <2>3. l \in Unvisited /\ Unvisited \in SUBSET Nat
    BY <2>2 DEF Unvisited, Legs
  <2>4. Min(Unvisited) \in Unvisited /\ Min(Unvisited) <= l
    BY <2>3, NatMin
  <2>5. Min(Unvisited) = l
    <3>1. Min(Unvisited) \in Legs /\ status[Min(Unvisited)] # "visited"
      BY <2>4 DEF Unvisited
    <3>2. Min(Unvisited) \notin 1 .. l - 1
      BY <2>2, <3>1
    <3> QED BY <2>2, <2>4, <3>1, <3>2 DEF Legs
  <2>6. \A k \in Legs : status'[k] = IF k = l THEN "visited"
                                     ELSE IF k = l + 1 THEN "in_progress" ELSE status[k]
    BY <2>1, <2>2 DEF Commit, Legs
  <2>7. ASSUME NEW k \in Legs, k = l + 1 PROVE status[k] # "visited"
    <3>1. l \in 1 .. k - 1
      BY <2>2, <2>7 DEF Legs
    <3> QED BY <2>2, <3>1 DEF SoleInv
  <2> QED BY <2>2, <2>3, <2>5, <2>6, <2>7
<1>3. Spec => [](TypeOK /\ SoleInv)
  <2>1. Inv => TypeOK
    BY DEF Inv
  <2>2. Spec => []Inv
    BY InitInv, NextInv, PTL DEF Spec
  <2> QED BY <1>1, <2>1, <2>2, SoleNext, PTL DEF Spec
<1> QED BY <1>2, <1>3, PTL DEF Spec, AdvancesCurrentLeg

=============================================================================

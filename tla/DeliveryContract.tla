-------------------------- MODULE DeliveryContract --------------------------
(***************************************************************************)
(* What the webhook subsystem promises of every delivery, whatever store   *)
(* keeps it: it is queued until an attempt succeeds or MaxAttempts of them *)
(* have failed, a settled delivery leaves that state only when the         *)
(* administrator asks for a retry, and a queued one is always tried again  *)
(* unless one that cannot even be sent is queued too.                      *)
(***************************************************************************)
EXTENDS Naturals

CONSTANTS
    Deliveries,
    Unsendable,  \* those whose address no request can be made for
    MaxAttempts

VARIABLES
    state,  \* "none", "queued", "delivered" or "dead"
    tries   \* attempts counted as failed

vars == <<state, tries>>

Init ==
    /\ state = [d \in Deliveries |-> "none"]
    /\ tries = [d \in Deliveries |-> 0]

Accept(d) ==
    /\ state[d] = "none"
    /\ state' = [state EXCEPT ![d] = "queued"]
    /\ UNCHANGED tries

TryFails(d) ==
    /\ state[d] = "queued"
    /\ tries[d] + 1 < MaxAttempts
    /\ tries' = [tries EXCEPT ![d] = @ + 1]
    /\ UNCHANGED state

Deliver(d) ==
    /\ state[d] = "queued"
    /\ state' = [state EXCEPT ![d] = "delivered"]
    /\ UNCHANGED tries

GiveUp(d) ==
    /\ state[d] = "queued"
    /\ tries[d] + 1 >= MaxAttempts
    /\ state' = [state EXCEPT ![d] = "dead"]
    /\ UNCHANGED tries

Revive(d) ==
    /\ state[d] \in {"delivered", "dead"}
    /\ state' = [state EXCEPT ![d] = "queued"]
    /\ UNCHANGED tries

Try(d) == d \notin Unsendable /\ (TryFails(d) \/ Deliver(d) \/ GiveUp(d))

\* What cannot be sent stays queued for ever and may hold up the others.
Blocked == \E d \in Unsendable : state[d] = "queued"

Next == \E d \in Deliveries : Accept(d) \/ Try(d) \/ Revive(d)

Spec == Init /\ [][Next]_vars

FairSpec == Spec /\ \A d \in Deliveries : WF_vars(~Blocked /\ Try(d))

=============================================================================

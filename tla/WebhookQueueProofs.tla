------------------------- MODULE WebhookQueueProofs -------------------------
(***************************************************************************)
(* Proofs about WebhookQueue for any set of workers and rows and any       *)
(* bounds.  RowInv is the part of the inductive invariant that speaks of   *)
(* single rows and workers; the counting invariants, which need facts on   *)
(* cardinality, are proved on top of it, and the refinement of             *)
(* DeliveryContract on top of SoleInv.                                     *)
(***************************************************************************)
EXTENDS WebhookQueue, FiniteSetTheorems, TLAPS

RowInv ==
    /\ TypeOK
    /\ WorkerInv
    /\ CopiesBehind
    /\ DlqInv
    /\ GivenUpOnlyWhenExhausted
    /\ DeliveredWasAcked

\* All that RowInv reads stays the same.
LEMMA RowInvStutter ==
    ASSUME RowInv, UNCHANGED <<table, dead, work, requeuing, acked, fails, bounds>>
    PROVE  RowInv'
  BY DEF RowInv, TypeOK, WorkerInv, CopiesBehind, DlqInv, GivenUpOnlyWhenExhausted,
         DeliveredWasAcked, Held, table, dead, work, bounds

LEMMA InitRowInv == Init => RowInv
  BY ConstantsAssumption
  DEF Init, RowInv, TypeOK, WorkerInv, CopiesBehind, DlqInv, GivenUpOnlyWhenExhausted,
      DeliveredWasAcked, Held, Status, NotHeld

\* The statement that records an outcome keeps the table well-typed.
LEMMA MarkType ==
    ASSUME TypeOK, NEW d \in Deliveries, NEW success \in BOOLEAN,
           MarkWebhookDelivery(d, success)
    PROVE  /\ status' \in [Deliveries -> Status]
           /\ attempts' \in [Deliveries -> Nat]
           /\ due' \subseteq Deliveries
  BY DEF TypeOK, MarkWebhookDelivery, Status

\* A worker's own steps.
LEMMA WorkerRowInv ==
    ASSUME RowInv, NEW w \in Workers,
           WorkerStep(w) \/ StatementFails(w) \/ Crash(w) \/ Restart(w)
    PROVE  RowInv'
<1> USE ConstantsAssumption DEF RowInv, TypeOK, WorkerInv, Held, NotHeld, Status, Live
<1>1. CASE FetchDue(w)
  <2> USE <1>1 DEF FetchDue, DueRows, table, dead, bounds
  <2>1. TypeOK' /\ WorkerInv'
    OBVIOUS
  <2>2. CopiesBehind'
    BY DEF CopiesBehind
  <2>3. (DlqInv /\ GivenUpOnlyWhenExhausted /\ DeliveredWasAcked)'
    BY DEF DlqInv, GivenUpOnlyWhenExhausted, DeliveredWasAcked
  <2> QED BY <2>1, <2>2, <2>3
<1>2. CASE Post(w)
  <2> USE <1>2 DEF Post, table, dead, bounds
  <2>1. TypeOK' /\ WorkerInv'
    OBVIOUS
  <2>2. CopiesBehind'
    BY DEF CopiesBehind
  <2>3. (DlqInv /\ GivenUpOnlyWhenExhausted /\ DeliveredWasAcked)'
    BY DEF DlqInv, GivenUpOnlyWhenExhausted, DeliveredWasAcked
  <2> QED BY <2>1, <2>2, <2>3
<1>3. CASE ContextExpired(w)
  BY <1>3 DEF ContextExpired, EndBatch, table, dead, bounds, CopiesBehind, DlqInv,
              GivenUpOnlyWhenExhausted, DeliveredWasAcked
<1>10. CASE PostPanics(w)
  BY <1>10 DEF PostPanics, EndBatch, table, dead, bounds, CopiesBehind, DlqInv,
               GivenUpOnlyWhenExhausted, DeliveredWasAcked
<1>4. CASE Mark(w)
  <2> USE <1>4 DEF Mark, MarkWebhookDelivery, EndItem, Exhausted, Alone, dead, bounds
  <2>0. cur[w] \in Deliveries
    OBVIOUS
  <2>1. TypeOK'
    <3>1. /\ pc' \in [Workers -> {"idle", "post", "mark", "dlq", "down"}]
          /\ cur' \in [Workers -> Deliveries \union {NoItem}]
          /\ ok' \in [Workers -> BOOLEAN]
          /\ batch' \in [Workers -> [Deliveries -> Nat \union {NotHeld}]]
          /\ budget' \in [Workers -> Nat]
      OBVIOUS
    <3>2. /\ status' \in [Deliveries -> Status]
          /\ attempts' \in [Deliveries -> Nat]
          /\ due' \subseteq Deliveries
      <4>1. MarkWebhookDelivery(cur[w], ok[w]) /\ ok[w] \in BOOLEAN
        OBVIOUS
      <4> QED BY <2>0, <4>1, MarkType
    <3> QED BY <3>1, <3>2
  <2>2. WorkerInv'
    OBVIOUS
  <2>3. CopiesBehind'
    BY DEF CopiesBehind
  <2>4. DlqInv'
    BY DEF DlqInv
  <2>5. GivenUpOnlyWhenExhausted'
    BY DEF GivenUpOnlyWhenExhausted
  <2>6. DeliveredWasAcked'
    BY DEF DeliveredWasAcked
  <2> QED BY <2>1, <2>2, <2>3, <2>4, <2>5, <2>6
<1>5. CASE Fail(w)
  <2> USE <1>5 DEF Fail, FailUpdate, Exhausted, dead, bounds
  <2>1. TypeOK' /\ WorkerInv'
    OBVIOUS
  <2>2. CopiesBehind' /\ DlqInv'
    BY DEF CopiesBehind, DlqInv
  <2>3. GivenUpOnlyWhenExhausted'
    \* The copy the decision rests on is not ahead of the row.
    BY DEF GivenUpOnlyWhenExhausted, CopiesBehind
  <2>4. DeliveredWasAcked'
    BY DEF DeliveredWasAcked
  <2> QED BY <2>1, <2>2, <2>3, <2>4
<1>6. CASE DeadLetter(w)
  <2> USE <1>6 DEF DeadLetter, DlqInsert, EndItem, Alone, table, bounds
  <2>1. TypeOK' /\ WorkerInv'
    OBVIOUS
  <2>2. CopiesBehind'
    BY DEF CopiesBehind
  <2>3. DlqInv'
    BY DEF DlqInv, CopiesBehind
  <2>4. GivenUpOnlyWhenExhausted'
    BY DEF GivenUpOnlyWhenExhausted, CopiesBehind
  <2>5. DeliveredWasAcked'
    BY DEF DeliveredWasAcked
  <2> QED BY <2>1, <2>2, <2>3, <2>4, <2>5
<1>7. CASE StatementFails(w)
  BY <1>7 DEF StatementFails, EndItem, Alone, table, dead, CopiesBehind, DlqInv,
              GivenUpOnlyWhenExhausted, DeliveredWasAcked
<1>8. CASE Crash(w)
  BY <1>8 DEF Crash, EndBatch, table, dead, CopiesBehind, DlqInv,
              GivenUpOnlyWhenExhausted, DeliveredWasAcked
<1>9. CASE Restart(w)
  BY <1>9 DEF Restart, table, dead, bounds, CopiesBehind, DlqInv,
              GivenUpOnlyWhenExhausted, DeliveredWasAcked
<1> QED BY <1>1, <1>2, <1>3, <1>4, <1>5, <1>6, <1>7, <1>8, <1>9, <1>10 DEF WorkerStep

\* The producers', the clock's and the administrator's steps.
LEMMA OutsideRowInv ==
    ASSUME RowInv,
           \/ \E d \in Deliveries : Emit(d) \/ BackoffElapses(d) \/ RetryWebhookDelivery(d)
           \/ \E e \in dlq \union requeuing :
                RequeueEnqueue(e) \/ RequeueDelete(e) \/ DeleteDLQ(e)
           \/ RequeueBulk
    PROVE  RowInv'
<1> USE ConstantsAssumption
    DEF RowInv, TypeOK, WorkerInv, CopiesBehind, DlqInv, GivenUpOnlyWhenExhausted,
        DeliveredWasAcked, Held, NotHeld, Status, Live, dead, work, bounds
<1>1. ASSUME NEW d \in Deliveries, Emit(d) PROVE RowInv'
  BY <1>1 DEF Emit, EnqueueWebhook
<1>2. ASSUME NEW d \in Deliveries, BackoffElapses(d) PROVE RowInv'
  BY <1>2 DEF BackoffElapses
<1>3. ASSUME NEW d \in Deliveries, RetryWebhookDelivery(d) PROVE RowInv'
  BY <1>3 DEF RetryWebhookDelivery
<1>4. ASSUME NEW e \in dlq \union requeuing, RequeueEnqueue(e) PROVE RowInv'
  BY <1>4 DEF RequeueEnqueue, EnqueueWebhook
<1>5. ASSUME NEW e \in dlq \union requeuing, RequeueDelete(e) PROVE RowInv'
  BY <1>5 DEF RequeueDelete, table
<1>6. ASSUME NEW e \in dlq \union requeuing, DeleteDLQ(e) PROVE RowInv'
  BY <1>6 DEF DeleteDLQ, table
<1>7. CASE RequeueBulk
  BY <1>7 DEF RequeueBulk, EnqueueWebhook
<1> QED BY <1>1, <1>2, <1>3, <1>4, <1>5, <1>6, <1>7

LEMMA RowInvStep == RowInv /\ [Next]_vars => RowInv'
<1> SUFFICES ASSUME RowInv, [Next]_vars PROVE RowInv'
  OBVIOUS
<1>1. CASE UNCHANGED vars
  BY <1>1, RowInvStutter DEF vars
<1>2. ASSUME NEW w \in Workers, IdleTick(w) PROVE RowInv'
  BY <1>2, RowInvStutter DEF IdleTick, vars
<1> QED BY <1>1, <1>2, WorkerRowInv, OutsideRowInv DEF Next

\* The tables and the workers' local states keep their types, no row is given up
\* early, and no row is marked delivered without an acknowledgement: with any
\* number of workers, crashes, failed statements and administrator actions.
THEOREM RowsCorrect == Spec => [](TypeOK /\ GivenUpOnlyWhenExhausted /\ DeliveredWasAcked)
<1>1. RowInv => TypeOK /\ GivenUpOnlyWhenExhausted /\ DeliveredWasAcked
  BY DEF RowInv
<1> QED BY InitRowInv, RowInvStep, <1>1, PTL DEF Spec

\* The rows, the dead letters and the copies the workers hold keep their types; a row's
\* attempts stay a number whatever races on it.
THEOREM QueueTypes == Spec => []TypeOK
  BY RowsCorrect, PTL

\* MarkWebhookDelivery never reports a success the endpoint has not given: a delivered
\* row was answered 2xx, also after crashes, retries and requeues.
THEOREM DeliveriesWereAcked == Spec => []DeliveredWasAcked
  BY RowsCorrect, PTL

----------------------------------------------------------------------------
(* How far the attempts can overshoot. *)

\* Counting(d) is a set of workers, so it is finite and has a size.
LEMMA CountingFinite ==
    \A d \in Deliveries :
        /\ IsFiniteSet(Counting(d))
        /\ Cardinality(Counting(d)) \in Nat
        /\ Cardinality(Counting(d)) <= Cardinality(Workers)
  BY ConstantsAssumption, FS_Subset, FS_CardinalityType DEF Counting

LEMMA CountingFinitePrime ==
    \A d \in Deliveries :
        /\ IsFiniteSet(Counting(d)')
        /\ Cardinality(Counting(d)') \in Nat
        /\ Cardinality(Counting(d)') <= Cardinality(Workers)
  BY ConstantsAssumption, FS_Subset, FS_CardinalityType DEF Counting

\* A step that counts no attempt of d and lets no further worker count one.
LEMMA CountingShrinks ==
    ASSUME TypeOK, CountInv, NEW d \in Deliveries,
           attempts'[d] = attempts[d], Counting(d)' \subseteq Counting(d)
    PROVE  attempts'[d] + Cardinality(Counting(d)')
               <= MaxAttempts + Cardinality(Workers) - 2
<1>1. Cardinality(Counting(d)') <= Cardinality(Counting(d))
  BY CountingFinite, FS_Subset
<1>2. Cardinality(Workers) \in Nat
  BY ConstantsAssumption, FS_CardinalityType
<1> QED BY <1>1, <1>2, CountingFinite, CountingFinitePrime, ConstantsAssumption
        DEF TypeOK, CountInv

LEMMA InitCountInv == Init => CountInv
<1> SUFFICES ASSUME Init PROVE CountInv
  OBVIOUS
<1>1. ASSUME NEW d \in Deliveries PROVE attempts[d] = 0 /\ Counting(d) = {}
  BY DEF Init, Counting, Held
<1>2. Cardinality(Workers) \in Nat \ {0}
  BY ConstantsAssumption, FS_CardinalityType, FS_EmptySet
<1>3. ASSUME NEW d \in Deliveries
      PROVE  attempts[d] + Cardinality(Counting(d)) <= MaxAttempts + Cardinality(Workers) - 2
  <2>1. Cardinality(Counting(d)) = 0
    BY <1>1, FS_EmptySet
  <2> QED BY <1>1, <1>2, <2>1, ConstantsAssumption
<1> QED BY <1>3 DEF CountInv

LEMMA CountInvStep == RowInv /\ CountInv /\ [Next]_vars => CountInv'
<1> SUFFICES ASSUME RowInv, CountInv, [Next]_vars, NEW d \in Deliveries
             PROVE  attempts'[d] + Cardinality(Counting(d)')
                        <= MaxAttempts + Cardinality(Workers) - 2
  BY DEF CountInv
<1> DEFINE Quiet == attempts'[d] = attempts[d] /\ Counting(d)' \subseteq Counting(d)
<1>0. TypeOK /\ WorkerInv
  BY DEF RowInv
<1>n. Cardinality(Workers) \in Nat
  BY ConstantsAssumption, FS_CardinalityType
<1>1. ASSUME NEW w \in Workers, FetchDue(w)
      PROVE  attempts'[d] + Cardinality(Counting(d)')
                 <= MaxAttempts + Cardinality(Workers) - 2
  <2>0. attempts'[d] = attempts[d] /\ attempts[d] \in Nat
    BY <1>0, <1>1 DEF FetchDue, table, TypeOK
  <2>1. CASE w \in Counting(d)'
    \* The copy is as new as the row, which is still below the limit.
    <3>1. attempts[d] + 1 < MaxAttempts
      BY <1>0, <1>1, <2>1 DEF FetchDue, Counting, Held, NotHeld, TypeOK
    <3> QED BY <1>n, <2>0, <3>1, CountingFinitePrime, ConstantsAssumption
  <2>2. CASE w \notin Counting(d)'
    <3>1. Counting(d)' \subseteq Counting(d)
      BY <1>0, <1>1, <2>2 DEF FetchDue, Counting, Held, TypeOK
    <3> QED BY <1>0, <2>0, <3>1, CountingShrinks
  <2> QED BY <2>1, <2>2
<1>2. ASSUME NEW w \in Workers, Mark(w)
      PROVE  attempts'[d] + Cardinality(Counting(d)')
                 <= MaxAttempts + Cardinality(Workers) - 2
  <2>0. Counting(d)' \subseteq Counting(d)
    BY <1>0, <1>2 DEF Mark, EndItem, Counting, Held, NotHeld, TypeOK, WorkerInv
  <2>1. CASE ok[w] \/ cur[w] # d
    <3>1. attempts'[d] = attempts[d]
      BY <1>0, <1>2, <2>1 DEF Mark, MarkWebhookDelivery, TypeOK, WorkerInv
    <3> QED BY <1>0, <2>0, <3>1, CountingShrinks
  <2>2. CASE ~ok[w] /\ cur[w] = d
    \* The worker that counts the attempt can count no other.
    <3>1. w \in Counting(d)
      <4>1. Held(w, d)
        BY <1>0, <1>2, <2>2 DEF Mark, WorkerInv
      <4>2. ~(batch[w][d] + 1 >= MaxAttempts) /\ batch[w][d] \in Int
        BY <1>0, <1>2, <2>2 DEF Mark, Exhausted, TypeOK, NotHeld
      <4> QED BY <4>1, <4>2, ConstantsAssumption DEF Counting
    <3>2. w \notin Counting(d)'
      BY <1>0, <1>2, <2>2 DEF Mark, EndItem, Counting, Held, TypeOK
    <3>3. attempts'[d] = attempts[d] + 1 /\ attempts[d] \in Nat
      BY <1>0, <1>2, <2>2 DEF Mark, MarkWebhookDelivery, TypeOK
    <3>4. Cardinality(Counting(d)') <= Cardinality(Counting(d) \ {w})
      BY <2>0, <3>2, CountingFinite, FS_RemoveElement, FS_Subset
    <3>5. Cardinality(Counting(d) \ {w}) = Cardinality(Counting(d)) - 1
      BY <3>1, CountingFinite, FS_RemoveElement
    <3> QED BY <1>n, <3>3, <3>4, <3>5, CountingFinite, CountingFinitePrime,
               ConstantsAssumption DEF CountInv
  <2> QED BY <2>1, <2>2, <1>0 DEF TypeOK
<1>3. ASSUME NEW w \in Workers,
             \/ Post(w) \/ PostPanics(w) \/ ContextExpired(w) \/ Fail(w)
             \/ DeadLetter(w) \/ StatementFails(w) \/ Crash(w) \/ Restart(w)
      PROVE  Quiet
  <2>1. CASE Post(w) \/ Fail(w) \/ Restart(w)
    BY <2>1 DEF Post, Fail, FailUpdate, Restart, Counting, Held, table
  <2>2. CASE PostPanics(w) \/ ContextExpired(w) \/ Crash(w)
    <3>1. /\ attempts' = attempts
          /\ batch' = [batch EXCEPT ![w] = [e \in Deliveries |-> NotHeld]]
      BY <2>2 DEF PostPanics, ContextExpired, Crash, EndBatch, table
    <3> QED BY <1>0, <3>1 DEF Counting, Held, NotHeld, TypeOK
  <2>3. CASE DeadLetter(w) \/ StatementFails(w)
    <3>1. cur[w] \in Deliveries
      BY <1>0, <2>3 DEF DeadLetter, StatementFails, WorkerInv
    <3>2. attempts' = attempts /\ batch' = [batch EXCEPT ![w][cur[w]] = NotHeld]
      BY <2>3 DEF DeadLetter, StatementFails, EndItem, table
    <3> QED BY <1>0, <3>1, <3>2 DEF Counting, Held, NotHeld, TypeOK
  <2> QED BY <1>3, <2>1, <2>2, <2>3
<1>4. ASSUME NEW c \in Deliveries,
             Emit(c) \/ BackoffElapses(c) \/ RetryWebhookDelivery(c)
      PROVE  Quiet
  BY <1>4 DEF Emit, EnqueueWebhook, BackoffElapses, RetryWebhookDelivery, Counting, Held,
              work
<1>5. ASSUME NEW e, RequeueEnqueue(e) \/ RequeueDelete(e) \/ DeleteDLQ(e)
      PROVE  Quiet
  BY <1>5 DEF RequeueEnqueue, EnqueueWebhook, RequeueDelete, DeleteDLQ, Counting, Held,
              table, work
<1>6. CASE RequeueBulk
  <2>1. Quiet
    BY <1>6 DEF RequeueBulk, EnqueueWebhook, Counting, Held, work
  <2> QED BY <1>0, <2>1, CountingShrinks
<1>7. CASE UNCHANGED vars
  <2>1. Quiet
    BY <1>7 DEF Counting, Held, vars, table, work
  <2> QED BY <1>0, <2>1, CountingShrinks
<1>8. ASSUME NEW w \in Workers, IdleTick(w) PROVE UNCHANGED vars
  BY <1>8 DEF IdleTick
<1> QED BY <1>0, <1>1, <1>2, <1>3, <1>4, <1>5, <1>6, <1>7, <1>8, CountingShrinks
        DEF Next, WorkerStep

\* However many workers read the same row before any of them writes, the row's
\* attempts exceed MaxAttempts - 1 by at most one for every further worker; with
\* one worker they never reach MaxAttempts.
THEOREM AttemptsNeverRunAway == Spec => []AttemptsBounded
<1>1. RowInv /\ CountInv => AttemptsBounded
  <2> SUFFICES ASSUME RowInv, CountInv, NEW d \in Deliveries
               PROVE  attempts[d] <= MaxAttempts + Cardinality(Workers) - 2
    BY DEF AttemptsBounded
  <2>1. Cardinality(Workers) \in Nat
    BY ConstantsAssumption, FS_CardinalityType
  <2> QED BY <2>1, CountingFinite, ConstantsAssumption DEF RowInv, TypeOK, CountInv
<1> QED BY InitRowInv, RowInvStep, InitCountInv, CountInvStep, <1>1, PTL DEF Spec

----------------------------------------------------------------------------
(* Dead letters. *)

LEMMA HalfFailedFinite ==
    \A d \in Deliveries :
        IsFiniteSet(HalfFailed(d)) /\ Cardinality(HalfFailed(d)) \in Nat
  BY ConstantsAssumption, FS_Subset, FS_CardinalityType DEF HalfFailed

LEMMA DeadLetterDebtStep == RowInv /\ DeadLetterDebt /\ [Next]_vars => DeadLetterDebt'
<1> SUFFICES ASSUME RowInv, DeadLetterDebt, [Next]_vars, NEW d \in Deliveries
             PROVE  fails'[d] <= dlqCount'[d] + Cardinality(HalfFailed(d)') + faults'
  BY DEF DeadLetterDebt
<1> DEFINE Debt == fails'[d] <= dlqCount'[d] + Cardinality(HalfFailed(d)') + faults'
           Quiet == /\ fails'[d] = fails[d] /\ dlqCount'[d] = dlqCount[d]
                    /\ faults' = faults /\ HalfFailed(d)' = HalfFailed(d)
<1>0. TypeOK /\ WorkerInv
  BY DEF RowInv
<1>n. /\ fails[d] \in Nat /\ dlqCount[d] \in Nat /\ faults \in Nat
      /\ IsFiniteSet(HalfFailed(d)) /\ Cardinality(HalfFailed(d)) \in Nat
      /\ fails[d] <= dlqCount[d] + Cardinality(HalfFailed(d)) + faults
  BY <1>0, HalfFailedFinite DEF TypeOK, DeadLetterDebt
<1>1. ASSUME NEW w \in Workers, Fail(w) PROVE Debt
  <2>1. HalfFailed(d)' = IF cur[w] = d THEN HalfFailed(d) \union {w} ELSE HalfFailed(d)
    BY <1>0, <1>1 DEF Fail, HalfFailed, TypeOK
  <2>2. w \notin HalfFailed(d)
    BY <1>1 DEF Fail, HalfFailed
  <2>3. fails'[d] = IF cur[w] = d THEN fails[d] + 1 ELSE fails[d]
    BY <1>0, <1>1 DEF Fail, TypeOK
  <2>4. dlqCount' = dlqCount /\ faults' = faults
    BY <1>1 DEF Fail, dead, bounds
  <2>5. Cardinality(HalfFailed(d)')
            = IF cur[w] = d THEN Cardinality(HalfFailed(d)) + 1
                            ELSE Cardinality(HalfFailed(d))
    BY <1>n, <2>1, <2>2, FS_AddElement
  <2> QED BY <1>n, <2>3, <2>4, <2>5
<1>2. ASSUME NEW w \in Workers, DeadLetter(w) PROVE Debt
  <2>1. HalfFailed(d)' = HalfFailed(d) \ {w}
    BY <1>0, <1>2 DEF DeadLetter, EndItem, HalfFailed, TypeOK
  <2>2. w \in HalfFailed(d) => cur[w] = d
    BY DEF HalfFailed
  <2>3. dlqCount'[d] = IF cur[w] = d THEN dlqCount[d] + 1 ELSE dlqCount[d]
    BY <1>0, <1>2 DEF DeadLetter, DlqInsert, TypeOK
  <2>4. fails' = fails /\ faults' = faults
    BY <1>2 DEF DeadLetter, bounds
  <2>5. Cardinality(HalfFailed(d)')
            = IF w \in HalfFailed(d) THEN Cardinality(HalfFailed(d)) - 1
                                     ELSE Cardinality(HalfFailed(d))
    BY <1>n, <2>1, FS_RemoveElement
  <2> QED BY <1>n, <2>2, <2>3, <2>4, <2>5
<1>3. ASSUME NEW w \in Workers, StatementFails(w) \/ Crash(w) PROVE Debt
  \* The fault pays for the dead letter that is lost.
  <2>1. HalfFailed(d)' = HalfFailed(d) \ {w}
    BY <1>0, <1>3 DEF StatementFails, Crash, EndItem, EndBatch, HalfFailed, TypeOK
  <2>2. fails' = fails /\ dlqCount' = dlqCount /\ faults' = faults + 1
    BY <1>3 DEF StatementFails, Crash, dead
  <2>3. Cardinality(HalfFailed(d)')
            = IF w \in HalfFailed(d) THEN Cardinality(HalfFailed(d)) - 1
                                     ELSE Cardinality(HalfFailed(d))
    BY <1>n, <2>1, FS_RemoveElement
  <2> QED BY <1>n, <2>2, <2>3
<1>4. ASSUME NEW w \in Workers,
             \/ FetchDue(w) \/ Post(w) \/ PostPanics(w) \/ ContextExpired(w)
             \/ Mark(w) \/ Restart(w)
      PROVE  Quiet
  BY <1>0, <1>4 DEF FetchDue, Post, PostPanics, ContextExpired, Mark, Restart, EndItem, EndBatch,
                    HalfFailed, dead, bounds, TypeOK
<1>5. ASSUME NEW c \in Deliveries,
             Emit(c) \/ BackoffElapses(c) \/ RetryWebhookDelivery(c)
      PROVE  Quiet
  BY <1>5 DEF Emit, BackoffElapses, RetryWebhookDelivery, HalfFailed, dead, work, bounds
<1>6. ASSUME NEW e, RequeueEnqueue(e) \/ RequeueDelete(e) \/ DeleteDLQ(e)
      PROVE  Quiet
  BY <1>6 DEF RequeueEnqueue, RequeueDelete, DeleteDLQ, HalfFailed, dead, work, bounds
<1>7. CASE RequeueBulk
  <2>1. Quiet
    BY <1>7 DEF RequeueBulk, HalfFailed, work, bounds
  <2> QED BY <1>n, <2>1
<1>8. CASE UNCHANGED vars
  <2>1. Quiet
    BY <1>8 DEF HalfFailed, vars, dead, work, bounds
  <2> QED BY <1>n, <2>1
<1>9. ASSUME NEW w \in Workers, IdleTick(w) PROVE UNCHANGED vars
  BY <1>9 DEF IdleTick
<1> QED BY <1>n, <1>1, <1>2, <1>3, <1>4, <1>5, <1>6, <1>7, <1>8, <1>9
        DEF Next, WorkerStep

\* FailWebhookDelivery's two statements lose at most one dead letter for every
\* crash or failed statement, and none otherwise.
THEOREM DeadLettersAccounted == Spec => []DeadLetterDebt
<1>1. Init => DeadLetterDebt
  <2> SUFFICES ASSUME Init PROVE DeadLetterDebt
    OBVIOUS
  <2>1. ASSUME NEW d \in Deliveries
        PROVE  fails[d] = 0 /\ dlqCount[d] = 0 /\ faults = 0
    BY DEF Init
  <2> QED BY <2>1, HalfFailedFinite DEF DeadLetterDebt
<1> QED BY <1>1, InitRowInv, RowInvStep, DeadLetterDebtStep, PTL DEF Spec

----------------------------------------------------------------------------
(* One worker implements the contract. *)

LEMMA SoleInvStep ==
    ASSUME SoleWorker, RowInv, SoleInv, [Next]_vars
    PROVE  SoleInv'
<1>0. TypeOK /\ WorkerInv /\ CopiesBehind
  BY DEF RowInv
<1>1. ASSUME NEW w \in Workers, FetchDue(w) PROVE SoleInv'
  BY <1>0, <1>1 DEF FetchDue, DueRows, SoleInv, SoleWorker, Held, NotHeld, table, TypeOK
<1>2. ASSUME NEW w \in Workers, Mark(w) PROVE SoleInv'
  BY <1>0, <1>2 DEF Mark, MarkWebhookDelivery, EndItem, SoleInv, SoleWorker, Held, NotHeld,
                    TypeOK, WorkerInv
<1>3. ASSUME NEW w \in Workers, Fail(w) PROVE SoleInv'
  BY <1>0, <1>3 DEF Fail, FailUpdate, SoleInv, SoleWorker, Held, NotHeld, TypeOK, WorkerInv
<1>4. ASSUME NEW w \in Workers,
             \/ Post(w) \/ PostPanics(w) \/ ContextExpired(w) \/ DeadLetter(w)
             \/ StatementFails(w) \/ Crash(w) \/ Restart(w)
      PROVE  SoleInv'
  <2> USE <1>0 DEF SoleInv, SoleWorker, Held, NotHeld, table, TypeOK
  <2>1. CASE Post(w) \/ Restart(w)
    BY <2>1 DEF Post, Restart
  <2>2. CASE ContextExpired(w) \/ PostPanics(w) \/ Crash(w)
    BY <2>2 DEF ContextExpired, PostPanics, Crash, EndBatch
  <2>3. CASE DeadLetter(w)
    BY <2>3 DEF DeadLetter, EndItem, WorkerInv
  <2>4. CASE StatementFails(w)
    BY <2>4 DEF StatementFails, EndItem, WorkerInv
  <2> QED BY <1>4, <2>1, <2>2, <2>3, <2>4
<1>5. ASSUME NEW c \in Deliveries,
             Emit(c) \/ BackoffElapses(c) \/ RetryWebhookDelivery(c)
      PROVE  SoleInv'
  BY <1>0, <1>5 DEF Emit, EnqueueWebhook, BackoffElapses, RetryWebhookDelivery, SoleInv,
                    Held, Live, work, TypeOK
<1>6. ASSUME NEW e, RequeueEnqueue(e) \/ RequeueDelete(e) \/ DeleteDLQ(e)
      PROVE  SoleInv'
  BY <1>0, <1>6 DEF RequeueEnqueue, EnqueueWebhook, RequeueDelete, DeleteDLQ, SoleInv, Held,
                    Live, table, work, TypeOK
<1>7. CASE RequeueBulk
  BY <1>0, <1>7 DEF RequeueBulk, EnqueueWebhook, SoleInv, Held, Live, work, TypeOK
<1>8. CASE UNCHANGED vars
  BY <1>8 DEF SoleInv, Held, vars, table, work
<1>9. ASSUME NEW w \in Workers, IdleTick(w) PROVE UNCHANGED vars
  BY <1>9 DEF IdleTick
<1> QED BY <1>1, <1>2, <1>3, <1>4, <1>5, <1>6, <1>7, <1>8, <1>9 DEF Next, WorkerStep

\* The contract's view of the table.
View == [d \in Deliveries |-> RowState(d)]

\* A row's status decides its state in the contract.
LEMMA RowStates ==
    ASSUME TypeOK, NEW d \in Deliveries
    PROVE  /\ status[d] = "none" <=> RowState(d) = "none"
           /\ status[d] \in Live <=> RowState(d) = "queued"
           /\ status[d] = "delivered" <=> RowState(d) = "delivered"
           /\ status[d] = "failed" <=> RowState(d) = "dead"
  BY DEF TypeOK, Status, Live, RowState

LEMMA RowStatesPrime ==
    ASSUME TypeOK', NEW d \in Deliveries
    PROVE  /\ status'[d] = "none" <=> RowState(d)' = "none"
           /\ status'[d] \in Live <=> RowState(d)' = "queued"
           /\ status'[d] = "delivered" <=> RowState(d)' = "delivered"
           /\ status'[d] = "failed" <=> RowState(d)' = "dead"
  BY DEF TypeOK, Status, Live, RowState

\* A step that writes the status of one row only changes that row's state.
LEMMA OneRowChanges ==
    ASSUME TypeOK, NEW d \in Deliveries, NEW s, status' = [status EXCEPT ![d] = s]
    PROVE  View' = [View EXCEPT ![d] = RowState(d)']
<1>1. ASSUME NEW c \in Deliveries, c # d PROVE RowState(c)' = RowState(c)
  BY <1>1 DEF TypeOK, RowState
<1> QED BY <1>1 DEF View

LEMMA ContractInit == Init => Contract!Init
<1> SUFFICES ASSUME Init PROVE Contract!Init
  OBVIOUS
<1>1. \A d \in Deliveries : RowState(d) = "none"
  BY InitRowInv, RowStates DEF RowInv, Init
<1> QED BY <1>1 DEF Init, Contract!Init

LEMMA ContractStep ==
    ASSUME SoleWorker, RowInv, RowInv', SoleInv, [Next]_vars
    PROVE  [Contract!Next]_(Contract!vars)
<1> DEFINE Stutter == View' = View /\ attempts' = attempts
<1>0. TypeOK /\ TypeOK' /\ WorkerInv /\ DlqInv
  BY DEF RowInv
<1>s. ASSUME Stutter PROVE [Contract!Next]_(Contract!vars)
  BY <1>s DEF Contract!vars, View
<1>u. ASSUME UNCHANGED <<status, attempts>> PROVE [Contract!Next]_(Contract!vars)
  BY <1>u, <1>s DEF View, RowState
<1>1. ASSUME NEW w \in Workers, Mark(w) PROVE Contract!Next
  <2>1. PICK d \in Deliveries \ Malformed :
            d = cur[w] /\ status[d] \in Live /\ batch[w][d] = attempts[d]
    BY <1>0, <1>1 DEF Mark, WorkerInv, SoleInv
  <2>2. CASE ok[w]
    <3>1. status' = [status EXCEPT ![d] = "delivered"] /\ attempts' = attempts
      BY <1>1, <2>1, <2>2 DEF Mark, MarkWebhookDelivery
    <3>2. View[d] = "queued" /\ RowState(d)' = "delivered"
      BY <1>0, <2>1, <3>1, RowStates, RowStatesPrime DEF TypeOK, View
    <3>3. View' = [View EXCEPT ![d] = "delivered"]
      BY <1>0, <2>1, <3>1, <3>2, OneRowChanges
    <3>4. Contract!Deliver(d)
      BY <3>1, <3>2, <3>3 DEF Contract!Deliver, View
    <3> QED BY <2>1, <3>4 DEF Contract!Next, Contract!Try
  <2>3. CASE ~ok[w]
    <3>1. /\ status' = [status EXCEPT ![d] = "retry"]
          /\ attempts' = [attempts EXCEPT ![d] = @ + 1]
      BY <1>1, <2>1, <2>3 DEF Mark, MarkWebhookDelivery
    <3>2. View[d] = "queued" /\ RowState(d)' = "queued"
      BY <1>0, <2>1, <3>1, RowStates, RowStatesPrime DEF TypeOK, View, Live
    <3>3. View' = View
      <4>1. View' = [View EXCEPT ![d] = RowState(d)']
        BY <1>0, <2>1, <3>1, OneRowChanges
      <4> QED BY <3>2, <4>1 DEF View
    <3>4. attempts[d] + 1 < MaxAttempts
      BY <1>0, <1>1, <2>1, <2>3, ConstantsAssumption DEF Mark, Exhausted, TypeOK
    <3>5. Contract!TryFails(d)
      BY <3>1, <3>2, <3>3, <3>4 DEF Contract!TryFails, View
    <3> QED BY <2>1, <3>5 DEF Contract!Next, Contract!Try
  <2> QED BY <2>2, <2>3
<1>2. ASSUME NEW w \in Workers, Fail(w) PROVE Contract!Next
  <2>1. PICK d \in Deliveries \ Malformed :
            d = cur[w] /\ status[d] \in Live /\ batch[w][d] = attempts[d]
    BY <1>0, <1>2 DEF Fail, WorkerInv, SoleInv
  <2>2. status' = [status EXCEPT ![d] = "failed"] /\ attempts' = attempts
    BY <1>2, <2>1 DEF Fail, FailUpdate
  <2>3. View[d] = "queued" /\ RowState(d)' = "dead"
    BY <1>0, <2>1, <2>2, RowStates, RowStatesPrime DEF TypeOK, View
  <2>4. View' = [View EXCEPT ![d] = "dead"]
    BY <1>0, <2>1, <2>2, <2>3, OneRowChanges
  <2>5. Contract!GiveUp(d)
    BY <1>2, <2>1, <2>2, <2>3, <2>4 DEF Contract!GiveUp, View, Fail, Exhausted
  <2> QED BY <2>1, <2>5 DEF Contract!Next, Contract!Try
<1>3. ASSUME NEW d \in Deliveries, Emit(d) PROVE Contract!Next
  <2>1. status' = [status EXCEPT ![d] = "pending"] /\ attempts' = attempts
    BY <1>0, <1>3 DEF Emit, EnqueueWebhook, TypeOK
  <2>2. View[d] = "none" /\ RowState(d)' = "queued"
    BY <1>0, <1>3, <2>1, RowStates, RowStatesPrime DEF Emit, TypeOK, View, Live
  <2>3. View' = [View EXCEPT ![d] = "queued"]
    BY <1>0, <2>1, <2>2, OneRowChanges
  <2>4. Contract!Accept(d)
    BY <2>1, <2>2, <2>3 DEF Contract!Accept, View
  <2> QED BY <2>4 DEF Contract!Next
<1>4. ASSUME NEW d \in Deliveries, RetryWebhookDelivery(d)
      PROVE  [Contract!Next]_(Contract!vars)
  <2>1. status' = [status EXCEPT ![d] = "pending"] /\ attempts' = attempts
    BY <1>4 DEF RetryWebhookDelivery
  <2>2. RowState(d)' = "queued" /\ View[d] = RowState(d)
    BY <1>0, <2>1, RowStatesPrime DEF TypeOK, View, Live
  <2>3. View' = [View EXCEPT ![d] = "queued"]
    BY <1>0, <2>1, <2>2, OneRowChanges
  <2>4. CASE status[d] \in Live
    <3>1. View' = View
      BY <1>0, <2>2, <2>3, <2>4, RowStates DEF View
    <3> QED BY <2>1, <3>1, <1>s
  <2>5. CASE status[d] \notin Live
    <3>1. View[d] \in {"delivered", "dead"}
      BY <1>0, <1>4, <2>2, <2>5, RowStates DEF RetryWebhookDelivery, TypeOK, Status, Live
    <3>2. Contract!Revive(d)
      BY <2>1, <2>3, <3>1 DEF Contract!Revive, View
    <3> QED BY <3>2 DEF Contract!Next
  <2> QED BY <2>4, <2>5
<1>5. ASSUME NEW e \in dlq \union requeuing, RequeueEnqueue(e)
      PROVE  UNCHANGED <<status, attempts>>
  BY <1>0, <1>5 DEF RequeueEnqueue, EnqueueWebhook, DlqInv, TypeOK
<1>6. CASE RequeueBulk
  <2>1. UNCHANGED <<status, attempts>>
    \* ON CONFLICT DO NOTHING: a row with a dead letter exists.
    BY <1>0, <1>6 DEF RequeueBulk, EnqueueWebhook, DlqInv, TypeOK
  <2> QED BY <2>1, <1>u
<1>7. ASSUME NEW w \in Workers,
             \/ FetchDue(w) \/ Post(w) \/ PostPanics(w) \/ ContextExpired(w)
             \/ DeadLetter(w) \/ StatementFails(w) \/ Crash(w) \/ Restart(w)
             \/ IdleTick(w)
      PROVE  UNCHANGED <<status, attempts>>
  BY <1>7 DEF FetchDue, Post, PostPanics, ContextExpired, DeadLetter, StatementFails, Crash, Restart,
              IdleTick, vars, table
<1>8. ASSUME NEW d \in Deliveries, BackoffElapses(d) PROVE UNCHANGED <<status, attempts>>
  BY <1>8 DEF BackoffElapses
<1>9. ASSUME NEW e, RequeueDelete(e) \/ DeleteDLQ(e) PROVE UNCHANGED <<status, attempts>>
  BY <1>9 DEF RequeueDelete, DeleteDLQ, table
<1>10. CASE UNCHANGED vars
  BY <1>10, <1>u DEF vars, table
<1> QED BY <1>1, <1>2, <1>3, <1>4, <1>5, <1>6, <1>7, <1>8, <1>9, <1>10, <1>u
        DEF Next, WorkerStep

\* A single API process keeps the delivery contract, for any number of rows, any
\* batch size, and through every crash, failed statement, expired context and
\* administrator action: its steps are the contract's steps or invisible to it.
THEOREM SoleWorkerKeepsContract == SoleWorker => (Spec => Contract!Spec)
<1> SUFFICES ASSUME SoleWorker PROVE Spec => Contract!Spec
  OBVIOUS
<1>1. Init => SoleInv
  BY DEF Init, SoleInv, Held
<1>2. RowInv /\ SoleInv /\ [Next]_vars => SoleInv'
  BY SoleInvStep
<1>3. RowInv /\ RowInv' /\ SoleInv /\ [Next]_vars => [Contract!Next]_(Contract!vars)
  BY ContractStep
<1> QED BY <1>1, <1>2, <1>3, InitRowInv, RowInvStep, ContractInit, PTL
        DEF Spec, Contract!Spec

=============================================================================

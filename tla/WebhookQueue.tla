---------------------------- MODULE WebhookQueue ----------------------------
(***************************************************************************)
(* The webhook delivery queue over PostgreSQL: the webhook_deliveries and  *)
(* webhook_dlq tables, the delivery workers (one goroutine in every API    *)
(* process that shares the database) and the administrator's operations.   *)
(*                                                                         *)
(* A worker reads the due rows without locking them, POSTs each one, and   *)
(* then writes the outcome from the copy it read.  Other workers, the      *)
(* administrator, a crash or a failed statement may come in between.       *)
(*                                                                         *)
(* A member of Deliveries stands for one (tenant, event_type, url,         *)
(* dedup_key): the unique index ux_wd_dedup allows one row for each.       *)
(***************************************************************************)
EXTENDS Integers, FiniteSets

CONSTANTS
    Workers,      \* the API processes' delivery goroutines
    Deliveries,   \* the possible rows of webhook_deliveries
    Malformed,    \* those whose url no request can be made for: nothing checks
                  \* the url of a subscription when it is created
    MaxAttempts,  \* Worker.MaxAttempts (WEBHOOK_MAX_ATTEMPTS, 10 by default)
    FetchLimit,   \* rows read by one tick (50)
    BatchBudget,  \* slow POSTs after which the batch's context has expired (10 s / 5 s)
    MaxRetries,   \* bound: calls of the administrator's retry
    MaxFaults,    \* bound: crashes and failed statements
    NoItem        \* a worker between two items

\* NewWorker accepts only positive MaxAttempts; the client times out after 5 s
\* of a 10 s context, so one slow POST alone never uses the context up.
ASSUME ConstantsAssumption ==
    /\ IsFiniteSet(Workers) /\ Workers # {}
    /\ IsFiniteSet(Deliveries) /\ Malformed \subseteq Deliveries
    /\ MaxAttempts \in Nat \ {0}
    /\ FetchLimit \in Nat \ {0}
    /\ BatchBudget \in Nat \ {0, 1}
    /\ MaxRetries \in Nat
    /\ MaxFaults \in Nat
    /\ NoItem \notin Deliveries

VARIABLES
    status,     \* webhook_deliveries.status, "none" while there is no row
    attempts,   \* webhook_deliveries.attempts
    due,        \* the rows with next_attempt_at <= now()
    dlq,        \* webhook_dlq: <<row, n>> is the row's n-th dead letter
    dlqCount,   \* dead letters ever inserted, for fresh ids
    pc,         \* where each worker is in processOnce
    cur,        \* the item it is working on
    ok,         \* whether that item's POST got a 2xx answer
    batch,      \* batch[w][d]: the Attempts of item d as w read it, or NotHeld
    budget,     \* what is left of the batch's context
    requeuing,  \* dead letters whose requeue has enqueued but not yet deleted
    acked,      \* history: rows whose endpoint answered 2xx
    fails,      \* history: times the row was set to failed
    retries,    \* administrator retries so far
    faults      \* crashes and failed statements so far

table  == <<status, attempts, due>>
dead   == <<dlq, dlqCount>>
work   == <<pc, cur, ok, batch, budget>>
bounds == <<retries, faults>>
vars   == <<table, dead, work, requeuing, acked, fails, bounds>>

NotHeld == -1
Live    == {"pending", "retry"}
Status  == {"none", "pending", "retry", "delivered", "failed"}

Held(w, d) == batch[w][d] # NotHeld

TypeOK ==
    /\ status \in [Deliveries -> Status]
    /\ attempts \in [Deliveries -> Nat]
    /\ due \subseteq Deliveries
    /\ dlq \subseteq Deliveries \X Nat
    /\ dlqCount \in [Deliveries -> Nat]
    /\ pc \in [Workers -> {"idle", "post", "mark", "dlq", "down"}]
    /\ cur \in [Workers -> Deliveries \union {NoItem}]
    /\ ok \in [Workers -> BOOLEAN]
    /\ batch \in [Workers -> [Deliveries -> Nat \union {NotHeld}]]
    /\ budget \in [Workers -> Nat]
    /\ requeuing \subseteq Deliveries \X Nat
    /\ acked \subseteq Deliveries
    /\ fails \in [Deliveries -> Nat]
    /\ retries \in Nat
    /\ faults \in Nat

Init ==
    /\ status = [d \in Deliveries |-> "none"]
    /\ attempts = [d \in Deliveries |-> 0]
    /\ due = {}
    /\ dlq = {}
    /\ dlqCount = [d \in Deliveries |-> 0]
    /\ pc = [w \in Workers |-> "idle"]
    /\ cur = [w \in Workers |-> NoItem]
    /\ ok = [w \in Workers |-> FALSE]
    /\ batch = [w \in Workers |-> [d \in Deliveries |-> NotHeld]]
    /\ budget = [w \in Workers |-> 0]
    /\ requeuing = {}
    /\ acked = {}
    /\ fails = [d \in Deliveries |-> 0]
    /\ retries = 0
    /\ faults = 0

----------------------------------------------------------------------------
(* The store's statements on webhook_deliveries. *)

\* INSERT ... ON CONFLICT (tenant_id, event_type, url, dedup_key) DO NOTHING:
\* only rows that do not exist yet are inserted.
EnqueueWebhook(D) ==
    LET new == {d \in D : status[d] = "none"} IN
    /\ status' = [d \in Deliveries |-> IF d \in new THEN "pending" ELSE status[d]]
    /\ due' = due \union new
    /\ UNCHANGED attempts

\* Mutant: a status outside the enumeration the API documents.
MarkMutantStatus(d, success) ==
    /\ status' = [status EXCEPT ![d] = IF success THEN "delivered" ELSE "error"]
    /\ attempts' = [attempts EXCEPT ![d] = IF success THEN @ ELSE @ + 1]
    /\ due' = IF success THEN due ELSE due \ {d}

\* MarkWebhookDelivery: a failed POST is counted in the row and backed off; a
\* successful one is not counted.  The row's present status is not looked at.
MarkWebhookDelivery(d, success) ==
    IF success
    THEN /\ status' = [status EXCEPT ![d] = "delivered"]
         /\ UNCHANGED <<attempts, due>>
    ELSE /\ status' = [status EXCEPT ![d] = "retry"]
         /\ attempts' = [attempts EXCEPT ![d] = @ + 1]
         /\ due' = due \ {d}

\* FailWebhookDelivery, first statement.
FailUpdate(d) ==
    /\ status' = [status EXCEPT ![d] = "failed"]
    /\ UNCHANGED <<attempts, due>>

\* FailWebhookDelivery, second statement.
DlqInsert(d) ==
    /\ dlq' = dlq \union {<<d, dlqCount[d] + 1>>}
    /\ dlqCount' = [dlqCount EXCEPT ![d] = @ + 1]

\* Mutant: rows waiting for a second attempt are not selected.
DueMutantPendingOnly == {d \in due : status[d] = "pending"}

\* Mutant: the status is not part of the WHERE clause.
DueMutantAnyStatus == {d \in due : status[d] # "none"}

\* WHERE status IN ('pending','retry') AND next_attempt_at <= now()
DueRows == {d \in due : status[d] \in Live}

----------------------------------------------------------------------------
(* A worker: processOnce, one tick of the 1 s ticker. *)

\* SELECT ... WHERE status IN ('pending','retry') AND next_attempt_at <= now()
\* LIMIT: the rows are copied, neither locked nor claimed.  Which rows come first
\* depends on timestamps the model does not keep, so any choice is allowed.
FetchDue(w) ==
    /\ pc[w] = "idle"
    /\ \E D \in SUBSET DueRows :
        /\ D # {}
        /\ \/ Cardinality(D) = FetchLimit
           \/ D = DueRows /\ Cardinality(D) < FetchLimit
        /\ batch' = [batch EXCEPT ![w] =
                [d \in Deliveries |-> IF d \in D THEN attempts[d] ELSE NotHeld]]
    /\ pc' = [pc EXCEPT ![w] = "post"]
    /\ budget' = [budget EXCEPT ![w] = BatchBudget]
    /\ UNCHANGED <<table, dead, cur, ok, requeuing, acked, fails, bounds>>

\* err != nil || len(items) == 0: the tick does nothing.
IdleTick(w) ==
    /\ pc[w] = "idle" /\ DueRows = {}
    /\ UNCHANGED vars

\* w.HTTP.Do: a 2xx answer or any failure, fast or slow; a slow call uses up a
\* part of the context the whole batch shares.
Post(w) ==
    /\ pc[w] = "post"
    /\ \E d \in Deliveries \ Malformed, success, slow \in BOOLEAN :
        /\ Held(w, d)
        /\ cur' = [cur EXCEPT ![w] = d]
        /\ ok' = [ok EXCEPT ![w] = success]
        /\ acked' = IF success THEN acked \union {d} ELSE acked
        /\ budget' = [budget EXCEPT ![w] = IF slow THEN @ - 1 ELSE @]
    /\ pc' = [pc EXCEPT ![w] = "mark"]
    /\ UNCHANGED <<table, dead, batch, requeuing, fails, bounds>>

Alone(w) == \A d \in Deliveries \ {cur[w]} : ~Held(w, d)

\* The loop goes on to the next item, or processOnce returns.
EndItem(w) ==
    /\ pc' = [pc EXCEPT ![w] = IF Alone(w) THEN "idle" ELSE "post"]
    /\ cur' = [cur EXCEPT ![w] = NoItem]
    /\ ok' = [ok EXCEPT ![w] = FALSE]
    /\ batch' = [batch EXCEPT ![w][cur[w]] = NotHeld]
    /\ budget' = [budget EXCEPT ![w] = IF Alone(w) THEN 0 ELSE @]

\* processOnce ends here with nothing more to do for its remaining items.
EndBatch(w, where) ==
    /\ pc' = [pc EXCEPT ![w] = where]
    /\ cur' = [cur EXCEPT ![w] = NoItem]
    /\ ok' = [ok EXCEPT ![w] = FALSE]
    /\ batch' = [batch EXCEPT ![w] = [d \in Deliveries |-> NotHeld]]
    /\ budget' = [budget EXCEPT ![w] = 0]

HoldsMalformed(w) == \E d \in Malformed : Held(w, d)

\* The error of NewRequestWithContext is discarded: for a malformed url the request
\* is nil, and setting its header panics in a goroutine that recovers nothing.  The
\* process dies before the row is touched, so the row is due again after the restart.
PostPanics(w) ==
    /\ pc[w] = "post" /\ HoldsMalformed(w)
    /\ EndBatch(w, "down")
    /\ UNCHANGED <<table, dead, requeuing, acked, fails, bounds>>

\* Mutant: > for >=.
ExhaustedMutantOffByOne(w) == ~ok[w] /\ batch[w][cur[w]] + 1 > MaxAttempts

\* !success && it.Attempts+1 >= w.MaxAttempts, from the copy of the row.
Exhausted(w) == ~ok[w] /\ batch[w][cur[w]] + 1 >= MaxAttempts

\* The context has expired: this item's write fails, the error is ignored, and
\* every later item fails in the same way before anything is sent, but for one that
\* no request can be made for, which panics as ever.
ContextExpired(w) ==
    /\ pc[w] = "mark" /\ budget[w] = 0
    /\ EndBatch(w, IF HoldsMalformed(w) THEN "down" ELSE "idle")
    /\ UNCHANGED <<table, dead, requeuing, acked, fails, bounds>>

\* Mutant: the outcome of the POST is not passed on.
MarkMutantAlwaysSuccess(w) ==
    /\ pc[w] = "mark" /\ budget[w] > 0 /\ ~Exhausted(w)
    /\ MarkWebhookDelivery(cur[w], TRUE)
    /\ EndItem(w)
    /\ UNCHANGED <<dead, requeuing, acked, fails, bounds>>

\* MarkWebhookDelivery with the context still alive.
Mark(w) ==
    /\ pc[w] = "mark" /\ budget[w] > 0 /\ ~Exhausted(w)
    /\ MarkWebhookDelivery(cur[w], ok[w])
    /\ EndItem(w)
    /\ UNCHANGED <<dead, requeuing, acked, fails, bounds>>

\* FailWebhookDelivery: the row is set to failed, the dead letter is still to come.
Fail(w) ==
    /\ pc[w] = "mark" /\ budget[w] > 0 /\ Exhausted(w)
    /\ FailUpdate(cur[w])
    /\ fails' = [fails EXCEPT ![cur[w]] = @ + 1]
    /\ pc' = [pc EXCEPT ![w] = "dlq"]
    /\ UNCHANGED <<dead, cur, ok, batch, budget, requeuing, acked, bounds>>

\* Mutant: only a row that is still failed is moved to the dead letters.
DeadLetterMutantIfFailed(w) ==
    /\ pc[w] = "dlq"
    /\ IF status[cur[w]] = "failed" THEN DlqInsert(cur[w]) ELSE UNCHANGED dead
    /\ EndItem(w)
    /\ UNCHANGED <<table, requeuing, acked, fails, bounds>>

\* FailWebhookDelivery, continued: INSERT INTO webhook_dlq.
DeadLetter(w) ==
    /\ pc[w] = "dlq"
    /\ DlqInsert(cur[w])
    /\ EndItem(w)
    /\ UNCHANGED <<table, requeuing, acked, fails, bounds>>

\* A statement of Mark or Fail returns an error, which the worker ignores.
StatementFails(w) ==
    /\ faults < MaxFaults
    /\ pc[w] \in {"mark", "dlq"} /\ budget[w] > 0
    /\ EndItem(w)
    /\ faults' = faults + 1
    /\ UNCHANGED <<table, dead, requeuing, acked, fails, retries>>

\* The process dies with its batch in memory.
Crash(w) ==
    /\ faults < MaxFaults
    /\ pc[w] # "down"
    /\ EndBatch(w, "down")
    /\ faults' = faults + 1
    /\ UNCHANGED <<table, dead, requeuing, acked, fails, retries>>

Restart(w) ==
    /\ pc[w] = "down"
    /\ pc' = [pc EXCEPT ![w] = "idle"]
    /\ UNCHANGED <<table, dead, cur, ok, batch, budget, requeuing, acked, fails, bounds>>

----------------------------------------------------------------------------
(* Producers, time and the administrator. *)

\* Publisher.Emit and Postgres.emitEvent enqueue one row per subscription.
Emit(d) ==
    /\ status[d] = "none"
    /\ EnqueueWebhook({d})
    /\ UNCHANGED <<dead, work, requeuing, acked, fails, bounds>>

\* now() passes next_attempt_at = time of the POST + nextBackoff(attempts).
BackoffElapses(d) ==
    /\ status[d] \in Live /\ d \notin due
    /\ due' = due \union {d}
    /\ UNCHANGED <<status, attempts, dead, work, requeuing, acked, fails, bounds>>

\* Mutant: a retry starts counting from zero.
RetryMutantResets(d) ==
    /\ retries < MaxRetries
    /\ status[d] # "none"
    /\ status' = [status EXCEPT ![d] = "pending"]
    /\ attempts' = [attempts EXCEPT ![d] = 0]
    /\ due' = due \union {d}
    /\ retries' = retries + 1
    /\ UNCHANGED <<dead, work, requeuing, acked, fails, faults>>

\* RetryWebhookDelivery: any row, whatever its status; attempts are kept.
RetryWebhookDelivery(d) ==
    /\ retries < MaxRetries
    /\ status[d] # "none"
    /\ status' = [status EXCEPT ![d] = "pending"]
    /\ due' = due \union {d}
    /\ retries' = retries + 1
    /\ UNCHANGED <<attempts, dead, work, requeuing, acked, fails, faults>>

\* RequeueWebhookDLQ reads the dead letter and enqueues its payload ...
RequeueEnqueue(e) ==
    /\ e \in dlq \ requeuing
    /\ EnqueueWebhook({e[1]})
    /\ requeuing' = requeuing \union {e}
    /\ UNCHANGED <<dead, work, acked, fails, bounds>>

\* ... and then deletes the dead letter, if it is still there.
RequeueDelete(e) ==
    /\ e \in requeuing
    /\ dlq' = dlq \ {e}
    /\ requeuing' = requeuing \ {e}
    /\ UNCHANGED <<table, dlqCount, work, acked, fails, bounds>>

\* RequeueWebhookDLQBulk: the same for several ids, the deletes in a transaction.
RequeueBulk ==
    \E E \in SUBSET dlq :
        /\ E # {}
        /\ EnqueueWebhook({e[1] : e \in E})
        /\ dlq' = dlq \ E
        /\ UNCHANGED <<dlqCount, work, requeuing, acked, fails, bounds>>

\* DeleteWebhookDLQBulk, for one dead letter.
DeleteDLQ(e) ==
    /\ e \in dlq
    /\ dlq' = dlq \ {e}
    /\ UNCHANGED <<table, dlqCount, work, requeuing, acked, fails, bounds>>

WorkerStep(w) == FetchDue(w) \/ Post(w) \/ PostPanics(w) \/ ContextExpired(w)
                    \/ Mark(w) \/ Fail(w) \/ DeadLetter(w)

Next ==
    \/ \E w \in Workers : WorkerStep(w) \/ IdleTick(w) \/ StatementFails(w) \/ Crash(w) \/ Restart(w)
    \/ \E d \in Deliveries : Emit(d) \/ BackoffElapses(d) \/ RetryWebhookDelivery(d)
    \/ \E e \in dlq \union requeuing : RequeueEnqueue(e) \/ RequeueDelete(e) \/ DeleteDLQ(e)
    \/ RequeueBulk

Spec == Init /\ [][Next]_vars

\* The ticker goroutine runs again every second and every call it makes has a
\* timeout; clocks advance; a dead process is restarted.  Nobody makes the
\* administrator act, and nothing is assumed of the endpoints.
FairSpec ==
    /\ Spec
    /\ \A w \in Workers : WF_vars(WorkerStep(w)) /\ WF_vars(Restart(w))
    /\ \A d \in Deliveries : WF_vars(BackoffElapses(d))

----------------------------------------------------------------------------
(* Properties *)

\* A row of webhook_deliveries, seen as the contract sees a delivery.
RowState(d) ==
    CASE status[d] = "none"      -> "none"
      [] status[d] \in Live      -> "queued"
      [] status[d] = "delivered" -> "delivered"
      [] status[d] = "failed"    -> "dead"

Contract == INSTANCE DeliveryContract
    WITH state <- [d \in Deliveries |-> RowState(d)], tries <- attempts,
         Unsendable <- Malformed

\* With one worker, the queue implements the contract through crashes, failed
\* statements, expired batches and administrator retries of rows in flight: the
\* copy the worker holds is never so stale that it undoes a settled delivery.  A
\* malformed url stops the queue as the contract says, and loses or settles nothing.
ImplementsContract == Contract!FairSpec

\* attempts=attempts+1 is applied to the row as it is now, while the decision to
\* stop is taken on the copy read earlier: every further worker may overshoot
\* MaxAttempts by one, and no more.
AttemptsBounded ==
    \A d \in Deliveries : attempts[d] <= MaxAttempts + Cardinality(Workers) - 2

\* No row is given up early: when it is failed, or has a dead letter, at least
\* MaxAttempts - 1 failed POSTs were counted before the one that gave it up,
\* however stale the copy the deciding worker used.
GivenUpOnlyWhenExhausted ==
    \A d \in Deliveries :
        status[d] = "failed" \/ (\E e \in dlq : e[1] = d)
            => attempts[d] >= MaxAttempts - 1

\* status='delivered' is only ever written for a row whose endpoint has answered
\* 2xx, also when several workers write their outcomes over each other.
DeliveredWasAcked ==
    \A d \in Deliveries : status[d] = "delivered" => d \in acked

HalfFailed(d) == {w \in Workers : pc[w] = "dlq" /\ cur[w] = d}

\* The two statements of FailWebhookDelivery are no transaction: a dead letter is
\* missing only while a worker is between them, or for a crash or an error there,
\* and each such fault costs at most one dead letter.
DeadLetterDebt ==
    \A d \in Deliveries :
        fails[d] <= dlqCount[d] + Cardinality(HalfFailed(d)) + faults

Settled(d) == status[d] \in {"delivered", "failed"}

\* A malformed url is in the queue, where it brings down every worker that comes
\* to it.
Wedged == \E d \in Malformed : status[d] \in Live

\* Whatever the endpoints answer, however slow they are, every enqueued webhook is
\* eventually delivered or given up: the first item of a batch is always within
\* the context, so every batch makes progress.  Only a malformed url in the queue
\* can hold it up, and that one may hold up all the others.
EventuallySettled == \A d \in Deliveries : status[d] \in Live ~> Settled(d) \/ Wedged

\* Requeueing a dead letter puts the webhook back into the queue: when the call
\* has deleted the dead letter, the row is no longer failed.
RequeueRevives ==
    [][\A e \in requeuing : e \notin requeuing' => status'[e[1]] # "failed"]_vars

----------------------------------------------------------------------------
(* The inductive invariant behind the safety properties. *)

\* What a worker's control state says of the rest of its state.
WorkerInv ==
    \A w \in Workers :
        /\ pc[w] \in {"idle", "down"} => \A d \in Deliveries : ~Held(w, d)
        /\ pc[w] \in {"mark", "dlq"} => cur[w] \in Deliveries \ Malformed /\ Held(w, cur[w])
        /\ pc[w] \in {"post", "dlq"} => budget[w] > 0
        /\ pc[w] = "mark" /\ ok[w] => cur[w] \in acked
        /\ pc[w] = "dlq" => batch[w][cur[w]] + 1 >= MaxAttempts

\* A copied row exists and its count can only have grown since.
CopiesBehind ==
    \A w \in Workers, d \in Deliveries :
        Held(w, d) => batch[w][d] <= attempts[d] /\ status[d] # "none"

\* The workers that may still count a failed attempt of d.
Counting(d) == {w \in Workers : Held(w, d) /\ batch[w][d] + 1 < MaxAttempts}

\* Each of them may add one to the row's count.
CountInv ==
    \A d \in Deliveries :
        attempts[d] + Cardinality(Counting(d)) <= MaxAttempts + Cardinality(Workers) - 2

\* Dead letters belong to existing rows.
DlqInv == \A e \in dlq : status[e[1]] # "none"

SafetyInv ==
    /\ TypeOK
    /\ WorkerInv
    /\ CopiesBehind
    /\ CountInv
    /\ DlqInv
    /\ GivenUpOnlyWhenExhausted
    /\ DeliveredWasAcked

\* With one worker nobody else moves a row it holds, except back to pending.
SoleWorker == \A v, w \in Workers : v = w

SoleInv ==
    \A w \in Workers, d \in Deliveries :
        Held(w, d) /\ ~(pc[w] = "dlq" /\ cur[w] = d)
            => status[d] \in Live /\ batch[w][d] = attempts[d]

=============================================================================

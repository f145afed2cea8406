------------------------ MODULE StageSchedulerProofs ------------------------
(***************************************************************************)
(* Proofs that the lease protocol of StageScheduler keeps its invariants   *)
(* for every set of workers, tasks and stages.                             *)
(***************************************************************************)
EXTENDS StageScheduler, FiniteSetTheorems, TLAPS

(* The backoff of a stage within its attempts is a number of seconds: what *)
(* _fail_or_retry_stage adds to the clock.                                 *)
LEMMA RetryDelayType ==
  ASSUME NEW s \in Stages, NEW a \in Nat, a <= MaximumAttempts[s]
  PROVE  RetryDelay(a) \in Nat
<1> DEFINE e == IF a > 0 THEN a - 1 ELSE 0
<1>1. e \in 0..MaximumAttempts[s]
  BY AttemptsAssumption
<1>2. Multiplier^e \in Nat
  BY <1>1, DelayAssumption
<1>3. InitialDelay * Multiplier^e \in Nat
  <2> HIDE DEF e
  <2> DEFINE p == Multiplier^e
  <2>1. p \in Nat
    BY <1>2
  <2> HIDE DEF p
  <2>2. InitialDelay * p \in Nat
    BY <2>1, DelayAssumption
  <2> QED BY <2>2 DEF p
<1> DEFINE delay == InitialDelay * Multiplier^e
<1>4. RetryDelay(a) = IF delay < MaximumDelay THEN delay ELSE MaximumDelay
  BY DEF RetryDelay
<1> QED
  <2>1. delay \in Nat
    BY <1>3
  <2> HIDE DEF delay
  <2> QED BY <1>4, <2>1, DelayAssumption

-----------------------------------------------------------------------------
(* What the invariants say of one stage row r, the row of stage s, when    *)
(* iss are the tokens issued for s.                                        *)
RowInv(s, r, iss) ==
  /\ r \in StageRecords
  /\ Active(r) <=> r.token # NoToken
  /\ Active(r) =>
       r.token = Len(iss) /\ r.worker = iss[Len(iss)] /\ r.expires # NoTime
  /\ r.attempt <= MaximumAttempts[s]
  /\ r.status = "pending" => r.attempt < MaximumAttempts[s]
  /\ r.status \notin OpenStatuses => r.completed
  /\ r.error <=> r.status = "failed"
  /\ r.result => r.status = "succeeded"
  /\ r.status = "running" => r.started
  /\ r.completion.device # NoDevice => r.completion.worker # NoWorker

(* The groups of statuses the handlers test are statuses of a stage. *)
LEMMA StatusTypes ==
  /\ OpenStatuses \subseteq StageStatuses /\ DoneStatuses \subseteq StageStatuses
  /\ {"failed", "cancelled"} \subseteq StageStatuses
  /\ ActiveStatuses \subseteq OpenStatuses
BY DEF OpenStatuses, DoneStatuses, ActiveStatuses, StageStatuses, TaskStatuses

(* The values that stand for NULL columns have the columns' types. *)
LEMMA NullTypes ==
  /\ NoCompletion \in Completions /\ NoToken \in Nat /\ NoTime \in Nat
  /\ NoWorker \in Workers \cup {NoWorker} /\ NoDevice \in Devices \cup {NoDevice}
BY DEF NoCompletion, Completions, NoToken, NoTime, Requests

(* The type of a row's fields. *)
LEMMA RowFields ==
  ASSUME NEW r \in StageRecords
  PROVE  /\ r.status \in StageStatuses /\ r.attempt \in Nat
         /\ r.worker \in Workers \cup {NoWorker}
         /\ r.device \in Devices \cup {NoDevice}
         /\ r.token \in Nat /\ r.expires \in Nat /\ r.available_at \in Nat
         /\ r.completion \in Completions
         /\ r.started \in BOOLEAN /\ r.completed \in BOOLEAN
         /\ r.error \in BOOLEAN /\ r.result \in BOOLEAN
BY DEF StageRecords

(* _clear_lease empties the four lease columns and keeps the others. *)
LEMMA Cleared ==
  ASSUME NEW r \in StageRecords
  PROVE  /\ ClearLease(r) \in StageRecords
         /\ ClearLease(r).token = NoToken
         /\ ClearLease(r).status = r.status
         /\ ClearLease(r).attempt = r.attempt
         /\ ClearLease(r).completion = r.completion
         /\ ClearLease(r).started = r.started
         /\ ClearLease(r).completed = r.completed
         /\ ClearLease(r).error = r.error
         /\ ClearLease(r).result = r.result
<1>1. ClearLease(r) \in StageRecords
  BY NullTypes DEF ClearLease, StageRecords
<1> QED BY <1>1 DEF ClearLease, StageRecords

(* A lease given to w under the next token keeps the row sound. *)
LEMMA RowLeased ==
  ASSUME NEW s \in Stages, NEW r \in StageRecords, NEW iss \in Seq(Workers),
         RowInv(s, r, iss), r.status = "pending",
         NEW w \in Workers, NEW d \in Devices, now \in Nat
  PROVE  /\ RowInv(s, LeasedStage(r, w, d, Len(iss) + 1), Append(iss, w))
         /\ LeasedStage(r, w, d, Len(iss) + 1).status = "leased"
<1> DEFINE k == Len(iss) + 1
<1> DEFINE q == LeasedStage(r, w, d, k)
<1>1. q \in StageRecords
  <2>1. /\ r.attempt + 1 \in Nat /\ now + LeaseDuration \in Nat
        /\ "leased" \in StageStatuses /\ k \in Nat
    BY LeaseAssumption, RowFields DEF StageStatuses, TaskStatuses
  <2> HIDE DEF k
  <2> QED BY <2>1, NullTypes DEF LeasedStage, StageRecords
<1>2. q.status = "leased" /\ q.token = Len(iss) + 1 /\ q.worker = w
      /\ q.attempt = r.attempt + 1 /\ q.error = r.error /\ q.result = r.result
      /\ q.expires = now + LeaseDuration /\ q.completion = NoCompletion
  BY DEF LeasedStage, StageRecords
<1>3. Len(Append(iss, w)) = Len(iss) + 1 /\ Append(iss, w)[Len(iss) + 1] = w
  OBVIOUS
<1> HIDE DEF q
<1>4. /\ Active(q) /\ q.token # NoToken /\ q.expires # NoTime
      /\ q.attempt <= MaximumAttempts[s] /\ ~q.error /\ ~q.result
      /\ q.completion.device = NoDevice
  BY <1>2, LeaseAssumption, AttemptsAssumption, RowFields
     DEF Active, ActiveStatuses, NoToken, NoTime, RowInv, NoCompletion
<1>5. RowInv(s, q, Append(iss, w))
  BY <1>1, <1>2, <1>3, <1>4 DEF RowInv, OpenStatuses
<1> QED BY <1>2, <1>5 DEF q

(* renew moves the expiry of an active lease and nothing else. *)
LEMMA RowRenewed ==
  ASSUME NEW s \in Stages, NEW r \in StageRecords, NEW iss \in Seq(Workers),
         RowInv(s, r, iss), Active(r), NEW e \in Nat, e # NoTime
  PROVE  /\ RowInv(s, [r EXCEPT !.expires = e], iss)
         /\ [r EXCEPT !.expires = e].status = r.status
<1> DEFINE q == [r EXCEPT !.expires = e]
<1>2. q \in StageRecords
  BY DEF StageRecords
<1>3. /\ q.status = r.status /\ q.attempt = r.attempt /\ q.worker = r.worker
      /\ q.token = r.token /\ q.completion = r.completion
      /\ q.started = r.started /\ q.completed = r.completed
      /\ q.error = r.error /\ q.result = r.result
      /\ q.expires = e
  BY DEF StageRecords
<1> HIDE DEF q
<1>4. RowInv(s, q, iss)
  BY <1>2, <1>3 DEF RowInv, Active
<1> QED BY <1>3, <1>4 DEF q

(* start turns a leased row into a running one under the same lease. *)
LEMMA RowStarted ==
  ASSUME NEW s \in Stages, NEW r \in StageRecords, NEW iss \in Seq(Workers),
         RowInv(s, r, iss), r.status = "leased"
  PROVE  /\ RowInv(s, [r EXCEPT !.status = "running", !.started = TRUE], iss)
         /\ [r EXCEPT !.status = "running", !.started = TRUE].status = "running"
<1> DEFINE q == [r EXCEPT !.status = "running", !.started = TRUE]
<1>1. "running" \in StageStatuses
  BY DEF StageStatuses, TaskStatuses
<1>2. q \in StageRecords
  BY <1>1 DEF StageRecords
<1>3. /\ q.status = "running" /\ q.attempt = r.attempt /\ q.worker = r.worker
      /\ q.token = r.token /\ q.completion = r.completion
      /\ q.started = TRUE /\ q.completed = r.completed
      /\ q.error = r.error /\ q.result = r.result /\ q.expires = r.expires
  BY DEF StageRecords
<1> HIDE DEF q
<1>4. RowInv(s, q, iss)
  BY <1>2, <1>3, RowFields DEF RowInv, Active, ActiveStatuses, OpenStatuses
<1> QED BY <1>3, <1>4 DEF q

(* The record of who completed the attempt does not disturb the row. *)
LEMMA RowCompletion ==
  ASSUME NEW s \in Stages, NEW r \in StageRecords, NEW iss \in Seq(Workers),
         RowInv(s, r, iss), NEW w \in Workers, NEW k \in Nat,
         NEW request \in Requests
  PROVE  LET q == [r EXCEPT !.completion =
                     [worker |-> w, device |-> r.device,
                      token |-> k, request |-> request]]
         IN q \in StageRecords /\ RowInv(s, q, iss) /\ q.status = r.status
<1> DEFINE c == [worker |-> w, device |-> r.device,
                 token |-> k, request |-> request]
<1> DEFINE q == [r EXCEPT !.completion = c]
<1>1. c \in Completions /\ c.worker # NoWorker
  BY RowFields, NullsAssumption DEF Completions
<1> HIDE DEF c
<1>2. q \in StageRecords
  BY <1>1 DEF StageRecords
<1>3. /\ q.status = r.status /\ q.attempt = r.attempt /\ q.worker = r.worker
      /\ q.token = r.token /\ q.completion = c
      /\ q.started = r.started /\ q.completed = r.completed
      /\ q.error = r.error /\ q.result = r.result /\ q.expires = r.expires
  BY DEF StageRecords
<1> HIDE DEF q
<1>4. RowInv(s, q, iss)
  BY <1>1, <1>2, <1>3 DEF RowInv, Active
<1> QED BY <1>2, <1>3, <1>4 DEF q, c

(* A running row that succeeds is sound and holds no lease. *)
LEMMA RowSucceeded ==
  ASSUME NEW s \in Stages, NEW r \in StageRecords, NEW iss \in Seq(Workers),
         RowInv(s, r, iss), r.status = "running", NEW request \in Requests
  PROVE  /\ SucceedStage(r, request) \in StageRecords
         /\ RowInv(s, SucceedStage(r, request), iss)
         /\ SucceedStage(r, request).status = "succeeded"
<1> DEFINE b == (request = "result")
<1> DEFINE p == [r EXCEPT !.status = "succeeded", !.completed = TRUE,
                          !.result = b]
<1>1. "succeeded" \in StageStatuses /\ b \in BOOLEAN
  BY DEF StageStatuses, TaskStatuses
<1> HIDE DEF b
<1>2. p \in StageRecords
  BY <1>1 DEF StageRecords
<1>3. /\ p.status = "succeeded" /\ p.attempt = r.attempt
      /\ p.completion = r.completion /\ p.completed = TRUE
      /\ p.error = r.error
  BY DEF StageRecords
<1>4. SucceedStage(r, request) = ClearLease(p)
  BY DEF SucceedStage, b
<1> HIDE DEF p
<1> QED
  BY <1>2, <1>3, <1>4, Cleared DEF RowInv, Active, ActiveStatuses, OpenStatuses

(* The end of a failed attempt: the row is requeued while attempts remain, *)
(* else skipped or failed.                                                 *)
LEMMA RowFailOrRetry ==
  ASSUME NEW s \in Stages, NEW r \in StageRecords, NEW iss \in Seq(Workers),
         RowInv(s, r, iss), Active(r), now \in Nat
  PROVE  /\ FailOrRetryStage(s, r) \in StageRecords
         /\ RowInv(s, FailOrRetryStage(s, r), iss)
         /\ FailOrRetryStage(s, r).status \in {"pending", "skipped", "failed"}
<1> USE RowFields
<1>1. CASE ~Exhausted(s, r)
  <2> DEFINE at == now + RetryDelay(r.attempt)
  <2> DEFINE p == [r EXCEPT !.status = "pending", !.error = FALSE,
                            !.started = FALSE, !.completed = FALSE,
                            !.available_at = at]
  <2>1. at \in Nat
    BY RetryDelayType DEF RowInv
  <2>2. "pending" \in StageStatuses
    BY DEF StageStatuses, TaskStatuses
  <2> HIDE DEF at
  <2>3. p \in StageRecords
    BY <2>1, <2>2 DEF StageRecords
  <2>4. /\ p.status = "pending" /\ p.attempt = r.attempt /\ p.error = FALSE
        /\ p.completion = r.completion /\ p.result = r.result
    BY DEF StageRecords
  <2>5. FailOrRetryStage(s, r) = ClearLease(p)
    BY <1>1 DEF FailOrRetryStage, Requeued, at
  <2>6. r.attempt < MaximumAttempts[s] /\ ~r.result
    BY <1>1, AttemptsAssumption
       DEF Exhausted, RowInv, Active, ActiveStatuses
  <2> HIDE DEF p
  <2> QED
    BY <2>3, <2>4, <2>5, <2>6, Cleared
       DEF RowInv, Active, ActiveStatuses, OpenStatuses
<1>2. CASE Exhausted(s, r)
  <2> DEFINE st == IF s \in Optional THEN "skipped" ELSE "failed"
  <2> DEFINE er == (s \notin Optional)
  <2> DEFINE p == [r EXCEPT !.status = st, !.error = er, !.completed = TRUE]
  <2>1. /\ st \in StageStatuses /\ er \in BOOLEAN
        /\ st \in {"skipped", "failed"} /\ (er <=> st = "failed")
    BY DEF StageStatuses, TaskStatuses
  <2>2. FailOrRetryStage(s, r) = ClearLease(p)
    BY <1>2 DEF FailOrRetryStage
  <2> HIDE DEF st, er
  <2>3. p \in StageRecords
    BY <2>1 DEF StageRecords
  <2>4. /\ p.status = st /\ p.attempt = r.attempt /\ p.error = er
        /\ p.completion = r.completion /\ p.result = r.result
        /\ p.completed = TRUE
    BY DEF StageRecords
  <2>5. ~r.result
    BY DEF RowInv, Active, ActiveStatuses
  <2> HIDE DEF p
  <2> QED
    BY <2>1, <2>2, <2>3, <2>4, <2>5, Cleared
       DEF RowInv, Active, ActiveStatuses, OpenStatuses
<1> QED BY <1>1, <1>2

(* An open row that _reconcile_task cancels is sound and holds no lease. *)
LEMMA RowCancelledSibling ==
  ASSUME NEW s \in Stages, NEW r \in StageRecords, NEW iss \in Seq(Workers),
         RowInv(s, r, iss), r.status \in OpenStatuses
  PROVE  /\ RowInv(s, CancelledSibling(r), iss)
         /\ CancelledSibling(r).status = "cancelled"
<1> DEFINE p == [r EXCEPT !.status = "cancelled", !.completed = TRUE]
<1>1. "cancelled" \in StageStatuses
  BY DEF StageStatuses, TaskStatuses
<1>2. p \in StageRecords
  BY <1>1 DEF StageRecords
<1>3. /\ p.status = "cancelled" /\ p.attempt = r.attempt
      /\ p.completion = r.completion /\ p.completed = TRUE
      /\ p.error = r.error /\ p.result = r.result
  BY DEF StageRecords
<1>4. CancelledSibling(r) = ClearLease(p)
  BY DEF CancelledSibling
<1> HIDE DEF p
<1> QED
  BY <1>2, <1>3, <1>4, Cleared, RowFields
     DEF RowInv, Active, ActiveStatuses, OpenStatuses

(* An open row that cancel ends is sound: its token is gone. *)
LEMMA RowCancelled ==
  ASSUME NEW s \in Stages, NEW r \in StageRecords, NEW iss \in Seq(Workers),
         RowInv(s, r, iss), r.status \in OpenStatuses
  PROVE  /\ RowInv(s, CancelledStage(r), iss)
         /\ CancelledStage(r).status = "cancelled"
<1> DEFINE p == CancelledStage(r)
<1>1. "cancelled" \in StageStatuses
  BY DEF StageStatuses, TaskStatuses
<1>2. p \in StageRecords
  BY <1>1, NullTypes DEF CancelledStage, StageRecords
<1>3. /\ p.status = "cancelled" /\ p.attempt = r.attempt /\ p.token = NoToken
      /\ p.completion = NoCompletion /\ p.completed = TRUE
      /\ p.error = r.error /\ p.result = r.result
  BY DEF CancelledStage, StageRecords
<1> HIDE DEF p
<1>4. RowInv(s, p, iss)
  BY <1>2, <1>3, RowFields
     DEF RowInv, Active, ActiveStatuses, OpenStatuses, NoCompletion
<1> QED BY <1>3, <1>4 DEF p

(* A failed or cancelled row that retry resets waits with a full budget. *)
LEMMA RowRetried ==
  ASSUME NEW s \in Stages, NEW r \in StageRecords, NEW iss \in Seq(Workers),
         RowInv(s, r, iss), r.status \in {"failed", "cancelled"}
  PROVE  /\ RowInv(s, RetriedStage(r), iss)
         /\ RetriedStage(r).status = "pending"
<1> DEFINE p == RetriedStage(r)
<1>1. "pending" \in StageStatuses /\ 0 \in Nat
  BY DEF StageStatuses, TaskStatuses
<1>2. p \in StageRecords
  BY <1>1, NullTypes DEF RetriedStage, StageRecords
<1>3. /\ p.status = "pending" /\ p.attempt = 0 /\ p.token = NoToken
      /\ p.completion = NoCompletion
      /\ p.error = FALSE /\ p.result = r.result
  BY DEF RetriedStage, StageRecords
<1> HIDE DEF p
<1>4. 0 < MaximumAttempts[s] /\ 0 <= MaximumAttempts[s]
  BY AttemptsAssumption
<1>5. ~r.result
  BY DEF RowInv
<1>6. /\ ~Active(p) /\ p.status \in OpenStatuses /\ ~p.error /\ ~p.result
      /\ p.completion.device = NoDevice
  BY <1>3, <1>5 DEF Active, ActiveStatuses, OpenStatuses, NoCompletion
<1>7. RowInv(s, p, iss)
  BY <1>2, <1>3, <1>4, <1>6 DEF RowInv
<1> QED BY <1>3, <1>7 DEF p

-----------------------------------------------------------------------------
(* The inductive invariant.  Rows gathers what LeaseFencing,               *)
(* AttemptsWithinBudget and StageDetailValid say of each stage row: an     *)
(* action's effect on a row needs them together, since the validators say  *)
(* that an active row carries no error and no result, and the budget says  *)
(* that a waiting row has an attempt left for the next lease.              *)
Rows == \A s \in Stages : RowInv(s, stage[s], issued[s])

TaskRowInv(r) ==
  /\ r.status \in TaskTerminalStatuses => r.completed
  /\ r.error <=> r.status = "failed"
  /\ r.result => r.status = "succeeded"
  /\ r.status = "running" => r.started

TaskRows == \A t \in Tasks : TaskRowInv(task[t])

Inv ==
  /\ TypeOK
  /\ Rows
  /\ TaskRows
  /\ TaskStageAgreement
  /\ DependenciesRespected
  /\ EventsReportStatus

(* The part of it that is about the rows of tasks and stages, which the    *)
(* handlers keep whatever happens to the worker rows and the clock.        *)
RowTypes ==
  /\ stage \in [Stages -> StageRecords]
  /\ task \in [Tasks -> TaskRecords]
  /\ issued \in [Stages -> Seq(Workers)]
  /\ event \in [Tasks -> Events]

RowsInv ==
  /\ RowTypes
  /\ Rows
  /\ TaskRows
  /\ TaskStageAgreement
  /\ DependenciesRespected
  /\ EventsReportStatus

LEMMA InvParts == Inv <=> RegistryTypeOK /\ RowsInv
BY DEF Inv, TypeOK, RowsInv, RowTypes

LEMMA InvPartsNext == RegistryTypeOK' /\ RowsInv' => Inv'
BY DEF Inv, TypeOK, RowsInv, RowTypes

(* What _reconcile_task makes of the row of a leased or running task. *)
LEMMA TaskReconciled ==
  ASSUME NEW st, NEW t \in Tasks, NEW r \in TaskRecords, TaskRowInv(r),
         r.status \in {"leased", "running"}
  PROVE  LET q == ReconciledTask(st, t, r)
         IN /\ q \in TaskRecords /\ TaskRowInv(q)
            /\ HasFailed(st, t) => q.status = "failed"
            /\ ~HasFailed(st, t) /\ AllDone(st, t) => q.status = "succeeded"
            /\ (~HasFailed(st, t) /\ ~AllDone(st, t)
                  /\ r.status = "leased" /\ NoneActive(st, t))
                 => q.status = "pending"
            /\ (~HasFailed(st, t) /\ ~AllDone(st, t)
                  /\ ~(r.status = "leased" /\ NoneActive(st, t)))
                 => q = r
<1> DEFINE F == HasFailed(st, t)
<1> DEFINE D == AllDone(st, t)
<1> DEFINE N == NoneActive(st, t)
<1> DEFINE res == \E s \in StagesOf(t) : st[s].result
<1> DEFINE q == ReconciledTask(st, t, r)
<1>1. CASE F
  <2>1. q = [r EXCEPT !.status = "failed", !.error = TRUE, !.completed = TRUE]
    BY <1>1, Zenon DEF ReconciledTask
  <2>2. "failed" \in TaskStatuses
    BY DEF TaskStatuses
  <2>3. q \in TaskRecords
    BY <2>1, <2>2 DEF TaskRecords
  <2>4. /\ q.status = "failed" /\ q.error = TRUE /\ q.completed = TRUE
        /\ q.result = r.result
    BY <2>1 DEF TaskRecords
  <2> HIDE DEF q
  <2>5. TaskRowInv(q)
    BY <2>4 DEF TaskRowInv
  <2> QED BY <1>1, <2>3, <2>4, <2>5 DEF q
<1>2. CASE ~F /\ D
  <2>1. q = [r EXCEPT !.status = "succeeded", !.completed = TRUE,
                      !.result = res]
    BY <1>2, Zenon DEF ReconciledTask
  <2>2. "succeeded" \in TaskStatuses /\ res \in BOOLEAN
    BY DEF TaskStatuses
  <2> HIDE DEF res
  <2>3. q \in TaskRecords
    BY <2>1, <2>2 DEF TaskRecords
  <2>4. /\ q.status = "succeeded" /\ q.completed = TRUE /\ q.error = r.error
    BY <2>1 DEF TaskRecords
  <2> HIDE DEF q
  <2>5. TaskRowInv(q)
    BY <2>3, <2>4 DEF TaskRowInv, TaskRecords
  <2> QED BY <1>2, <2>3, <2>4, <2>5 DEF q
<1>3. CASE ~F /\ ~D /\ r.status = "leased" /\ N
  <2>1. q = [r EXCEPT !.status = "pending"]
    BY <1>3, Zenon DEF ReconciledTask
  <2>2. "pending" \in TaskStatuses
    BY DEF TaskStatuses
  <2>3. q \in TaskRecords
    BY <2>1, <2>2 DEF TaskRecords
  <2>4. q.status = "pending" /\ q.error = r.error /\ q.result = r.result
    BY <2>1 DEF TaskRecords
  <2> HIDE DEF q
  <2>5. ~r.error /\ ~r.result
    BY DEF TaskRowInv
  <2>6. TaskRowInv(q)
    BY <2>4, <2>5 DEF TaskRowInv, TaskTerminalStatuses
  <2> QED BY <1>3, <2>3, <2>4, <2>6 DEF q
<1>4. CASE ~F /\ ~D /\ ~(r.status = "leased" /\ N)
  <2>1. q = r
    BY <1>4, Zenon DEF ReconciledTask
  <2> QED BY <1>4, <2>1
<1> QED BY <1>1, <1>2, <1>3, <1>4

(* The statuses that the stages of a task may have when the handler of one *)
(* of them has written its row and _reconcile_task is about to run.        *)
Unsettled(st, affected) ==
  \A s \in Stages : TaskOf[s] \in affected =>
    /\ st[s].status \in OpenStatuses \cup DoneStatuses \cup {"failed"}
    /\ task[TaskOf[s]].status = "leased" => st[s].status # "running"

(* What _reconcile_task writes. *)
ReconcileEffect(st, affected) ==
  /\ stage' = ReconciledStages(st, affected)
  /\ task' = [t \in Tasks |->
                IF t \in affected THEN ReconciledTask(st, t, task[t])
                                  ELSE task[t]]
  /\ event' = [t \in Tasks |->
                 IF t \in affected /\ task'[t].status # task[t].status
                   THEN StatusEvent(task[t].status, task'[t].status)
                   ELSE event[t]]

(* _reconcile_task restores the agreement of task and stages, and keeps    *)
(* the rows sound, the dependencies respected and the events faithful.     *)
LEMMA ReconcileRestores ==
  ASSUME RowTypes, TaskRows, EventsReportStatus, TaskStageAgreement,
         NEW affected \in SUBSET Tasks,
         NEW st \in [Stages -> StageRecords],
         \A s \in Stages : RowInv(s, st[s], issued[s]),
         \A s \in Stages : TaskOf[s] \notin affected => st[s] = stage[s],
         \A t \in affected : task[t].status \in {"leased", "running"},
         Unsettled(st, affected),
         \A s \in Stages : st[s].status \notin {"pending", "cancelled"} =>
           \A d \in DependsOn[s] : st[d].status \in DoneStatuses,
         ReconcileEffect(st, affected), issued' = issued
  PROVE  /\ stage' \in [Stages -> StageRecords]
         /\ task' \in [Tasks -> TaskRecords]
         /\ event' \in [Tasks -> Events]
         /\ Rows' /\ TaskRows' /\ TaskStageAgreement'
         /\ DependenciesRespected' /\ EventsReportStatus'
<1> USE StructureAssumption
<1>1. stage' = ReconciledStages(st, affected)
  BY DEF ReconcileEffect
<1>2. \A s \in Stages :
        /\ st[s] \in StageRecords
        /\ stage'[s] =
             IF /\ TaskOf[s] \in affected
                /\ HasFailed(st, TaskOf[s])
                /\ st[s].status \in OpenStatuses
               THEN CancelledSibling(st[s])
               ELSE st[s]
  BY <1>1, Zenon DEF ReconciledStages
<1>3. ASSUME NEW s \in Stages
      PROVE  /\ RowInv(s, stage'[s], issued[s])
             /\ (TaskOf[s] \in affected /\ HasFailed(st, TaskOf[s])
                   /\ st[s].status \in OpenStatuses)
                  => stage'[s].status = "cancelled"
             /\ ~(TaskOf[s] \in affected /\ HasFailed(st, TaskOf[s])
                    /\ st[s].status \in OpenStatuses)
                  => stage'[s] = st[s]
  <2>1. issued[s] \in Seq(Workers)
    BY DEF RowTypes
  <2>2. CASE TaskOf[s] \in affected /\ HasFailed(st, TaskOf[s])
               /\ st[s].status \in OpenStatuses
    <3>1. stage'[s] = CancelledSibling(st[s])
      BY <1>2, <2>2
    <3>2. /\ RowInv(s, CancelledSibling(st[s]), issued[s])
          /\ CancelledSibling(st[s]).status = "cancelled"
      BY <1>2, <2>1, <2>2, RowCancelledSibling
    <3> QED BY <2>2, <3>1, <3>2
  <2>3. CASE ~(TaskOf[s] \in affected /\ HasFailed(st, TaskOf[s])
                 /\ st[s].status \in OpenStatuses)
    BY <1>2, <2>3
  <2> QED BY <2>2, <2>3
<1>4. Rows' /\ stage' \in [Stages -> StageRecords]
  <2>1. \A s \in Stages : stage'[s] \in StageRecords
    BY <1>3 DEF RowInv
  <2>2. stage' = [s \in Stages |-> stage'[s]]
    BY <1>1 DEF ReconciledStages
  <2> QED BY <1>3, <2>1, <2>2 DEF Rows
<1>5. \A t \in Tasks :
        /\ t \in affected => task'[t] = ReconciledTask(st, t, task[t])
        /\ t \notin affected => task'[t] = task[t]
  BY DEF ReconcileEffect
<1>6. ASSUME NEW t \in Tasks
      PROVE  task'[t] \in TaskRecords /\ TaskRowInv(task'[t])
  <2>1. task[t] \in TaskRecords /\ TaskRowInv(task[t])
    BY DEF RowTypes, TaskRows
  <2>2. CASE t \in affected
    <3>1. task[t].status \in {"leased", "running"}
      BY <2>2
    <3>2. LET q == ReconciledTask(st, t, task[t])
          IN q \in TaskRecords /\ TaskRowInv(q)
      BY <2>1, <3>1, TaskReconciled
    <3> QED BY <1>5, <2>2, <3>2
  <2>3. CASE t \notin affected
    BY <1>5, <2>1, <2>3
  <2> QED BY <2>2, <2>3
<1>7. TaskRows' /\ task' \in [Tasks -> TaskRecords]
  <2>1. task' = [t \in Tasks |-> task'[t]]
    BY DEF ReconcileEffect
  <2> QED BY <1>6, <2>1 DEF TaskRows
<1>8. ASSUME NEW t \in Tasks
      PROVE  /\ \A s \in StagesOf(t) :
                  stage'[s].status \in AllowedUnder(task'[t].status)
             /\ \E s \in StagesOf(t) :
                  stage'[s].status \in RequiredUnder(task'[t].status)
  <2>1. CASE t \notin affected
    <3>1. \A s \in StagesOf(t) : stage'[s] = stage[s]
      BY <1>3, <2>1 DEF StagesOf
    <3>2. task'[t] = task[t]
      BY <1>5, <2>1
    <3> QED BY <3>1, <3>2 DEF TaskStageAgreement, StagesOf
  <2>2. CASE t \in affected
    <3> DEFINE q == ReconciledTask(st, t, task[t])
    <3>1. task'[t] = q
      BY <1>5, <2>2
    <3>2. /\ task[t] \in TaskRecords /\ TaskRowInv(task[t])
          /\ task[t].status \in {"leased", "running"}
      BY <2>2 DEF RowTypes, TaskRows
    <3>3. \A s \in StagesOf(t) :
            /\ st[s].status \in OpenStatuses \cup DoneStatuses \cup {"failed"}
            /\ task[t].status = "leased" => st[s].status # "running"
      BY <2>2 DEF Unsettled, StagesOf
    <3>4. CASE HasFailed(st, t)
      <4>1. q.status = "failed"
        BY <3>2, <3>4, TaskReconciled
      <4>2. \A s \in StagesOf(t) :
              stage'[s].status \in {"failed", "cancelled"} \cup DoneStatuses
        BY <1>3, <2>2, <3>3, <3>4 DEF StagesOf
      <4>3. PICK s \in StagesOf(t) : st[s].status = "failed"
        BY <3>4 DEF HasFailed
      <4>4. stage'[s].status = "failed"
        BY <1>3, <4>3 DEF StagesOf, OpenStatuses
      <4> QED
        BY <3>1, <4>1, <4>2, <4>4 DEF AllowedUnder, RequiredUnder
    <3>5. CASE ~HasFailed(st, t) /\ AllDone(st, t)
      <4>1. q.status = "succeeded"
        BY <3>2, <3>5, TaskReconciled
      <4>2. \A s \in StagesOf(t) : stage'[s].status \in DoneStatuses
        BY <1>3, <2>2, <3>5 DEF StagesOf, AllDone
      <4>3. \E s \in Stages : TaskOf[s] = t
        OBVIOUS
      <4> QED
        BY <3>1, <4>1, <4>2, <4>3 DEF AllowedUnder, RequiredUnder, StagesOf
    <3>6. CASE /\ ~HasFailed(st, t) /\ ~AllDone(st, t)
               /\ task[t].status = "leased" /\ NoneActive(st, t)
      <4>1. q.status = "pending"
        BY <3>2, <3>6, TaskReconciled
      <4>2. \A s \in StagesOf(t) : stage'[s].status = st[s].status
        BY <1>3, <3>6 DEF StagesOf
      <4>3. \A s \in StagesOf(t) :
              st[s].status \in {"pending"} \cup DoneStatuses
        BY <3>6 DEF NoneActive
      <4>4. PICK s \in StagesOf(t) : st[s].status \notin DoneStatuses
        BY <3>6 DEF AllDone
      <4>5. stage'[s].status = "pending"
        BY <4>2, <4>3, <4>4
      <4> QED
        BY <3>1, <4>1, <4>2, <4>3, <4>5 DEF AllowedUnder, RequiredUnder
    <3>7. CASE /\ ~HasFailed(st, t) /\ ~AllDone(st, t)
               /\ ~(task[t].status = "leased" /\ NoneActive(st, t))
      <4>1. q = task[t]
        BY <3>2, <3>7, TaskReconciled
      <4>2. \A s \in StagesOf(t) : stage'[s].status = st[s].status
        BY <1>3, <3>7 DEF StagesOf
      <4>3. \A s \in StagesOf(t) :
              st[s].status \in OpenStatuses \cup DoneStatuses
        BY <3>3, <3>7 DEF HasFailed
      <4>4. CASE task[t].status = "leased"
        <5>1. PICK s \in StagesOf(t) :
                st[s].status \notin {"pending"} \cup DoneStatuses
          BY <3>7, <4>4 DEF NoneActive
        <5>2. st[s].status = "leased"
          BY <3>3, <4>3, <4>4, <5>1 DEF OpenStatuses
        <5>3. \A x \in StagesOf(t) :
                st[x].status \in {"pending", "leased"} \cup DoneStatuses
          BY <3>3, <4>3, <4>4 DEF OpenStatuses
        <5> QED
          BY <3>1, <4>1, <4>2, <4>4, <5>2, <5>3
             DEF AllowedUnder, RequiredUnder
      <4>5. CASE task[t].status = "running"
        <5>1. PICK s \in StagesOf(t) : st[s].status \notin DoneStatuses
          BY <3>7 DEF AllDone
        <5>2. st[s].status \in OpenStatuses
          BY <4>3, <5>1
        <5> QED
          BY <3>1, <4>1, <4>2, <4>3, <4>5, <5>2
             DEF AllowedUnder, RequiredUnder
      <4> QED BY <3>2, <4>4, <4>5
    <3> QED BY <3>4, <3>5, <3>6, <3>7
  <2> QED BY <2>1, <2>2
<1>9. TaskStageAgreement'
  BY <1>8 DEF TaskStageAgreement, StagesOf
<1>10. DependenciesRespected'
  <2>1. ASSUME NEW s \in Stages,
               stage'[s].status \notin {"pending", "cancelled"},
               NEW d \in DependsOn[s]
        PROVE  stage'[d].status \in DoneStatuses
    <3>1. stage'[s] = st[s]
      BY <1>3, <2>1
    <3>2. st[d].status \in DoneStatuses /\ d \in Stages
      BY <2>1, <3>1
    <3>3. st[d].status \notin OpenStatuses
      BY <3>2 DEF DoneStatuses, OpenStatuses
    <3> QED BY <1>3, <3>2, <3>3
  <2> QED BY <2>1 DEF DependenciesRespected, DependenciesSatisfied
<1>11. EventsReportStatus' /\ event' \in [Tasks -> Events]
  <2>1. event' = [t \in Tasks |->
                    IF t \in affected /\ task'[t].status # task[t].status
                      THEN StatusEvent(task[t].status, task'[t].status)
                      ELSE event[t]]
    BY DEF ReconcileEffect
  <2>2. ASSUME NEW t \in Tasks
        PROVE  event'[t] \in Events /\ event'[t].current = task'[t].status
    <3>1. /\ task[t].status \in TaskStatuses /\ task'[t].status \in TaskStatuses
          /\ event[t] \in Events /\ event[t].current = task[t].status
      BY <1>6 DEF RowTypes, TaskRecords, EventsReportStatus
    <3>2. CASE t \in affected /\ task'[t].status # task[t].status
      <4>1. event'[t] = StatusEvent(task[t].status, task'[t].status)
        BY <2>1, <3>2
      <4> QED BY <3>1, <4>1 DEF StatusEvent, Events
    <3>3. CASE ~(t \in affected /\ task'[t].status # task[t].status)
      <4>1. event'[t] = event[t] /\ task'[t].status = task[t].status
        BY <1>5, <2>1, <3>3
      <4> QED BY <3>1, <4>1
    <3> QED BY <3>2, <3>3
  <2> QED BY <2>1, <2>2 DEF EventsReportStatus
<1> QED BY <1>4, <1>7, <1>9, <1>10, <1>11

-----------------------------------------------------------------------------
(* The worker rows keep their types through the registry's operations and  *)
(* through what the scheduler writes to them.                              *)
LEMMA RegistryTypes ==
  ASSUME RegistryTypeOK, RegistryNext
  PROVE  RegistryTypeOK'
<1> USE DEF RegistryTypeOK
<1>1. ASSUME NEW w \in Workers, NEW c \in Concurrencies, register(w, c)
      PROVE  RegistryTypeOK'
  <2> DEFINE q == RegisteredRecord(worker[w], c)
  <2>1. q \in WorkerRecords
    BY ConcurrenciesAssumption
       DEF RegisteredRecord, WorkerRecords, WorkerStatuses
  <2> HIDE DEF q
  <2> QED BY <1>1, <2>1 DEF register, q
<1>2. ASSUME NEW w \in Workers, NEW n \in 0..MaxSequence,
             NEW status \in ReportedStatuses, heartbeat(w, n, status)
      PROVE  RegistryTypeOK'
  <2> DEFINE q == HeartbeatRecord(worker[w], n, status)
  <2> DEFINE x == IF worker[w].enabled THEN status ELSE "offline"
  <2>1. x \in WorkerStatuses \cup {"unregistered"} /\ n \in Nat \cup {-1}
    BY ReportedAssumption, WorkerTimesAssumption DEF WorkerStatuses
  <2>2. q = [worker[w] EXCEPT !.status = x, !.sequence = n,
                              !.last_heartbeat = now]
    BY DEF HeartbeatRecord
  <2> HIDE DEF x
  <2>3. worker[w] \in WorkerRecords
    OBVIOUS
  <2>4. q \in WorkerRecords
    BY <2>1, <2>2, <2>3 DEF WorkerRecords
  <2> HIDE DEF q
  <2> QED BY <1>2, <2>4 DEF heartbeat, q
<1>3. ASSUME NEW w \in Workers, NEW u \in Updates, update(w, u)
      PROVE  RegistryTypeOK'
  <2> DEFINE r == worker[w]
  <2> DEFINE q == UpdatedRecord(r, u)
  <2> DEFINE e == IF u.enabled = "keep" THEN r.enabled ELSE u.enabled = "yes"
  <2> DEFINE x == CASE u.draining = "yes" -> "draining"
                    [] u.draining = "no" /\ e /\ EnabledStatus(r, u) = "draining"
                         -> "online"
                    [] OTHER -> EnabledStatus(r, u)
  <2> DEFINE m == IF u.maximum_concurrency = 0 THEN r.maximum_concurrency
                                               ELSE u.maximum_concurrency
  <2>1. r \in WorkerRecords
    OBVIOUS
  <2>2. e \in BOOLEAN /\ m \in Nat
    <3>1. u.maximum_concurrency \in Nat
      <4>1. u \in [enabled : Choices, draining : Choices,
                   maximum_concurrency : Concurrencies \cup {0}]
        BY UpdatesAssumption
      <4>2. u.maximum_concurrency \in Concurrencies \cup {0}
        BY <4>1
      <4>3. \A m0 \in Concurrencies \cup {0} : m0 \in Nat
        BY ConcurrenciesAssumption
      <4> HIDE DEF m
      <4> QED BY <4>2, <4>3, Zenon
    <3>2. r.enabled \in BOOLEAN /\ r.maximum_concurrency \in Nat
      BY <2>1 DEF WorkerRecords
    <3> QED BY <3>1, <3>2
  <2>3. EnabledStatus(r, u) \in WorkerStatuses \cup {"unregistered"}
    BY <2>1 DEF EnabledStatus, WorkerRecords, WorkerStatuses
  <2>4. q = [r EXCEPT !.enabled = e, !.status = x, !.maximum_concurrency = m]
    BY DEF UpdatedRecord
  <2> HIDE DEF e, m
  <2>5. x \in WorkerStatuses \cup {"unregistered"}
    BY <2>3 DEF WorkerStatuses
  <2> HIDE DEF x, r
  <2>6. q \in WorkerRecords
    BY <2>1, <2>2, <2>4, <2>5 DEF WorkerRecords
  <2> HIDE DEF q
  <2> QED BY <1>3, <2>6 DEF update, q, r
<1>4. CASE Tick
  BY <1>4 DEF Tick
<1> QED BY <1>1, <1>2, <1>3, <1>4 DEF RegistryNext

(* A row whose status the scheduler or the sweep changes stays a row. *)
LEMMA WorkerStatusWrite ==
  ASSUME NEW r \in WorkerRecords, NEW x \in WorkerStatuses
  PROVE  [r EXCEPT !.status = x] \in WorkerRecords
BY DEF WorkerRecords

(* The sweep of mark_offline yields worker rows. *)
LEMMA SweepTypes ==
  ASSUME RegistryTypeOK
  PROVE  OfflineSweep \in [Workers -> WorkerRecords]
<1>1. "offline" \in WorkerStatuses
  BY DEF WorkerStatuses
<1> QED BY <1>1, WorkerStatusWrite DEF OfflineSweep, RegistryTypeOK

(* _release_worker_if_idle yields worker rows. *)
LEMMA ReleaseTypes ==
  ASSUME NEW wk \in [Workers -> WorkerRecords], NEW st, NEW released
  PROVE  Released(wk, st, released) \in [Workers -> WorkerRecords]
<1>1. "online" \in WorkerStatuses
  BY DEF WorkerStatuses
<1> QED BY <1>1, WorkerStatusWrite DEF Released

-----------------------------------------------------------------------------
(* The initial states: routed tasks whose stages wait, untouched. *)
LEMMA InitRows ==
  ASSUME RowsInit
  PROVE  RowsInv
<1> USE StructureAssumption
<1> DEFINE r0 == [status |-> "pending", attempt |-> 0,
                  worker |-> NoWorker, device |-> NoDevice,
                  token |-> NoToken, expires |-> NoTime, available_at |-> 0,
                  completion |-> NoCompletion,
                  started |-> FALSE, completed |-> FALSE,
                  error |-> FALSE, result |-> FALSE]
<1> DEFINE q0 == [status |-> "pending", started |-> FALSE,
                  completed |-> FALSE, error |-> FALSE, result |-> FALSE]
<1>1. /\ stage = [s \in Stages |-> r0] /\ task = [t \in Tasks |-> q0]
      /\ issued = [s \in Stages |-> <<>>]
      /\ event = [t \in Tasks |-> StatusEvent("none", "pending")]
  BY DEF RowsInit
<1>3. r0 \in StageRecords
  BY NullTypes DEF StageRecords, StageStatuses, TaskStatuses
<1>4. q0 \in TaskRecords /\ TaskRowInv(q0) /\ q0.status = "pending"
  BY DEF TaskRecords, TaskRowInv, TaskStatuses, TaskTerminalStatuses
<1>5. /\ r0.status = "pending" /\ r0.token = NoToken /\ r0.attempt = 0
      /\ r0.error = FALSE /\ r0.result = FALSE
      /\ r0.completion = NoCompletion
  OBVIOUS
<1>6. StatusEvent("none", "pending") \in Events
      /\ StatusEvent("none", "pending").current = "pending"
  BY DEF StatusEvent, Events, TaskStatuses
<1> HIDE DEF r0, q0
<1>7. RowTypes
  BY <1>1, <1>3, <1>4, <1>6 DEF RowTypes
<1>8. Rows
  <2>1. ASSUME NEW s \in Stages
        PROVE  RowInv(s, r0, <<>>)
    <3>1. 0 < MaximumAttempts[s] /\ 0 <= MaximumAttempts[s]
      BY AttemptsAssumption
    <3>2. /\ ~Active(r0) /\ r0.status \in OpenStatuses
          /\ r0.completion.device = NoDevice
      BY <1>5 DEF Active, ActiveStatuses, OpenStatuses, NoCompletion
    <3> QED BY <1>3, <1>5, <3>1, <3>2 DEF RowInv
  <2> QED BY <1>1, <2>1 DEF Rows
<1>9. TaskRows /\ EventsReportStatus
  BY <1>1, <1>4, <1>6 DEF TaskRows, EventsReportStatus
<1>10. TaskStageAgreement
  BY <1>1, <1>4, <1>5
     DEF TaskStageAgreement, AllowedUnder, RequiredUnder, StagesOf
<1>11. DependenciesRespected
  BY <1>1, <1>5 DEF DependenciesRespected
<1> QED BY <1>7, <1>8, <1>9, <1>10, <1>11 DEF RowsInv

LEMMA InitInv ==
  ASSUME Init
  PROVE  Inv
<1>1. RegistryTypeOK
  BY DEF Init, RegistryInit, RegistryTypeOK, WorkerRecords, WorkerStatuses
<1>2. RowsInv
  BY InitRows DEF Init
<1> QED BY <1>1, <1>2, InvParts

(* lease: the granted rows are leased under new tokens, and their tasks    *)
(* with them.  new holds the rows as the poll leaves them.                 *)
LeaseEffect(w, granted, new) ==
  LET claimed == {t \in Tasks : /\ task[t].status = "pending"
                                /\ \E s \in granted : TaskOf[s] = t}
  IN /\ stage' = [s \in Stages |-> IF s \in granted THEN new[s] ELSE stage[s]]
     /\ issued' = [s \in Stages |->
                     IF s \in granted THEN Append(issued[s], w) ELSE issued[s]]
     /\ task' = [t \in Tasks |->
                   IF t \in claimed THEN [task[t] EXCEPT !.status = "leased"]
                                    ELSE task[t]]
     /\ event' = [t \in Tasks |->
                    IF t \in claimed THEN StatusEvent("pending", "leased")
                                     ELSE event[t]]

LEMMA LeaseRows ==
  ASSUME RowsInv, NEW w \in Workers, NEW granted \in SUBSET Stages, NEW new,
         \A s \in granted :
           /\ stage[s].status = "pending"
           /\ task[TaskOf[s]].status \in OpenStatuses
           /\ DependenciesSatisfied(s)
           /\ RowInv(s, new[s], Append(issued[s], w))
           /\ new[s].status = "leased",
         LeaseEffect(w, granted, new)
  PROVE  RowsInv'
<1> USE StructureAssumption
<1> DEFINE claimed == {t \in Tasks : /\ task[t].status = "pending"
                                     /\ \E s \in granted : TaskOf[s] = t}
<1>1. /\ stage' = [s \in Stages |-> IF s \in granted THEN new[s] ELSE stage[s]]
      /\ issued' = [s \in Stages |->
                      IF s \in granted THEN Append(issued[s], w)
                                       ELSE issued[s]]
      /\ task' = [t \in Tasks |->
                    IF t \in claimed THEN [task[t] EXCEPT !.status = "leased"]
                                     ELSE task[t]]
      /\ event' = [t \in Tasks |->
                     IF t \in claimed THEN StatusEvent("pending", "leased")
                                      ELSE event[t]]
  BY DEF LeaseEffect
<1>3. ASSUME NEW s \in Stages
      PROVE  /\ RowInv(s, stage'[s], issued'[s])
             /\ issued'[s] \in Seq(Workers)
             /\ s \in granted => stage'[s].status = "leased"
             /\ s \notin granted => stage'[s] = stage[s]
  <2>1. /\ stage[s] \in StageRecords /\ issued[s] \in Seq(Workers)
        /\ RowInv(s, stage[s], issued[s])
    BY DEF RowsInv, RowTypes, Rows
  <2>2. CASE s \in granted
    BY <1>1, <2>1, <2>2
  <2>3. CASE s \notin granted
    BY <1>1, <2>1, <2>3
  <2> QED BY <2>2, <2>3
<1>4. ASSUME NEW t \in Tasks
      PROVE  /\ task'[t] \in TaskRecords /\ TaskRowInv(task'[t])
             /\ event'[t] \in Events /\ event'[t].current = task'[t].status
             /\ t \in claimed => task'[t].status = "leased"
             /\ t \notin claimed => task'[t] = task[t]
  <2>1. /\ task[t] \in TaskRecords /\ TaskRowInv(task[t])
        /\ event[t] \in Events /\ event[t].current = task[t].status
    BY DEF RowsInv, RowTypes, TaskRows, EventsReportStatus
  <2>2. CASE t \in claimed
    <3> DEFINE q == [task[t] EXCEPT !.status = "leased"]
    <3>1. task'[t] = q /\ event'[t] = StatusEvent("pending", "leased")
      BY <1>1, <2>2
    <3>2. "leased" \in TaskStatuses /\ task[t].status = "pending"
      BY <2>2 DEF TaskStatuses
    <3>3. q \in TaskRecords /\ q.status = "leased"
          /\ q.error = task[t].error /\ q.result = task[t].result
      BY <2>1, <3>2 DEF TaskRecords
    <3>4. ~task[t].error /\ ~task[t].result
      BY <2>1, <3>2 DEF TaskRowInv
    <3> HIDE DEF q
    <3>5. TaskRowInv(q)
      BY <3>3, <3>4 DEF TaskRowInv, TaskTerminalStatuses
    <3>6. StatusEvent("pending", "leased") \in Events
          /\ StatusEvent("pending", "leased").current = "leased"
      BY DEF StatusEvent, Events, TaskStatuses
    <3> QED BY <2>2, <3>1, <3>3, <3>5, <3>6
  <2>3. CASE t \notin claimed
    BY <1>1, <2>1, <2>3
  <2> QED BY <2>2, <2>3
<1>5. RowTypes' /\ Rows' /\ TaskRows' /\ EventsReportStatus'
  <2>1. \A s \in Stages : stage'[s] \in StageRecords
    BY <1>3 DEF RowInv
  <2>2. /\ stage' \in [Stages -> StageRecords]
        /\ issued' \in [Stages -> Seq(Workers)]
    BY <1>1, <1>3, <2>1
  <2>3. task' \in [Tasks -> TaskRecords] /\ event' \in [Tasks -> Events]
    BY <1>1, <1>4
  <2> QED
    BY <1>3, <1>4, <2>2, <2>3
       DEF RowTypes, Rows, TaskRows, EventsReportStatus
<1>6. DependenciesRespected'
  <2>1. ASSUME NEW s \in Stages,
               stage'[s].status \notin {"pending", "cancelled"},
               NEW d \in DependsOn[s]
        PROVE  stage'[d].status \in DoneStatuses
    <3>1. stage[d].status \in DoneStatuses
      <4>1. CASE s \in granted
        BY <2>1, <4>1 DEF DependenciesSatisfied
      <4>2. CASE s \notin granted
        BY <1>3, <2>1, <4>2
           DEF RowsInv, DependenciesRespected, DependenciesSatisfied
      <4> QED BY <4>1, <4>2
    <3>2. d \in Stages /\ d \notin granted
      BY <2>1, <3>1 DEF DoneStatuses
    <3> QED BY <1>3, <3>1, <3>2
  <2> QED BY <2>1 DEF DependenciesRespected, DependenciesSatisfied
<1>7. TaskStageAgreement'
  <2>1. ASSUME NEW s \in Stages
        PROVE  stage'[s].status \in AllowedUnder(task'[TaskOf[s]].status)
    <3> DEFINE t == TaskOf[s]
    <3>1. t \in Tasks /\ stage[s].status \in AllowedUnder(task[t].status)
      BY DEF RowsInv, TaskStageAgreement
    <3>2. CASE s \in granted
      <4>1. task[t].status \in OpenStatuses
        BY <3>2
      <4>2. task'[t].status \in {"leased", "running"}
        BY <1>4, <3>1, <3>2, <4>1 DEF OpenStatuses
      <4> QED BY <1>3, <3>2, <4>2 DEF AllowedUnder, OpenStatuses
    <3>3. CASE s \notin granted
      <4>1. CASE t \in claimed
        <5>1. task'[t].status = "leased" /\ task[t].status = "pending"
          BY <1>4, <4>1
        <5> QED BY <1>3, <3>1, <3>3, <5>1 DEF AllowedUnder
      <4>2. CASE t \notin claimed
        BY <1>3, <1>4, <3>1, <3>3, <4>2
      <4> QED BY <4>1, <4>2
    <3> QED BY <3>2, <3>3
  <2>2. ASSUME NEW t \in Tasks
        PROVE  \E s \in StagesOf(t) :
                 stage'[s].status \in RequiredUnder(task'[t].status)
    <3>1. CASE t \in claimed
      <4>1. PICK s \in granted : TaskOf[s] = t
        BY <3>1
      <4> QED BY <1>3, <1>4, <3>1, <4>1 DEF RequiredUnder, StagesOf
    <3>2. CASE t \notin claimed
      <4>1. task'[t] = task[t]
        BY <1>4, <3>2
      <4>2. PICK s \in StagesOf(t) :
              stage[s].status \in RequiredUnder(task[t].status)
        BY DEF RowsInv, TaskStageAgreement
      <4>3. CASE s \notin granted
        BY <1>3, <4>1, <4>2, <4>3 DEF StagesOf
      <4>4. CASE s \in granted
        <5>1. /\ stage[s].status = "pending"
              /\ task[t].status \in OpenStatuses /\ task[t].status # "pending"
          BY <3>2, <4>2, <4>4 DEF StagesOf
        <5>2. task[t].status = "running"
          BY <4>2, <5>1 DEF RequiredUnder, OpenStatuses
        <5> QED
          BY <1>3, <4>1, <4>2, <4>4, <5>2
             DEF RequiredUnder, OpenStatuses, StagesOf
      <4> QED BY <4>3, <4>4
    <3> QED BY <3>1, <3>2
  <2> QED BY <2>1, <2>2 DEF TaskStageAgreement
<1> QED BY <1>5, <1>6, <1>7 DEF RowsInv

LEMMA LeaseInv ==
  ASSUME Inv, NEW w \in Workers, NEW granted \in SUBSET Stages,
         NEW device \in [granted -> Devices], lease(w, granted, device)
  PROVE  Inv'
<1> USE StructureAssumption
<1> DEFINE new == [s \in granted |->
                     LeasedStage(stage[s], w, device[s], Len(issued[s]) + 1)]
<1>1. RowsInv /\ RegistryTypeOK
  BY InvParts
<1>2. RegistryTypeOK'
  <2>1. worker' = worker \/ worker' = [worker EXCEPT ![w].status = "busy"]
    BY DEF lease
  <2>2. "busy" \in WorkerStatuses /\ worker[w] \in WorkerRecords
    BY <1>1 DEF WorkerStatuses, RegistryTypeOK
  <2>3. [worker[w] EXCEPT !.status = "busy"] \in WorkerRecords
    BY <2>2, WorkerStatusWrite
  <2> QED BY <1>1, <2>1, <2>3 DEF RegistryTypeOK, lease
<1>3. ASSUME NEW s \in granted
      PROVE  /\ stage[s].status = "pending"
             /\ task[TaskOf[s]].status \in OpenStatuses
             /\ DependenciesSatisfied(s)
             /\ RowInv(s, new[s], Append(issued[s], w))
             /\ new[s].status = "leased"
  <2>1. /\ stage[s].status = "pending"
        /\ task[TaskOf[s]].status \in OpenStatuses
        /\ DependenciesSatisfied(s)
    BY DEF lease, Leasable
  <2>2. /\ stage[s] \in StageRecords /\ issued[s] \in Seq(Workers)
        /\ RowInv(s, stage[s], issued[s]) /\ now \in Nat
        /\ device[s] \in Devices /\ s \in Stages
    BY <1>1 DEF RegistryTypeOK, RowsInv, RowTypes, Rows
  <2>3. LET q == LeasedStage(stage[s], w, device[s], Len(issued[s]) + 1)
        IN RowInv(s, q, Append(issued[s], w)) /\ q.status = "leased"
    BY <2>1, <2>2, RowLeased
  <2> QED BY <2>1, <2>3
<1>4. LeaseEffect(w, granted, new)
  BY Zenon DEF lease, LeaseEffect
<1> HIDE DEF new
<1>5. RowsInv'
  BY <1>1, <1>3, <1>4, LeaseRows
<1> QED BY <1>2, <1>5, InvPartsNext

(* The task of an active stage is leased or running, and running when the  *)
(* stage is.                                                               *)
LEMMA ActiveTask ==
  ASSUME RowsInv, NEW s \in Stages
  PROVE  /\ Active(stage[s]) => task[TaskOf[s]].status \in {"leased", "running"}
         /\ stage[s].status = "running" => task[TaskOf[s]].status = "running"
<1>1. /\ task[TaskOf[s]].status \in TaskStatuses
      /\ stage[s].status \in AllowedUnder(task[TaskOf[s]].status)
  BY StructureAssumption DEF RowsInv, RowTypes, TaskStageAgreement, TaskRecords
<1> QED
  BY <1>1 DEF AllowedUnder, TaskStatuses, DoneStatuses, Active, ActiveStatuses

(* renew: the expiry of one row moves. *)
LEMMA RenewRows ==
  ASSUME RowsInv, NEW s \in Stages, NEW e \in Nat, e # NoTime,
         Active(stage[s]), stage' = [stage EXCEPT ![s].expires = e],
         task' = task, issued' = issued, event' = event
  PROVE  RowsInv'
<1> USE StructureAssumption
<1> DEFINE q == [stage[s] EXCEPT !.expires = e]
<1>1. stage' = [stage EXCEPT ![s] = q]
  OBVIOUS
<1>2. /\ stage \in [Stages -> StageRecords] /\ issued[s] \in Seq(Workers)
      /\ RowInv(s, stage[s], issued[s])
  BY DEF RowsInv, RowTypes, Rows
<1>3. RowInv(s, q, issued[s]) /\ q.status = stage[s].status
  BY <1>2, RowRenewed
<1> HIDE DEF q
<1>4. q \in StageRecords
  BY <1>3 DEF RowInv
<1>5. \A x \in Stages : /\ stage'[x].status = stage[x].status
                        /\ RowInv(x, stage'[x], issued'[x])
  BY <1>1, <1>2, <1>3 DEF RowsInv, Rows
<1>6. RowTypes'
  <2>1. stage' \in [Stages -> StageRecords]
    BY <1>1, <1>2, <1>4
  <2> QED BY <2>1 DEF RowsInv, RowTypes
<1>7. Rows' /\ TaskRows' /\ EventsReportStatus'
  BY <1>5 DEF RowsInv, Rows, TaskRows, EventsReportStatus
<1>8. TaskStageAgreement' /\ DependenciesRespected'
  BY <1>5
     DEF RowsInv, TaskStageAgreement, DependenciesRespected,
         DependenciesSatisfied, StagesOf
<1> QED BY <1>6, <1>7, <1>8 DEF RowsInv

LEMMA RenewInv ==
  ASSUME Inv, NEW s \in Stages, NEW w, NEW k, renew(s, w, k)
  PROVE  Inv'
<1> DEFINE e == now + LeaseDuration
<1>1. RowsInv /\ RegistryTypeOK
  BY InvParts
<1>2. e \in Nat /\ e # NoTime
  BY <1>1, LeaseAssumption DEF RegistryTypeOK, NoTime
<1>3. /\ Active(stage[s]) /\ stage' = [stage EXCEPT ![s].expires = e]
      /\ worker' = worker /\ now' = now /\ task' = task
      /\ issued' = issued /\ event' = event
  BY DEF renew
<1> HIDE DEF e
<1>4. RowsInv'
  BY <1>1, <1>2, <1>3, RenewRows
<1> QED BY <1>1, <1>3, <1>4, InvPartsNext DEF RegistryTypeOK

(* start: one leased row runs, and its task with it. *)
StartEffect(s) ==
  LET t == TaskOf[s]
  IN /\ stage' = [stage EXCEPT ![s].status = "running", ![s].started = TRUE]
     /\ IF task[t].status = "leased"
          THEN /\ task' = [task EXCEPT ![t].status = "running",
                                       ![t].started = TRUE]
               /\ event' = [event EXCEPT
                              ![t] = StatusEvent("leased", "running")]
          ELSE UNCHANGED <<task, event>>
     /\ UNCHANGED issued

LEMMA StartRows ==
  ASSUME RowsInv, NEW s \in Stages, stage[s].status = "leased", StartEffect(s)
  PROVE  RowsInv'
<1> USE StructureAssumption
<1> DEFINE t == TaskOf[s]
<1> DEFINE q == [stage[s] EXCEPT !.status = "running", !.started = TRUE]
<1> DEFINE p == [task[t] EXCEPT !.status = "running", !.started = TRUE]
<1>2. /\ stage \in [Stages -> StageRecords] /\ issued[s] \in Seq(Workers)
      /\ RowInv(s, stage[s], issued[s])
      /\ task[t] \in TaskRecords /\ TaskRowInv(task[t]) /\ t \in Tasks
      /\ task \in [Tasks -> TaskRecords] /\ event \in [Tasks -> Events]
  BY DEF RowsInv, RowTypes, Rows, TaskRows
<1>1. /\ stage[s].status = "leased" /\ stage' = [stage EXCEPT ![s] = q]
      /\ issued' = issued
  BY <1>2 DEF StartEffect
<1>3. RowInv(s, q, issued[s]) /\ q.status = "running"
  BY <1>1, <1>2, RowStarted
<1> HIDE DEF q
<1>4. q \in StageRecords
  BY <1>3 DEF RowInv
<1>5. /\ \A x \in Stages : RowInv(x, stage'[x], issued'[x])
      /\ stage'[s].status = "running"
      /\ \A x \in Stages \ {s} : stage'[x] = stage[x]
  BY <1>1, <1>2, <1>3 DEF RowsInv, Rows
<1>6. /\ task'[t].status = "running" /\ TaskRowInv(task'[t])
      /\ event'[t].current = "running"
      /\ task' \in [Tasks -> TaskRecords] /\ event' \in [Tasks -> Events]
      /\ \A x \in Tasks \ {t} : task'[x] = task[x] /\ event'[x] = event[x]
  <2>1. CASE task[t].status = "leased"
    <3>1. /\ task' = [task EXCEPT ![t] = p]
          /\ event' = [event EXCEPT ![t] = StatusEvent("leased", "running")]
      BY <2>1 DEF StartEffect
    <3>2. "running" \in TaskStatuses
      BY DEF TaskStatuses
    <3>3. /\ p \in TaskRecords /\ p.status = "running" /\ p.started = TRUE
          /\ p.error = task[t].error /\ p.result = task[t].result
      BY <1>2, <3>2 DEF TaskRecords
    <3>4. ~task[t].error /\ ~task[t].result
      BY <1>2, <2>1 DEF TaskRowInv
    <3> HIDE DEF p
    <3>5. TaskRowInv(p)
      BY <3>3, <3>4 DEF TaskRowInv, TaskTerminalStatuses
    <3>6. StatusEvent("leased", "running") \in Events
          /\ StatusEvent("leased", "running").current = "running"
      BY DEF StatusEvent, Events, TaskStatuses
    <3> HIDE DEF t
    <3> QED BY <1>2, <3>1, <3>3, <3>5, <3>6
  <2>2. CASE task[t].status # "leased"
    <3>1. task' = task /\ event' = event
      BY <2>2 DEF StartEffect
    <3>2. Active(stage[s])
      BY <1>1 DEF Active, ActiveStatuses
    <3>3. task[t].status = "running"
      BY <2>2, <3>2, ActiveTask
    <3> QED BY <1>2, <3>1, <3>3 DEF RowsInv, EventsReportStatus
  <2> QED BY <2>1, <2>2
<1>7. RowTypes' /\ Rows' /\ TaskRows' /\ EventsReportStatus'
  <2>1. stage' \in [Stages -> StageRecords]
    BY <1>1, <1>2, <1>4
  <2>2. RowTypes'
    BY <1>1, <1>6, <2>1 DEF RowsInv, RowTypes
  <2>3. Rows'
    BY <1>5 DEF Rows
  <2>4. TaskRows' /\ EventsReportStatus'
    BY <1>6 DEF RowsInv, TaskRows, EventsReportStatus
  <2> QED BY <2>2, <2>3, <2>4
<1>8. DependenciesRespected'
  <2>1. ASSUME NEW x \in Stages,
               stage'[x].status \notin {"pending", "cancelled"},
               NEW d \in DependsOn[x]
        PROVE  stage'[d].status \in DoneStatuses
    <3>1. stage[x].status \notin {"pending", "cancelled"}
      BY <1>1, <1>5, <2>1
    <3>2. stage[d].status \in DoneStatuses /\ d \in Stages
      BY <3>1 DEF RowsInv, DependenciesRespected, DependenciesSatisfied
    <3> QED BY <1>1, <1>5, <3>2 DEF DoneStatuses
  <2> QED BY <2>1 DEF DependenciesRespected, DependenciesSatisfied
<1>9. TaskStageAgreement'
  <2>1. task[t].status \in {"leased", "running"}
    BY <1>1, ActiveTask DEF Active, ActiveStatuses
  <2>2. ASSUME NEW x \in Stages
        PROVE  stage'[x].status \in AllowedUnder(task'[TaskOf[x]].status)
    <3>1. stage[x].status \in AllowedUnder(task[TaskOf[x]].status)
          /\ TaskOf[x] \in Tasks
      BY DEF RowsInv, TaskStageAgreement
    <3>2. CASE TaskOf[x] = t
      <4>1. stage[x].status \in OpenStatuses \cup DoneStatuses
        BY <2>1, <3>1, <3>2 DEF AllowedUnder, OpenStatuses
      <4>2. stage'[x].status \in OpenStatuses \cup DoneStatuses
        BY <1>5, <4>1 DEF OpenStatuses
      <4> QED BY <1>6, <3>2, <4>2 DEF AllowedUnder
    <3>3. CASE TaskOf[x] # t
      BY <1>5, <1>6, <3>1, <3>3
    <3> QED BY <3>2, <3>3
  <2>3. ASSUME NEW x \in Tasks
        PROVE  \E y \in StagesOf(x) :
                 stage'[y].status \in RequiredUnder(task'[x].status)
    <3>1. CASE x = t
      BY <1>5, <1>6, <3>1 DEF RequiredUnder, OpenStatuses, StagesOf
    <3>2. CASE x # t
      <4>1. PICK y \in StagesOf(x) :
              stage[y].status \in RequiredUnder(task[x].status)
        BY DEF RowsInv, TaskStageAgreement
      <4>2. y \in Stages /\ y # s
        BY <3>2, <4>1 DEF StagesOf
      <4> QED BY <1>5, <1>6, <3>2, <4>1, <4>2
    <3> QED BY <3>1, <3>2
  <2> QED BY <2>2, <2>3 DEF TaskStageAgreement
<1> QED BY <1>7, <1>8, <1>9 DEF RowsInv

LEMMA StartInv ==
  ASSUME Inv, NEW s \in Stages, NEW w, NEW k, start(s, w, k)
  PROVE  Inv'
<1>1. RowsInv /\ RegistryTypeOK
  BY InvParts
<1>2. stage[s].status = "leased" /\ StartEffect(s) /\ worker' = worker /\ now' = now
  BY DEF start, StartEffect
<1>3. RowsInv'
  BY <1>1, <1>2, StartRows
<1> QED BY <1>1, <1>2, <1>3, InvPartsNext DEF RegistryTypeOK

(* The end of attempts: the rows of the stages in ended, which were        *)
(* active, are succeeded, requeued, skipped or failed, and their tasks are *)
(* reconciled.                                                             *)
LEMMA EndRows ==
  ASSUME RowsInv, NEW ended \in SUBSET Stages, NEW st,
         st = [x \in Stages |-> st[x]],
         \A x \in ended :
           /\ Active(stage[x]) /\ RowInv(x, st[x], issued[x])
           /\ st[x].status \in {"pending", "skipped", "failed", "succeeded"},
         \A x \in Stages \ ended : st[x] = stage[x],
         ReconcileEffect(st, {TaskOf[x] : x \in ended}), issued' = issued
  PROVE  RowsInv'
<1> USE StructureAssumption
<1> DEFINE affected == {TaskOf[x] : x \in ended}
<1>1. /\ RowTypes /\ TaskRows /\ EventsReportStatus /\ TaskStageAgreement
  BY DEF RowsInv
<1>2. \A x \in Stages : RowInv(x, st[x], issued[x]) /\ st[x] \in StageRecords
  <2>1. \A x \in Stages : RowInv(x, st[x], issued[x])
    BY DEF RowsInv, Rows
  <2> QED BY <2>1 DEF RowInv
<1>3. st \in [Stages -> StageRecords]
  BY <1>2
<1>4. affected \in SUBSET Tasks
      /\ \A t \in affected : task[t].status \in {"leased", "running"}
  <2>1. \A x \in ended : task[TaskOf[x]].status \in {"leased", "running"}
    BY ActiveTask
  <2> QED BY <2>1
<1>5. Unsettled(st, affected)
  <2>1. ASSUME NEW x \in Stages, TaskOf[x] \in affected
        PROVE  /\ st[x].status \in OpenStatuses \cup DoneStatuses \cup {"failed"}
               /\ task[TaskOf[x]].status = "leased" => st[x].status # "running"
    <3>1. /\ task[TaskOf[x]].status \in {"leased", "running"}
          /\ stage[x].status \in AllowedUnder(task[TaskOf[x]].status)
      BY <1>1, <1>4, <2>1 DEF TaskStageAgreement
    <3> HIDE DEF affected
    <3>2. /\ stage[x].status \in OpenStatuses \cup DoneStatuses
          /\ task[TaskOf[x]].status = "leased" => stage[x].status # "running"
      BY <3>1 DEF AllowedUnder, OpenStatuses, DoneStatuses
    <3> QED BY <3>2 DEF OpenStatuses, DoneStatuses
  <2> QED BY <2>1 DEF Unsettled
<1>6. ASSUME NEW x \in Stages, st[x].status \notin {"pending", "cancelled"},
             NEW d \in DependsOn[x]
      PROVE  st[d].status \in DoneStatuses
  <2>1. stage[x].status \notin {"pending", "cancelled"}
    BY <1>6 DEF Active, ActiveStatuses
  <2>2. stage[d].status \in DoneStatuses /\ d \in Stages
    BY <2>1 DEF RowsInv, DependenciesRespected, DependenciesSatisfied
  <2>3. d \notin ended
    BY <2>2 DEF DoneStatuses, Active, ActiveStatuses
  <2> QED BY <2>2, <2>3
<1>7. \A x \in Stages : TaskOf[x] \notin affected => st[x] = stage[x]
  OBVIOUS
<1>8. ReconcileEffect(st, affected)
  OBVIOUS
<1> HIDE DEF affected
<1>9. /\ stage' \in [Stages -> StageRecords]
      /\ task' \in [Tasks -> TaskRecords]
      /\ event' \in [Tasks -> Events]
      /\ Rows' /\ TaskRows' /\ TaskStageAgreement'
      /\ DependenciesRespected' /\ EventsReportStatus'
  BY <1>1, <1>2, <1>3, <1>4, <1>5, <1>6, <1>7, <1>8, ReconcileRestores
<1> QED BY <1>1, <1>9 DEF RowsInv, RowTypes

(* complete: the row a running stage is left with when its attempt ends. *)
LEMMA RowEnded ==
  ASSUME NEW s \in Stages, NEW row \in StageRecords, NEW iss \in Seq(Workers),
         RowInv(s, row, iss), row.status = "running", now \in Nat,
         NEW w \in Workers, NEW k \in Nat, NEW request \in Requests
  PROVE  LET r == [row EXCEPT
                     !.completion = [worker |-> w, device |-> row.device,
                                     token |-> k, request |-> request]]
             q == IF request = "failed" THEN FailOrRetryStage(s, r)
                                        ELSE SucceedStage(r, request)
         IN /\ RowInv(s, q, iss)
            /\ q.status \in {"pending", "skipped", "failed", "succeeded"}
<1> DEFINE r == [row EXCEPT
                   !.completion = [worker |-> w, device |-> row.device,
                                   token |-> k, request |-> request]]
<1>1. r \in StageRecords /\ RowInv(s, r, iss) /\ r.status = "running"
  BY RowCompletion
<1> HIDE DEF r
<1>2. Active(r)
  BY <1>1 DEF Active, ActiveStatuses
<1>3. CASE request = "failed"
  BY <1>1, <1>2, <1>3, RowFailOrRetry DEF r
<1>4. CASE request # "failed"
  BY <1>1, <1>4, RowSucceeded DEF r
<1> QED BY <1>3, <1>4

LEMMA CompleteInv ==
  ASSUME Inv, NEW s \in Stages, NEW w \in Workers, NEW k \in Nat,
         NEW request \in Requests, complete(s, w, k, request)
  PROVE  Inv'
<1> USE StructureAssumption
<1> DEFINE r == [stage[s] EXCEPT
                   !.completion = [worker |-> w, device |-> stage[s].device,
                                   token |-> k, request |-> request]]
<1> DEFINE q == IF request = "failed" THEN FailOrRetryStage(s, r)
                                      ELSE SucceedStage(r, request)
<1> DEFINE st == [stage EXCEPT ![s] = q]
<1>0. RowsInv /\ RegistryTypeOK
  BY InvParts
<1>1. /\ stage[s].status = "running" /\ Reconcile(st, {TaskOf[s]})
      /\ worker' = Released(worker, stage', {w})
      /\ now' = now /\ issued' = issued
  BY DEF complete
<1>2. /\ stage \in [Stages -> StageRecords] /\ issued[s] \in Seq(Workers)
      /\ RowInv(s, stage[s], issued[s]) /\ now \in Nat
      /\ worker \in [Workers -> WorkerRecords]
  BY <1>0 DEF RowsInv, RowTypes, RegistryTypeOK, Rows
<1>3. /\ RowInv(s, q, issued[s])
      /\ q.status \in {"pending", "skipped", "failed", "succeeded"}
  BY <1>1, <1>2, RowEnded
<1> HIDE DEF q
<1>4. /\ st = [x \in Stages |-> st[x]] /\ st[s] = q
      /\ \A x \in Stages \ {s} : st[x] = stage[x]
  BY <1>2
<1>5. ReconcileEffect(st, {TaskOf[x] : x \in {s}})
  <2>1. {TaskOf[x] : x \in {s}} = {TaskOf[s]}
    OBVIOUS
  <2> QED BY <1>1, <2>1 DEF Reconcile, ReconcileEffect
<1> HIDE DEF st
<1>6. Active(stage[s])
  BY <1>1 DEF Active, ActiveStatuses
<1>7. RowsInv'
  <2> DEFINE ended == {s}
  <2>1. /\ ended \in SUBSET Stages
        /\ \A x \in ended :
             /\ Active(stage[x]) /\ RowInv(x, st[x], issued[x])
             /\ st[x].status \in {"pending", "skipped", "failed", "succeeded"}
        /\ \A x \in Stages \ ended : st[x] = stage[x]
        /\ ReconcileEffect(st, {TaskOf[x] : x \in ended})
    BY <1>3, <1>4, <1>5, <1>6
  <2> HIDE DEF ended
  <2> QED BY <1>0, <1>1, <1>4, <2>1, EndRows
<1>8. RegistryTypeOK'
  BY <1>1, <1>2, ReleaseTypes DEF RegistryTypeOK
<1> QED BY <1>7, <1>8, InvPartsNext

(* reconcile_workers: the expired leases are taken back and their tasks    *)
(* reconciled.                                                             *)
LEMMA ReconcileWorkersInv ==
  ASSUME Inv, NEW scan, reconcile_workers(scan)
  PROVE  Inv'
<1> DEFINE st == [x \in Stages |-> IF x \in Expired
                                     THEN FailOrRetryStage(x, stage[x])
                                     ELSE stage[x]]
<1>0. RowsInv /\ RegistryTypeOK
  BY InvParts
<1>1. /\ Reconcile(st, {TaskOf[x] : x \in Expired})
      /\ worker' = Released(OfflineSweep, stage',
                            {stage[x].worker : x \in Expired})
      /\ now' = now /\ issued' = issued
  BY DEF reconcile_workers
<1>2. /\ issued \in [Stages -> Seq(Workers)]
      /\ now \in Nat /\ stage \in [Stages -> StageRecords]
  BY <1>0 DEF RowsInv, RowTypes, RegistryTypeOK
<1>3. Expired \in SUBSET Stages /\ \A x \in Expired : Active(stage[x])
  BY DEF Expired
<1>4. ASSUME NEW x \in Expired
      PROVE  /\ Active(stage[x]) /\ RowInv(x, st[x], issued[x])
             /\ st[x].status \in {"pending", "skipped", "failed", "succeeded"}
  <2>1. /\ stage[x] \in StageRecords /\ issued[x] \in Seq(Workers)
        /\ RowInv(x, stage[x], issued[x]) /\ x \in Stages /\ Active(stage[x])
    BY <1>0, <1>2, <1>3 DEF RowsInv, Rows
  <2>2. st[x] = FailOrRetryStage(x, stage[x])
    BY <2>1
  <2> HIDE DEF st
  <2> QED BY <1>2, <2>1, <2>2, RowFailOrRetry
<1>5. st = [x \in Stages |-> st[x]] /\ \A x \in Stages \ Expired : st[x] = stage[x]
  OBVIOUS
<1>6. ReconcileEffect(st, {TaskOf[x] : x \in Expired})
  BY <1>1 DEF Reconcile, ReconcileEffect
<1> HIDE DEF st
<1>7. RowsInv'
  BY <1>0, <1>1, <1>3, <1>4, <1>5, <1>6, EndRows
<1>8. RegistryTypeOK'
  BY <1>0, <1>1, SweepTypes, ReleaseTypes DEF RegistryTypeOK
<1> QED BY <1>7, <1>8, InvPartsNext

(* An operation of the API that moves task t to status ts and the stages   *)
(* in changed to status ss, and leaves the rows of the others alone, keeps *)
(* the invariant when ss is what a stage may be, and one is, under ts.     *)
LEMMA TaskOperationRows ==
  ASSUME RowsInv, NEW t \in Tasks, NEW ts \in TaskStatuses,
         NEW changed \in SUBSET StagesOf(t), changed # {},
         NEW ss \in {"pending", "cancelled"}, NEW p \in TaskRecords,
         p.status = ts, TaskRowInv(p),
         task' = [task EXCEPT ![t] = p],
         event' = [event EXCEPT ![t] = StatusEvent(task[t].status, ts)],
         issued' = issued,
         stage' = [s \in Stages |-> stage'[s]],
         \A s \in changed :
           /\ RowInv(s, stage'[s], issued[s]) /\ stage'[s].status = ss
           /\ stage[s].status \notin DoneStatuses,
         \A s \in Stages \ changed : stage'[s] = stage[s],
         \A s \in StagesOf(t) \ changed : stage[s].status \in DoneStatuses,
         ss \in AllowedUnder(ts), DoneStatuses \subseteq AllowedUnder(ts),
         ss \in RequiredUnder(ts)
  PROVE  RowsInv'
<1> USE StructureAssumption
<1>1. /\ stage \in [Stages -> StageRecords] /\ task \in [Tasks -> TaskRecords]
      /\ event \in [Tasks -> Events] /\ changed \subseteq Stages
  BY DEF RowsInv, RowTypes, StagesOf
<1>2. \A s \in Stages : RowInv(s, stage'[s], issued'[s])
  BY DEF RowsInv, Rows
<1>3. RowTypes'
  <2>1. stage' \in [Stages -> StageRecords]
    BY <1>2 DEF RowInv
  <2>2. task[t].status \in TaskStatuses
    BY <1>1 DEF TaskRecords
  <2>3. StatusEvent(task[t].status, ts) \in Events
    BY <2>2 DEF StatusEvent, Events
  <2>4. task' \in [Tasks -> TaskRecords] /\ event' \in [Tasks -> Events]
    BY <1>1, <2>3
  <2> QED BY <2>1, <2>4 DEF RowsInv, RowTypes
<1>4. Rows' /\ TaskRows'
  BY <1>1, <1>2 DEF RowsInv, Rows, TaskRows
<1>5. EventsReportStatus'
  <2>1. event'[t].current = task'[t].status
    BY <1>1 DEF StatusEvent
  <2> QED BY <1>1, <2>1 DEF RowsInv, EventsReportStatus
<1>6. DependenciesRespected'
  <2>1. ASSUME NEW s \in Stages,
               stage'[s].status \notin {"pending", "cancelled"},
               NEW d \in DependsOn[s]
        PROVE  stage'[d].status \in DoneStatuses
    <3>1. s \notin changed /\ stage'[s] = stage[s]
      BY <2>1
    <3>2. stage[d].status \in DoneStatuses /\ d \in Stages
      BY <2>1, <3>1 DEF RowsInv, DependenciesRespected, DependenciesSatisfied
    <3> QED BY <3>2
  <2> QED BY <2>1 DEF DependenciesRespected, DependenciesSatisfied
<1>7. TaskStageAgreement'
  <2>1. \A x \in Tasks \ {t} : task'[x] = task[x]
    BY <1>1
  <2>2. task'[t].status = ts
    BY <1>1
  <2>3. ASSUME NEW s \in Stages
        PROVE  stage'[s].status \in AllowedUnder(task'[TaskOf[s]].status)
    <3>1. CASE TaskOf[s] = t
      BY <2>2, <3>1 DEF StagesOf
    <3>2. CASE TaskOf[s] # t
      BY <2>1, <3>2 DEF RowsInv, TaskStageAgreement, StagesOf
    <3> QED BY <3>1, <3>2
  <2>4. ASSUME NEW x \in Tasks
        PROVE  \E s \in StagesOf(x) :
                 stage'[s].status \in RequiredUnder(task'[x].status)
    <3>1. CASE x = t
      BY <2>2, <3>1
    <3>2. CASE x # t
      <4>1. PICK s \in StagesOf(x) :
              stage[s].status \in RequiredUnder(task[x].status)
        BY DEF RowsInv, TaskStageAgreement
      <4>2. s \in Stages \ changed
        BY <3>2, <4>1 DEF StagesOf
      <4> QED BY <2>1, <3>2, <4>1, <4>2
    <3> QED BY <3>1, <3>2
  <2> QED BY <2>3, <2>4 DEF TaskStageAgreement
<1> QED BY <1>3, <1>4, <1>5, <1>6, <1>7 DEF RowsInv

(* cancel: the open stages of an open task end with it. *)
LEMMA CancelRows ==
  ASSUME RowsInv, NEW t \in Tasks, cancel(t)
  PROVE  RowsInv'
<1> DEFINE p == [task[t] EXCEPT !.status = "cancelled", !.completed = TRUE]
<1> DEFINE changed == StagesToCancel(t)
<1>1. /\ task[t].status \notin TaskTerminalStatuses
      /\ task' = [task EXCEPT ![t] = p]
      /\ event' = [event EXCEPT ![t] = StatusEvent(task[t].status, "cancelled")]
      /\ issued' = issued
      /\ stage' = [s \in Stages |-> IF s \in changed
                                       THEN CancelledStage(stage[s])
                                       ELSE stage[s]]
  BY DEF cancel
<1>2. /\ task[t] \in TaskRecords /\ TaskRowInv(task[t])
      /\ "cancelled" \in TaskStatuses
  BY DEF RowsInv, RowTypes, TaskRows, TaskStatuses
<1>3. task[t].status \in OpenStatuses
  BY <1>1, <1>2 DEF TaskRecords, TaskStatuses, TaskTerminalStatuses, OpenStatuses
<1>4. /\ p \in TaskRecords /\ p.status = "cancelled" /\ p.completed = TRUE
      /\ p.error = task[t].error /\ p.result = task[t].result
  BY <1>2 DEF TaskRecords
<1>5. ~task[t].error /\ ~task[t].result
  BY <1>2, <1>3 DEF TaskRowInv, OpenStatuses
<1> HIDE DEF p
<1>6. TaskRowInv(p)
  BY <1>4, <1>5 DEF TaskRowInv, TaskTerminalStatuses
<1>7. changed \subseteq StagesOf(t) /\ StagesOf(t) \subseteq Stages
      /\ \A s \in changed : stage[s].status \in OpenStatuses
  BY DEF StagesToCancel, StagesOf
<1>8. \A s \in StagesOf(t) : stage[s].status \in OpenStatuses \cup DoneStatuses
  BY <1>3 DEF RowsInv, TaskStageAgreement, AllowedUnder, OpenStatuses, StagesOf
<1>9. changed # {}
  <2>1. PICK s \in StagesOf(t) :
          stage[s].status \in RequiredUnder(task[t].status)
    BY DEF RowsInv, TaskStageAgreement
  <2>2. stage[s].status \in OpenStatuses
    BY <1>3, <2>1 DEF RequiredUnder, OpenStatuses
  <2> QED BY <2>1, <2>2 DEF StagesToCancel
<1>10. ASSUME NEW s \in changed
       PROVE  /\ RowInv(s, stage'[s], issued[s]) /\ stage'[s].status = "cancelled"
              /\ stage[s].status \notin DoneStatuses
  <2>1. stage[s] \in StageRecords /\ issued[s] \in Seq(Workers)
        /\ RowInv(s, stage[s], issued[s]) /\ s \in Stages
    BY <1>7 DEF RowsInv, RowTypes, Rows
  <2>2. stage'[s] = CancelledStage(stage[s])
    BY <1>1, <1>7
  <2>3. stage[s].status \in OpenStatuses
    BY <1>7
  <2> QED BY <2>1, <2>2, <2>3, RowCancelled DEF OpenStatuses, DoneStatuses
<1>11. \A s \in Stages \ changed : stage'[s] = stage[s]
  BY <1>1
<1>12. \A s \in StagesOf(t) \ changed : stage[s].status \in DoneStatuses
  BY <1>8 DEF StagesToCancel
<1>13. stage' = [s \in Stages |-> stage'[s]]
  BY <1>1
<1>14. /\ "cancelled" \in AllowedUnder("cancelled")
       /\ DoneStatuses \subseteq AllowedUnder("cancelled")
       /\ "cancelled" \in RequiredUnder("cancelled")
  BY DEF AllowedUnder, RequiredUnder
<1> HIDE DEF changed
<1> QED
  BY <1>1, <1>2, <1>4, <1>6, <1>7, <1>9, <1>10, <1>11, <1>12, <1>13, <1>14,
     TaskOperationRows

(* retry: the failed and cancelled stages of an ended task wait again. *)
LEMMA RetryRows ==
  ASSUME RowsInv, NEW t \in Tasks, retry(t)
  PROVE  RowsInv'
<1> DEFINE p == [status |-> "pending", started |-> FALSE, completed |-> FALSE,
                 error |-> FALSE, result |-> FALSE]
<1> DEFINE changed == StagesToRetry(t)
<1>1. /\ task[t].status \in {"failed", "cancelled"}
      /\ task' = [task EXCEPT ![t] = p]
      /\ event' = [event EXCEPT ![t] = StatusEvent(task[t].status, "pending")]
      /\ issued' = issued
      /\ stage' = [s \in Stages |-> IF s \in changed
                                       THEN RetriedStage(stage[s])
                                       ELSE stage[s]]
  BY DEF retry
<1>2. /\ p \in TaskRecords /\ p.status = "pending" /\ TaskRowInv(p)
      /\ "pending" \in TaskStatuses
  BY DEF TaskRecords, TaskStatuses, TaskRowInv, TaskTerminalStatuses
<1> HIDE DEF p
<1>3. changed \subseteq StagesOf(t) /\ StagesOf(t) \subseteq Stages
      /\ \A s \in changed : stage[s].status \in {"failed", "cancelled"}
  BY DEF StagesToRetry, StagesOf
<1>4. \A s \in StagesOf(t) :
        stage[s].status \in {"failed", "cancelled"} \cup DoneStatuses
  BY <1>1 DEF RowsInv, TaskStageAgreement, AllowedUnder, StagesOf
<1>5. changed # {}
  <2>1. PICK s \in StagesOf(t) :
          stage[s].status \in RequiredUnder(task[t].status)
    BY DEF RowsInv, TaskStageAgreement
  <2>2. stage[s].status \in {"failed", "cancelled"}
    BY <1>1, <2>1 DEF RequiredUnder
  <2> QED BY <2>1, <2>2 DEF StagesToRetry
<1>6. ASSUME NEW s \in changed
      PROVE  /\ RowInv(s, stage'[s], issued[s]) /\ stage'[s].status = "pending"
             /\ stage[s].status \notin DoneStatuses
  <2>1. stage[s] \in StageRecords /\ issued[s] \in Seq(Workers)
        /\ RowInv(s, stage[s], issued[s]) /\ s \in Stages
    BY <1>3 DEF RowsInv, RowTypes, Rows
  <2>2. stage'[s] = RetriedStage(stage[s])
    BY <1>1, <1>3
  <2>3. stage[s].status \in {"failed", "cancelled"}
    BY <1>3
  <2> QED BY <2>1, <2>2, <2>3, RowRetried DEF DoneStatuses
<1>7. \A s \in Stages \ changed : stage'[s] = stage[s]
  BY <1>1
<1>8. \A s \in StagesOf(t) \ changed : stage[s].status \in DoneStatuses
  BY <1>4 DEF StagesToRetry
<1>9. stage' = [s \in Stages |-> stage'[s]]
  BY <1>1
<1>10. /\ "pending" \in AllowedUnder("pending")
       /\ DoneStatuses \subseteq AllowedUnder("pending")
       /\ "pending" \in RequiredUnder("pending")
  BY DEF AllowedUnder, RequiredUnder
<1> HIDE DEF changed
<1> QED
  BY <1>1, <1>2, <1>3, <1>5, <1>6, <1>7, <1>8, <1>9, <1>10, TaskOperationRows

LEMMA TaskOperationInv ==
  ASSUME Inv, NEW t \in Tasks, cancel(t) \/ retry(t)
  PROVE  Inv'
<1>1. RowsInv /\ RegistryTypeOK
  BY InvParts
<1>2. RowsInv'
  BY <1>1, CancelRows, RetryRows
<1>3. worker' = worker /\ now' = now
  BY DEF cancel, retry
<1> QED BY <1>1, <1>2, <1>3, InvPartsNext DEF RegistryTypeOK

-----------------------------------------------------------------------------
(* Every step of the control plane keeps the invariant. *)
LEMMA NextInv ==
  ASSUME Inv, [Next]_vars
  PROVE  Inv'
<1>1. CASE RegistryNext /\ UNCHANGED schedulerVars
  <2>1. RegistryTypeOK'
    BY <1>1, RegistryTypes DEF Inv, TypeOK
  <2> QED
    BY <1>1, <2>1
       DEF schedulerVars, Inv, TypeOK, Rows, TaskRows, TaskStageAgreement,
           DependenciesRespected, DependenciesSatisfied, EventsReportStatus
<1>2. ASSUME NEW w \in Workers, Poll(w)
      PROVE  Inv'
  BY <1>2, LeaseInv DEF Poll
<1>3. ASSUME NEW s \in Stages, WorkerCall(s)
      PROVE  Inv'
  <2>1. PICK k \in DOMAIN issued[s] :
          \/ renew(s, issued[s][k], k)
          \/ start(s, issued[s][k], k)
          \/ \E request \in Requests : complete(s, issued[s][k], k, request)
    BY <1>3 DEF WorkerCall
  <2>2. issued[s] \in Seq(Workers)
    BY DEF Inv, TypeOK
  <2>3. k \in Nat /\ issued[s][k] \in Workers
    BY <2>2
  <2> QED BY <2>1, <2>3, RenewInv, StartInv, CompleteInv
<1>4. CASE ReconcileEndpoint
  BY <1>4, ReconcileWorkersInv DEF ReconcileEndpoint
<1>5. ASSUME NEW t \in Tasks, cancel(t) \/ retry(t)
      PROVE  Inv'
  BY <1>5, TaskOperationInv
<1>6. CASE UNCHANGED vars
  BY <1>6
     DEF vars, Inv, TypeOK, RegistryTypeOK, Rows, TaskRows, TaskStageAgreement,
         DependenciesRespected, DependenciesSatisfied, EventsReportStatus
<1> QED BY <1>1, <1>2, <1>3, <1>4, <1>5, <1>6 DEF Next

(* The invariant holds in every state of the control plane. *)
THEOREM Invariance == Spec => []Inv
<1>1. Init => Inv
  BY InitInv
<1>2. Inv /\ [Next]_vars => Inv'
  BY NextInv
<1> QED BY <1>1, <1>2, PTL DEF Spec

(* The rows always hold values of their columns' types. *)
THEOREM TypeCorrect == Spec => []TypeOK
<1>1. Inv => TypeOK
  BY DEF Inv
<1> QED BY <1>1, Invariance, PTL

(* A lease is exclusive and fenced, for any number of workers and stages:  *)
(* _require_valid_lease admits nobody but the last holder.                 *)
THEOREM Fencing == Spec => []LeaseFencing
<1>1. Inv => LeaseFencing
  BY DEF Inv, Rows, RowInv, LeaseFencing
<1> QED BY <1>1, Invariance, PTL

(* _reconcile_task keeps the status of a task and of its stages in         *)
(* agreement, whichever handlers run.                                      *)
THEOREM Agreement == Spec => []TaskStageAgreement
<1>1. Inv => TaskStageAgreement
  BY DEF Inv
<1> QED BY <1>1, Invariance, PTL

(* A stage never has more attempts than its retry policy allows. *)
THEOREM AttemptBudget == Spec => []AttemptsWithinBudget
<1>1. Inv => AttemptsWithinBudget
  BY DEF Inv, Rows, RowInv, AttemptsWithinBudget
<1> QED BY <1>1, Invariance, PTL

(* No stage is leased before what it depends on is succeeded or skipped,   *)
(* for every acyclic or even cyclic dependency graph.                      *)
THEOREM Dependencies == Spec => []DependenciesRespected
<1>1. Inv => DependenciesRespected
  BY DEF Inv
<1> QED BY <1>1, Invariance, PTL

(* The validators of StageDetail and TaskDetail accept every committed     *)
(* row.                                                                    *)
THEOREM RowsReadable == Spec => []DetailsValid
<1>1. Inv => DetailsValid
  BY DEF Inv, Rows, RowInv, TaskRows, TaskRowInv, DetailsValid,
         StageDetailValid, TaskDetailValid
<1> QED BY <1>1, Invariance, PTL

(* The last published event tells the status of its task. *)
THEOREM EventsFaithful == Spec => []EventsReportStatus
<1>1. Inv => EventsReportStatus
  BY DEF Inv
<1> QED BY <1>1, Invariance, PTL

(* complete is never refused by require_task_transition once the lease is  *)
(* found valid: the task of a running stage is running.                    *)
THEOREM CompletionRecorded == Spec => []CompletionNeverRaises
<1>1. ASSUME Inv
      PROVE  CompletionNeverRaises
  <2>1. /\ can_transition_task("running", "failed")
        /\ can_transition_task("running", "succeeded")
    BY DEF can_transition_task, TASK_TRANSITIONS, TaskStatuses
  <2>2. ASSUME NEW s \in Stages, stage[s].status = "running", NEW st
        PROVE  TransitionsAllowed(st, {TaskOf[s]})
    <3>1. task[TaskOf[s]].status = "running"
      BY <1>1, <2>2, InvParts, ActiveTask
    <3> QED BY <2>1, <3>1 DEF TransitionsAllowed
  <2> QED BY <2>2 DEF CompletionNeverRaises
<1> QED BY <1>1, Invariance, PTL

-----------------------------------------------------------------------------
(* What the steps of the control plane never do.  Each action property is  *)
(* shown of one step from a state of the invariant.                        *)

(* _reconcile_task writes a stage row only to cancel it. *)
LEMMA ReconciledRow ==
  ASSUME NEW st, NEW affected, Reconcile(st, affected),
         NEW s \in Stages, st[s] \in StageRecords
  PROVE  \/ stage'[s] = st[s]
         \/ st[s].status \in OpenStatuses /\ stage'[s].status = "cancelled"
<1>1. stage'[s] = IF /\ TaskOf[s] \in affected
                     /\ HasFailed(st, TaskOf[s])
                     /\ st[s].status \in OpenStatuses
                    THEN CancelledSibling(st[s])
                    ELSE st[s]
  BY Zenon DEF Reconcile, ReconciledStages
<1>2. CancelledSibling(st[s]).status = "cancelled"
  BY DEF CancelledSibling, ClearLease, StageRecords
<1> QED BY <1>1, <1>2

(* The status in which the end of an attempt leaves a stage. *)
LEMMA FailedAttempt ==
  ASSUME NEW s \in Stages, NEW r \in StageRecords
  PROVE  FailOrRetryStage(s, r).status \in {"pending", "skipped", "failed"}
BY DEF FailOrRetryStage, Requeued, ClearLease, StageRecords

LEMMA SucceededAttempt ==
  ASSUME NEW r \in StageRecords, NEW request
  PROVE  /\ SucceedStage(r, request).status = "succeeded"
         /\ SucceedStage(r, request).completion = r.completion
BY DEF SucceedStage, ClearLease, StageRecords

(* What complete makes of the stages: its own one ends, by its own request *)
(* only, and the others are left alone or cancelled.                       *)
LEMMA CompletedRows ==
  ASSUME Inv, NEW s \in Stages, NEW w \in Workers, NEW k \in Nat,
         NEW request \in Requests, complete(s, w, k, request)
  PROVE  /\ \A x \in Stages \ {s} :
              \/ stage'[x] = stage[x]
              \/ stage[x].status \in OpenStatuses /\ stage'[x].status = "cancelled"
         /\ stage[s].status = "running"
         /\ stage'[s].status \in
              {"pending", "skipped", "failed", "succeeded", "cancelled"}
         /\ stage'[s].status = "succeeded" =>
              stage'[s].completion.worker = w /\ stage'[s].completion.token = k
<1> DEFINE r == [stage[s] EXCEPT
                   !.completion = [worker |-> w, device |-> stage[s].device,
                                   token |-> k, request |-> request]]
<1> DEFINE q == IF request = "failed" THEN FailOrRetryStage(s, r)
                                      ELSE SucceedStage(r, request)
<1> DEFINE st == [stage EXCEPT ![s] = q]
<1>1. /\ stage[s].status = "running" /\ Reconcile(st, {TaskOf[s]})
      /\ stage \in [Stages -> StageRecords] /\ issued[s] \in Seq(Workers)
      /\ RowInv(s, stage[s], issued[s]) /\ now \in Nat
  BY DEF complete, Inv, TypeOK, RegistryTypeOK, Rows
<1>2. /\ r \in StageRecords /\ r.status = "running"
      /\ RowInv(s, r, issued[s])
  BY <1>1, RowCompletion
<1>3. r.completion.worker = w /\ r.completion.token = k
  BY <1>1 DEF StageRecords
<1> HIDE DEF r
<1>4. /\ q \in StageRecords
      /\ q.status \in {"pending", "skipped", "failed", "succeeded"}
      /\ q.status = "succeeded" =>
           q.completion.worker = w /\ q.completion.token = k
  <2>1. Active(r)
    BY <1>2 DEF Active, ActiveStatuses
  <2>2. CASE request = "failed"
    BY <1>1, <1>2, <2>1, <2>2, RowFailOrRetry, FailedAttempt
  <2>3. CASE request # "failed"
    BY <1>1, <1>2, <1>3, <2>3, RowSucceeded, SucceededAttempt
  <2> QED BY <2>2, <2>3
<1> HIDE DEF q
<1>5. st[s] = q /\ \A x \in Stages \ {s} : st[x] = stage[x]
  BY <1>1
<1> HIDE DEF st
<1>6. ASSUME NEW x \in Stages
      PROVE  \/ stage'[x] = st[x]
             \/ st[x].status \in OpenStatuses /\ stage'[x].status = "cancelled"
  <2>1. st[x] \in StageRecords
    BY <1>1, <1>4, <1>5
  <2> QED BY <1>1, <2>1, ReconciledRow
<1> QED BY <1>1, <1>4, <1>5, <1>6

(* What reconcile_workers makes of them. *)
LEMMA RequeuedRows ==
  ASSUME Inv, NEW scan, reconcile_workers(scan), NEW x \in Stages
  PROVE  \/ stage'[x] = stage[x]
         \/ stage[x].status \in OpenStatuses /\ stage'[x].status = "cancelled"
         \/ /\ Active(stage[x])
            /\ stage'[x].status \in {"pending", "skipped", "failed", "cancelled"}
<1> DEFINE st == [s \in Stages |-> IF s \in Expired
                                     THEN FailOrRetryStage(s, stage[s])
                                     ELSE stage[s]]
<1>1. /\ Reconcile(st, {TaskOf[s] : s \in Expired})
      /\ stage[x] \in StageRecords /\ issued[x] \in Seq(Workers)
      /\ RowInv(x, stage[x], issued[x]) /\ now \in Nat
  BY DEF reconcile_workers, Inv, TypeOK, RegistryTypeOK, Rows
<1>2. CASE x \in Expired
  <2>1. Active(stage[x])
    BY <1>2 DEF Expired
  <2>2. /\ st[x] = FailOrRetryStage(x, stage[x])
        /\ FailOrRetryStage(x, stage[x]) \in StageRecords
        /\ FailOrRetryStage(x, stage[x]).status \in {"pending", "skipped", "failed"}
    BY <1>1, <1>2, <2>1, RowFailOrRetry, FailedAttempt
  <2> HIDE DEF st
  <2>3. \/ stage'[x] = st[x]
        \/ st[x].status \in OpenStatuses /\ stage'[x].status = "cancelled"
    BY <1>1, <2>2, ReconciledRow
  <2> QED BY <2>1, <2>2, <2>3
<1>3. CASE x \notin Expired
  <2>1. st[x] = stage[x]
    BY <1>3
  <2> HIDE DEF st
  <2> QED BY <1>1, <2>1, ReconciledRow
<1> QED BY <1>2, <1>3

(* How the status of a stage may change in a step. *)
LEMMA StageSteps ==
  ASSUME Inv, Next, NEW x \in Stages, stage'[x].status # stage[x].status
  PROVE  \/ stage[x].status = "pending" /\ stage'[x].status = "leased"
         \/ stage[x].status = "leased" /\ stage'[x].status = "running"
         \/ stage[x].status \in OpenStatuses /\ stage'[x].status = "cancelled"
         \/ /\ Active(stage[x])
            /\ stage'[x].status \in {"pending", "skipped", "failed", "cancelled"}
         \/ /\ stage[x].status \in {"failed", "cancelled"}
            /\ stage'[x].status = "pending"
         \/ /\ stage[x].status = "running" /\ stage'[x].status = "succeeded"
            /\ \E w \in Workers, k \in Nat :
                 /\ RequireValidLease(x, w, k)
                 /\ stage'[x].completion.worker = w /\ stage'[x].completion.token = k
<1>0. /\ stage \in [Stages -> StageRecords] /\ stage[x] \in StageRecords
      /\ issued \in [Stages -> Seq(Workers)]
  BY DEF Inv, TypeOK
<1>1. ASSUME NEW w \in Workers, Poll(w)
      PROVE  stage[x].status = "pending" /\ stage'[x].status = "leased"
  <2>1. PICK granted \in SUBSET Stages : \E device \in [granted -> Devices] :
          lease(w, granted, device)
    BY <1>1 DEF Poll
  <2>2. PICK device \in [granted -> Devices] : lease(w, granted, device)
    BY <2>1
  <2>3. /\ \A s \in granted : stage[s].status = "pending"
        /\ stage'[x] = IF x \in granted
                         THEN LeasedStage(stage[x], w, device[x], Len(issued[x]) + 1)
                         ELSE stage[x]
    BY <2>2 DEF lease, Leasable
  <2>4. LeasedStage(stage[x], w, device[x], Len(issued[x]) + 1).status = "leased"
    BY <1>0 DEF LeasedStage, StageRecords
  <2> QED BY <2>3, <2>4
<1>2. ASSUME NEW s \in Stages, NEW w \in Workers, NEW k \in Nat, renew(s, w, k)
      PROVE  FALSE
  <2>1. stage' = [stage EXCEPT ![s].expires = now + LeaseDuration]
    BY <1>2 DEF renew
  <2> QED BY <1>0, <2>1 DEF StageRecords
<1>3. ASSUME NEW s \in Stages, NEW w \in Workers, NEW k \in Nat, start(s, w, k)
      PROVE  stage[x].status = "leased" /\ stage'[x].status = "running"
  <2>1. /\ stage[s].status = "leased"
        /\ stage' = [stage EXCEPT ![s].status = "running", ![s].started = TRUE]
    BY <1>3 DEF start
  <2> QED BY <1>0, <2>1 DEF StageRecords
<1>4. ASSUME NEW s \in Stages, NEW w \in Workers, NEW k \in Nat,
             NEW request \in Requests, complete(s, w, k, request)
      PROVE  \/ stage[x].status \in OpenStatuses /\ stage'[x].status = "cancelled"
             \/ /\ Active(stage[x])
                /\ stage'[x].status \in {"pending", "skipped", "failed", "cancelled"}
             \/ /\ stage[x].status = "running" /\ stage'[x].status = "succeeded"
                /\ RequireValidLease(x, w, k)
                /\ stage'[x].completion.worker = w /\ stage'[x].completion.token = k
  <2>1. RequireValidLease(s, w, k)
    BY <1>4 DEF complete
  <2> QED BY <1>4, <2>1, CompletedRows DEF Active, ActiveStatuses
<1>5. ASSUME NEW s \in Stages, WorkerCall(s)
      PROVE  \E w \in Workers, k \in Nat :
               \/ renew(s, w, k) \/ start(s, w, k)
               \/ \E request \in Requests : complete(s, w, k, request)
  <2>1. PICK k \in DOMAIN issued[s] :
          \/ renew(s, issued[s][k], k) \/ start(s, issued[s][k], k)
          \/ \E request \in Requests : complete(s, issued[s][k], k, request)
    BY <1>5 DEF WorkerCall
  <2>2. k \in Nat /\ issued[s][k] \in Workers
    BY <1>0
  <2> QED BY <2>1, <2>2
<1>6. ASSUME NEW t \in Tasks, cancel(t)
      PROVE  stage[x].status \in OpenStatuses /\ stage'[x].status = "cancelled"
  <2>1. stage'[x] = IF x \in StagesToCancel(t) THEN CancelledStage(stage[x])
                                               ELSE stage[x]
    BY <1>6 DEF cancel
  <2>2. CancelledStage(stage[x]).status = "cancelled"
    BY <1>0 DEF CancelledStage, StageRecords
  <2> QED BY <2>1, <2>2 DEF StagesToCancel
<1>7. ASSUME NEW t \in Tasks, retry(t)
      PROVE  /\ stage[x].status \in {"failed", "cancelled"}
             /\ stage'[x].status = "pending"
  <2>1. stage'[x] = IF x \in StagesToRetry(t) THEN RetriedStage(stage[x])
                                              ELSE stage[x]
    BY <1>7 DEF retry
  <2>2. RetriedStage(stage[x]).status = "pending"
    BY <1>0 DEF RetriedStage, StageRecords
  <2> QED BY <2>1, <2>2 DEF StagesToRetry
<1>8. CASE RegistryNext /\ UNCHANGED schedulerVars
  BY <1>8 DEF schedulerVars
<1>9. CASE ReconcileEndpoint
  BY <1>9, RequeuedRows DEF ReconcileEndpoint
<1>10. ASSUME NEW s \in Stages, WorkerCall(s)
       PROVE  \/ stage[x].status = "leased" /\ stage'[x].status = "running"
              \/ stage[x].status \in OpenStatuses /\ stage'[x].status = "cancelled"
              \/ /\ Active(stage[x])
                 /\ stage'[x].status \in {"pending", "skipped", "failed", "cancelled"}
              \/ /\ stage[x].status = "running" /\ stage'[x].status = "succeeded"
                 /\ \E w \in Workers, k \in Nat :
                      /\ RequireValidLease(x, w, k)
                      /\ stage'[x].completion.worker = w
                      /\ stage'[x].completion.token = k
  <2>1. PICK w \in Workers, k \in Nat :
          \/ renew(s, w, k) \/ start(s, w, k)
          \/ \E request \in Requests : complete(s, w, k, request)
    BY <1>5, <1>10
  <2> QED BY <1>2, <1>3, <1>4, <2>1
<1> QED BY <1>1, <1>6, <1>7, <1>8, <1>9, <1>10 DEF Next

(* How the status of a task may change in a step, and what is published.   *)
LEMMA ReconciledTaskSteps ==
  ASSUME Inv, NEW st, NEW affected, Reconcile(st, affected), NEW t \in Tasks
  PROVE  /\ task'[t].status # task[t].status =>
              can_transition_task(task[t].status, task'[t].status)
         /\ event'[t] # event[t] => event'[t].previous = task[t].status
<1> USE DEF Reconcile
<1>1. task[t] \in TaskRecords
  BY DEF Inv, TypeOK
<1>2. task'[t] = IF t \in affected THEN ReconciledTask(st, t, task[t]) ELSE task[t]
  OBVIOUS
<1>3. event'[t] # event[t] => event'[t] = StatusEvent(task[t].status, task'[t].status)
  OBVIOUS
<1>4. ASSUME t \in affected
      PROVE  task'[t].status # task[t].status =>
               can_transition_task(task[t].status, task'[t].status)
  <2>1. HasFailed(st, t) \/ AllDone(st, t) =>
          can_transition_task(task[t].status,
                              IF HasFailed(st, t) THEN "failed" ELSE "succeeded")
    BY <1>4 DEF TransitionsAllowed
  <2>2. CASE HasFailed(st, t)
    <3>1. task'[t] = [task[t] EXCEPT !.status = "failed", !.error = TRUE,
                                     !.completed = TRUE]
      BY <1>2, <1>4, <2>2 DEF ReconciledTask
    <3> QED BY <1>1, <2>1, <2>2, <3>1 DEF TaskRecords
  <2>3. CASE ~HasFailed(st, t) /\ AllDone(st, t)
    <3> DEFINE result == \E s \in StagesOf(t) : st[s].result
    <3>1. task'[t] = [task[t] EXCEPT !.status = "succeeded", !.completed = TRUE,
                                     !.result = result]
      BY <1>2, <1>4, <2>3 DEF ReconciledTask
    <3> HIDE DEF result
    <3> QED BY <1>1, <2>1, <2>3, <3>1 DEF TaskRecords
  <2>4. CASE ~HasFailed(st, t) /\ ~AllDone(st, t)
    <3>1. \/ task'[t] = task[t]
          \/ /\ task[t].status = "leased"
             /\ task'[t] = [task[t] EXCEPT !.status = "pending"]
      BY <1>2, <1>4, <2>4 DEF ReconciledTask
    <3>2. can_transition_task("leased", "pending")
      BY DEF can_transition_task, TASK_TRANSITIONS, TaskStatuses
    <3> QED BY <1>1, <3>1, <3>2 DEF TaskRecords
  <2> QED BY <2>2, <2>3, <2>4
<1> QED BY <1>2, <1>3, <1>4 DEF StatusEvent

LEMMA TaskSteps ==
  ASSUME Inv, Next, NEW t \in Tasks
  PROVE  /\ task'[t].status # task[t].status =>
              can_transition_task(task[t].status, task'[t].status)
         /\ event'[t] # event[t] => event'[t].previous = task[t].status
<1>0. task \in [Tasks -> TaskRecords] /\ event \in [Tasks -> Events]
      /\ issued \in [Stages -> Seq(Workers)]
  BY DEF Inv, TypeOK
<1>1. /\ can_transition_task("pending", "leased")
      /\ can_transition_task("leased", "running")
      /\ \A ts \in TaskStatuses \ TaskTerminalStatuses :
           can_transition_task(ts, "cancelled")
      /\ \A ts \in {"failed", "cancelled"} : can_transition_task(ts, "pending")
  BY DEF can_transition_task, TASK_TRANSITIONS, TaskStatuses, TaskTerminalStatuses
<1>2. ASSUME NEW w \in Workers, Poll(w)
      PROVE  /\ task'[t].status # task[t].status =>
                  can_transition_task(task[t].status, task'[t].status)
             /\ event'[t] # event[t] => event'[t].previous = task[t].status
  <2>1. PICK granted \in SUBSET Stages : \E device \in [granted -> Devices] :
          lease(w, granted, device)
    BY <1>2 DEF Poll
  <2>2. PICK device \in [granted -> Devices] : lease(w, granted, device)
    BY <2>1
  <2>3. \/ task'[t] = task[t] /\ event'[t] = event[t]
        \/ /\ task[t].status = "pending"
           /\ task'[t] = [task[t] EXCEPT !.status = "leased"]
           /\ event'[t] = StatusEvent("pending", "leased")
    BY <2>2 DEF lease
  <2> QED BY <1>0, <1>1, <2>3 DEF TaskRecords, StatusEvent
<1>3. ASSUME NEW s \in Stages, NEW w, NEW k, start(s, w, k)
      PROVE  /\ task'[t].status # task[t].status =>
                  can_transition_task(task[t].status, task'[t].status)
             /\ event'[t] # event[t] => event'[t].previous = task[t].status
  <2>1. \/ task' = task /\ event' = event
        \/ /\ task[TaskOf[s]].status = "leased"
           /\ task' = [task EXCEPT ![TaskOf[s]].status = "running",
                                   ![TaskOf[s]].started = TRUE]
           /\ event' = [event EXCEPT ![TaskOf[s]] = StatusEvent("leased", "running")]
    BY <1>3 DEF start
  <2>2. TaskOf[s] \in Tasks
    BY StructureAssumption
  <2>3. CASE t # TaskOf[s]
    BY <1>0, <2>1, <2>3
  <2>4. CASE t = TaskOf[s]
    BY <1>0, <1>1, <2>1, <2>2, <2>4 DEF TaskRecords, StatusEvent
  <2> QED BY <2>3, <2>4
<1>4. ASSUME NEW s \in Stages, WorkerCall(s)
      PROVE  /\ task'[t].status # task[t].status =>
                  can_transition_task(task[t].status, task'[t].status)
             /\ event'[t] # event[t] => event'[t].previous = task[t].status
  <2>1. PICK k \in DOMAIN issued[s] :
          \/ renew(s, issued[s][k], k) \/ start(s, issued[s][k], k)
          \/ \E request \in Requests : complete(s, issued[s][k], k, request)
    BY <1>4 DEF WorkerCall
  <2>2. CASE renew(s, issued[s][k], k)
    BY <2>2 DEF renew
  <2>3. ASSUME NEW request \in Requests, complete(s, issued[s][k], k, request)
        PROVE  \E st, affected : Reconcile(st, affected)
    BY <2>3 DEF complete
  <2> QED BY <1>3, <2>1, <2>2, <2>3, ReconciledTaskSteps
<1>5. CASE ReconcileEndpoint
  <2>1. \E st, affected : Reconcile(st, affected)
    BY <1>5 DEF ReconcileEndpoint, reconcile_workers
  <2> QED BY <2>1, ReconciledTaskSteps
<1>6. ASSUME NEW u \in Tasks, cancel(u)
      PROVE  /\ task'[t].status # task[t].status =>
                  can_transition_task(task[t].status, task'[t].status)
             /\ event'[t] # event[t] => event'[t].previous = task[t].status
  <2>1. /\ task[u].status \in TaskStatuses \ TaskTerminalStatuses
        /\ task' = [task EXCEPT ![u].status = "cancelled", ![u].completed = TRUE]
        /\ event' = [event EXCEPT ![u] = StatusEvent(task[u].status, "cancelled")]
    BY <1>0, <1>6 DEF cancel, TaskRecords
  <2> QED BY <1>0, <1>1, <2>1 DEF TaskRecords, StatusEvent
<1>7. ASSUME NEW u \in Tasks, retry(u)
      PROVE  /\ task'[t].status # task[t].status =>
                  can_transition_task(task[t].status, task'[t].status)
             /\ event'[t] # event[t] => event'[t].previous = task[t].status
  <2>1. /\ task[u].status \in {"failed", "cancelled"}
        /\ task' = [task EXCEPT ![u] = [status |-> "pending", started |-> FALSE,
                                        completed |-> FALSE, error |-> FALSE,
                                        result |-> FALSE]]
        /\ event' = [event EXCEPT ![u] = StatusEvent(task[u].status, "pending")]
    BY <1>7 DEF retry
  <2> QED BY <1>0, <1>1, <2>1 DEF StatusEvent
<1>8. CASE RegistryNext /\ UNCHANGED schedulerVars
  BY <1>8 DEF schedulerVars
<1> QED BY <1>2, <1>4, <1>5, <1>6, <1>7, <1>8 DEF Next

(* complete: only the worker that holds the unexpired lease makes a stage  *)
(* succeed, and the row then names that worker and its token.              *)
THEOREM HolderSucceeds == Spec => OnlyHolderSucceeds
<1>1. ASSUME Inv, [Next]_vars, NEW s \in Stages,
             stage[s].status # "succeeded", stage'[s].status = "succeeded"
      PROVE  /\ stage[s].expires > now
             /\ stage'[s].completion.token = Len(issued[s])
             /\ stage'[s].completion.worker = issued[s][Len(issued[s])]
  <2>1. Next
    BY <1>1 DEF vars
  <2>2. PICK w \in Workers, k \in Nat :
          /\ RequireValidLease(s, w, k)
          /\ stage'[s].completion.worker = w /\ stage'[s].completion.token = k
          /\ stage[s].status = "running"
    BY <1>1, <2>1, StageSteps
  <2>3. RowInv(s, stage[s], issued[s])
    BY <1>1 DEF Inv, Rows
  <2> QED BY <2>2, <2>3 DEF RequireValidLease, RowInv, Active, ActiveStatuses
<1> DEFINE A == \A s \in Stages :
                  stage[s].status # "succeeded" /\ stage'[s].status = "succeeded" =>
                    /\ stage[s].expires > now
                    /\ stage'[s].completion.token = Len(issued[s])
                    /\ stage'[s].completion.worker = issued[s][Len(issued[s])]
<1>2. Inv /\ [Next]_vars => [A]_vars
  BY <1>1
<1>3. OnlyHolderSucceeds <=> [][A]_vars
  BY DEF OnlyHolderSucceeds
<1> QED BY <1>2, <1>3, Invariance, PTL DEF Spec

(* _publish_status: the events of a task form a chain. *)
THEOREM EventChain == Spec => EventsFormChain
<1>1. ASSUME Inv, [Next]_vars, NEW t \in Tasks, event'[t] # event[t]
      PROVE  event'[t].previous = event[t].current
  <2>1. Next
    BY <1>1 DEF vars
  <2>2. event'[t].previous = task[t].status
    BY <1>1, <2>1, TaskSteps
  <2> QED BY <1>1, <2>2 DEF Inv, EventsReportStatus
<1> DEFINE A == \A t \in Tasks : event'[t] # event[t] =>
                  event'[t].previous = event[t].current
<1>2. Inv /\ [Next]_vars => [A]_vars
  BY <1>1
<1>3. EventsFormChain <=> [][A]_vars
  BY DEF EventsFormChain
<1> QED BY <1>2, <1>3, Invariance, PTL DEF Spec

(* The handlers move stages and tasks along the tables of task_state.py    *)
(* only, though they write the status without consulting the tables in     *)
(* cancel, retry and _fail_or_retry_stage.                                 *)
THEOREM TablesFollowed == Spec => TransitionsFollowTables
<1>1. ASSUME Inv, [Next]_vars, NEW s \in Stages,
             stage'[s].status # stage[s].status
      PROVE  StageMoves(stage[s].status, stage'[s].status)
  <2>1. Next
    BY <1>1 DEF vars
  <2> QED
    BY <1>1, <2>1, StageSteps
       DEF StageMoves, can_transition_stage, STAGE_TRANSITIONS, StageStatuses,
           TaskStatuses, OpenStatuses, Active, ActiveStatuses
<1>2. ASSUME Inv, [Next]_vars, NEW t \in Tasks, task'[t].status # task[t].status
      PROVE  can_transition_task(task[t].status, task'[t].status)
  <2>1. Next
    BY <1>2 DEF vars
  <2> QED BY <1>2, <2>1, TaskSteps
<1> DEFINE A == /\ \A s \in Stages : stage'[s].status # stage[s].status =>
                      StageMoves(stage[s].status, stage'[s].status)
                /\ \A t \in Tasks : task'[t].status # task[t].status =>
                      can_transition_task(task[t].status, task'[t].status)
<1>3. Inv /\ [Next]_vars => [A]_vars
  BY <1>1, <1>2
<1>4. TransitionsFollowTables <=> [][A]_vars
  BY DEF TransitionsFollowTables
<1> QED BY <1>3, <1>4, Invariance, PTL DEF Spec

-----------------------------------------------------------------------------
(* What DisabledWorkersStayOut says of one worker row. *)
StaysOut(r) ==
  r.status # "unregistered" /\ ~r.enabled => r.status \in {"offline", "draining"}

(* The operations of the registry keep a disabled worker out ... *)
LEMMA RegistryKeepsOut ==
  ASSUME RegistryTypeOK, DisabledWorkersStayOut, RegistryNext
  PROVE  DisabledWorkersStayOut'
<1>0. worker \in [Workers -> WorkerRecords]
      /\ \A w \in Workers : StaysOut(worker[w])
  BY DEF RegistryTypeOK, DisabledWorkersStayOut, StaysOut, Registered
<1>1. ASSUME NEW w \in Workers, NEW r, worker' = [worker EXCEPT ![w] = r], StaysOut(r)
      PROVE  DisabledWorkersStayOut'
  BY <1>0, <1>1 DEF DisabledWorkersStayOut, StaysOut, Registered
<1>2. ASSUME NEW w \in Workers, NEW c \in Concurrencies, register(w, c)
      PROVE  DisabledWorkersStayOut'
  <2>1. StaysOut(RegisteredRecord(worker[w], c))
    BY DEF StaysOut, RegisteredRecord
  <2> QED BY <1>1, <1>2, <2>1 DEF register
<1>3. ASSUME NEW w \in Workers, NEW q \in 0..MaxSequence,
             NEW st \in ReportedStatuses, heartbeat(w, q, st)
      PROVE  DisabledWorkersStayOut'
  <2>1. StaysOut(HeartbeatRecord(worker[w], q, st))
    BY <1>0 DEF StaysOut, HeartbeatRecord, WorkerRecords
  <2> QED BY <1>1, <1>3, <2>1 DEF heartbeat
<1>4. ASSUME NEW w \in Workers, NEW u \in Updates, update(w, u)
      PROVE  DisabledWorkersStayOut'
  <2> DEFINE r == worker[w]
             e == IF u.enabled = "keep" THEN r.enabled ELSE u.enabled = "yes"
             x == CASE u.draining = "yes" -> "draining"
                    [] u.draining = "no" /\ e /\ EnabledStatus(r, u) = "draining"
                         -> "online"
                    [] OTHER -> EnabledStatus(r, u)
             q == UpdatedRecord(r, u)
  <2>1. r \in WorkerRecords /\ StaysOut(r) /\ r.status # "unregistered"
    BY <1>0, <1>4 DEF update, Registered
  <2>2. q.status = x /\ q.enabled = e
    BY <2>1 DEF UpdatedRecord, WorkerRecords
  <2>3. u.enabled \in {"keep", "yes", "no"}
    BY UpdatesAssumption DEF Choices
  <2>4. ~e => x = "draining" \/ x = EnabledStatus(r, u)
    OBVIOUS
  <2>5. ~e => EnabledStatus(r, u) \in {"offline", "draining"}
    <3>1. CASE u.enabled = "no"
      BY <3>1 DEF EnabledStatus
    <3>2. CASE u.enabled = "keep"
      <4>1. EnabledStatus(r, u) = r.status
        BY <3>2 DEF EnabledStatus
      <4> QED BY <2>1, <3>2, <4>1 DEF StaysOut
    <3>3. CASE u.enabled = "yes"
      BY <3>3
    <3> QED BY <2>3, <3>1, <3>2, <3>3
  <2> HIDE DEF e, x, q
  <2>6. StaysOut(q)
    BY <2>2, <2>4, <2>5 DEF StaysOut
  <2> QED BY <1>1, <1>4, <2>6 DEF update, q
<1>5. CASE Tick
  BY <1>5 DEF Tick, DisabledWorkersStayOut, Registered
<1> QED BY <1>2, <1>3, <1>4, <1>5 DEF RegistryNext

(* ... and so does what the scheduler writes to a worker row. *)
LEMMA ReleaseKeepsOut ==
  ASSUME NEW wk \in [Workers -> WorkerRecords], \A w \in Workers : StaysOut(wk[w]),
         NEW st, NEW released, worker' = Released(wk, st, released)
  PROVE  DisabledWorkersStayOut'
<1>1. ASSUME NEW w \in Workers
      PROVE  StaysOut(worker'[w])
  <2>1. \/ worker'[w] = wk[w]
        \/ wk[w].enabled /\ worker'[w] = [wk[w] EXCEPT !.status = "online"]
    BY DEF Released
  <2> QED BY <2>1 DEF StaysOut, WorkerRecords
<1> QED BY <1>1 DEF DisabledWorkersStayOut, StaysOut, Registered

LEMMA DisabledStep ==
  ASSUME TypeOK, DisabledWorkersStayOut, [Next]_vars
  PROVE  DisabledWorkersStayOut'
<1>0. /\ RegistryTypeOK /\ worker \in [Workers -> WorkerRecords]
      /\ \A w \in Workers : StaysOut(worker[w])
  BY DEF TypeOK, RegistryTypeOK, DisabledWorkersStayOut, StaysOut, Registered
<1>1. CASE RegistryNext /\ UNCHANGED schedulerVars
  BY <1>0, <1>1, RegistryKeepsOut
<1>2. ASSUME NEW w \in Workers, Poll(w)
      PROVE  DisabledWorkersStayOut'
  <2>1. \/ worker' = worker
        \/ worker[w].enabled /\ worker' = [worker EXCEPT ![w].status = "busy"]
    BY <1>2 DEF Poll, lease, AcceptsLeases
  <2>2. \A v \in Workers : StaysOut(worker'[v])
    BY <1>0, <2>1 DEF StaysOut, WorkerRecords
  <2> QED BY <2>2 DEF DisabledWorkersStayOut, StaysOut, Registered
<1>3. ASSUME NEW s \in Stages, WorkerCall(s)
      PROVE  DisabledWorkersStayOut'
  <2>1. \/ worker' = worker
        \/ \E st, released : worker' = Released(worker, st, released)
    BY <1>3 DEF WorkerCall, renew, start, complete
  <2>2. worker' = worker => DisabledWorkersStayOut'
    BY DEF DisabledWorkersStayOut, Registered
  <2> QED BY <1>0, <2>1, <2>2, ReleaseKeepsOut
<1>4. CASE ReconcileEndpoint
  <2>1. OfflineSweep \in [Workers -> WorkerRecords]
    BY <1>0, SweepTypes
  <2>2. \A w \in Workers : StaysOut(OfflineSweep[w])
    BY <1>0 DEF OfflineSweep, StaysOut, WorkerRecords
  <2>3. \E st, released : worker' = Released(OfflineSweep, st, released)
    BY <1>4 DEF ReconcileEndpoint, reconcile_workers
  <2> QED BY <2>1, <2>2, <2>3, ReleaseKeepsOut
<1>5. ASSUME NEW t \in Tasks, cancel(t) \/ retry(t)
      PROVE  DisabledWorkersStayOut'
  BY <1>5 DEF cancel, retry, DisabledWorkersStayOut, Registered
<1>6. CASE UNCHANGED vars
  BY <1>6 DEF vars, DisabledWorkersStayOut, Registered
<1> QED BY <1>1, <1>2, <1>3, <1>4, <1>5, <1>6 DEF Next

(* WorkerRepository and _release_worker_if_idle: no heartbeat, no second   *)
(* registration, no end of a drain or of the last stage brings a worker    *)
(* that an administrator has disabled back to a status that is given work. *)
THEOREM DisabledOut == Spec => []DisabledWorkersStayOut
<1>1. Init => DisabledWorkersStayOut
  BY DEF Init, RegistryInit, DisabledWorkersStayOut, Registered
<1>2. TypeOK /\ DisabledWorkersStayOut /\ [Next]_vars => DisabledWorkersStayOut'
  BY DisabledStep
<1> QED BY <1>1, <1>2, TypeCorrect, PTL DEF Spec

-----------------------------------------------------------------------------
(* What a worker holds: only lease adds to it. *)
LEMMA ActiveStep ==
  ASSUME Inv, Next, NEW v
  PROVE  \/ ActiveStages(stage', v) \subseteq ActiveStages(stage, v)
         \/ \E granted \in SUBSET Stages :
              /\ v \in Workers /\ Cardinality(granted) <= FreeSlots(v)
              /\ ActiveStages(stage', v) \subseteq ActiveStages(stage, v) \cup granted
<1>0. /\ stage \in [Stages -> StageRecords] /\ issued \in [Stages -> Seq(Workers)]
  BY DEF Inv, TypeOK
<1>1. ASSUME \A x \in Stages : stage'[x].status \in ActiveStatuses =>
               /\ stage[x].status \in ActiveStatuses
               /\ stage'[x].worker = stage[x].worker
      PROVE  ActiveStages(stage', v) \subseteq ActiveStages(stage, v)
  BY <1>1 DEF ActiveStages, Active
<1>2. ASSUME NEW w \in Workers, Poll(w)
      PROVE  \/ ActiveStages(stage', v) \subseteq ActiveStages(stage, v)
             \/ \E granted \in SUBSET Stages :
                  /\ v \in Workers /\ Cardinality(granted) <= FreeSlots(v)
                  /\ ActiveStages(stage', v) \subseteq ActiveStages(stage, v) \cup granted
  <2>1. PICK granted \in SUBSET Stages : \E device \in [granted -> Devices] :
          lease(w, granted, device)
    BY <1>2 DEF Poll
  <2>2. PICK device \in [granted -> Devices] : lease(w, granted, device)
    BY <2>1
  <2>3. /\ Cardinality(granted) <= FreeSlots(w)
        /\ \A x \in Stages :
             stage'[x] = IF x \in granted
                           THEN LeasedStage(stage[x], w, device[x], Len(issued[x]) + 1)
                           ELSE stage[x]
    BY <2>2 DEF lease
  <2>4. \A x \in granted : stage'[x].worker = w
    BY <1>0, <2>3 DEF LeasedStage, StageRecords
  <2>5. CASE v = w
    <3>1. ActiveStages(stage', w) \subseteq ActiveStages(stage, w) \cup granted
      BY <2>3 DEF ActiveStages
    <3> QED BY <2>3, <2>5, <3>1
  <2>6. CASE v # w
    BY <2>3, <2>4, <2>6 DEF ActiveStages
  <2> QED BY <2>5, <2>6
<1>3. ASSUME NEW s \in Stages, WorkerCall(s)
      PROVE  ActiveStages(stage', v) \subseteq ActiveStages(stage, v)
  <2>1. PICK k \in DOMAIN issued[s] :
          \/ renew(s, issued[s][k], k) \/ start(s, issued[s][k], k)
          \/ \E request \in Requests : complete(s, issued[s][k], k, request)
    BY <1>3 DEF WorkerCall
  <2> DEFINE w == issued[s][k]
  <2>2. k \in Nat /\ w \in Workers
    BY <1>0
  <2>3. CASE renew(s, w, k)
    <3>1. Active(stage[s]) /\ stage' = [stage EXCEPT ![s].expires = now + LeaseDuration]
      BY <2>3 DEF renew
    <3> QED BY <1>0, <1>1, <3>1 DEF StageRecords, Active
  <2>4. CASE start(s, w, k)
    <3>1. /\ stage[s].status = "leased"
          /\ stage' = [stage EXCEPT ![s].status = "running", ![s].started = TRUE]
      BY <2>4 DEF start
    <3> QED BY <1>0, <1>1, <3>1 DEF StageRecords, ActiveStatuses
  <2>5. ASSUME NEW request \in Requests, complete(s, w, k, request)
        PROVE  ActiveStages(stage', v) \subseteq ActiveStages(stage, v)
    <3> HIDE DEF w
    <3>1. /\ \A x \in Stages \ {s} :
               \/ stage'[x] = stage[x]
               \/ stage'[x].status = "cancelled"
          /\ stage'[s].status \in
               {"pending", "skipped", "failed", "succeeded", "cancelled"}
      BY <2>2, <2>5, CompletedRows
    <3> QED BY <1>1, <3>1 DEF ActiveStatuses
  <2> QED BY <2>1, <2>3, <2>4, <2>5
<1>4. ASSUME ReconcileEndpoint
      PROVE  ActiveStages(stage', v) \subseteq ActiveStages(stage, v)
  <2>1. PICK scan : reconcile_workers(scan)
    BY <1>4 DEF ReconcileEndpoint
  <2>2. \A x \in Stages :
          \/ stage'[x] = stage[x]
          \/ stage'[x].status \in {"pending", "skipped", "failed", "cancelled"}
    BY <2>1, RequeuedRows
  <2> QED BY <1>1, <2>2 DEF ActiveStatuses
<1>5. ASSUME NEW t \in Tasks, cancel(t) \/ retry(t)
      PROVE  ActiveStages(stage', v) \subseteq ActiveStages(stage, v)
  <2>1. \A x \in Stages : \/ stage'[x] = stage[x]
                          \/ stage'[x] = CancelledStage(stage[x])
                          \/ stage'[x] = RetriedStage(stage[x])
    BY <1>5 DEF cancel, retry
  <2>2. \A x \in Stages : /\ CancelledStage(stage[x]).status = "cancelled"
                          /\ RetriedStage(stage[x]).status = "pending"
    BY <1>0 DEF CancelledStage, RetriedStage, StageRecords
  <2> QED BY <1>1, <2>1, <2>2 DEF ActiveStatuses
<1>6. CASE RegistryNext /\ UNCHANGED schedulerVars
  BY <1>1, <1>6 DEF schedulerVars
<1> QED BY <1>2, <1>3, <1>4, <1>5, <1>6 DEF Next

(* The stages of a worker become more only within the concurrency that its *)
(* row allows at that moment, also when a heartbeat or an administrator    *)
(* has just lowered it below what the worker holds.                        *)
THEOREM Concurrency == Spec => ConcurrencyRespected
<1>1. ASSUME Inv, [Next]_vars, NEW w \in Workers,
             Cardinality(ActiveStages(stage', w)) > Cardinality(ActiveStages(stage, w))
      PROVE  Cardinality(ActiveStages(stage', w)) <= worker[w].maximum_concurrency
  <2> DEFINE old == ActiveStages(stage, w)
             new == ActiveStages(stage', w)
  <2>1. old \in SUBSET Stages /\ new \in SUBSET Stages
    BY DEF ActiveStages
  <2>2. /\ IsFiniteSet(old) /\ Cardinality(old) \in Nat
        /\ IsFiniteSet(new) /\ Cardinality(new) \in Nat
    BY <2>1, FiniteAssumption, FS_Subset, FS_CardinalityType
  <2>3. Cardinality(new) > Cardinality(old)
    BY <1>1
  <2>4. new = old \/ Next
    BY <1>1 DEF vars, ActiveStages, Active
  <2>5. \/ new \subseteq old
        \/ \E granted \in SUBSET Stages :
             Cardinality(granted) <= FreeSlots(w) /\ new \subseteq old \cup granted
    BY <1>1, <2>4, ActiveStep
  <2>6. worker[w].maximum_concurrency \in Nat
    BY <1>1, ConcurrenciesAssumption DEF Inv, TypeOK, RegistryTypeOK, WorkerRecords
  <2>7. FreeSlots(w) = worker[w].maximum_concurrency - Cardinality(old)
    BY DEF FreeSlots
  <2> HIDE DEF old, new
  <2>8. ~(new \subseteq old)
    BY <2>2, <2>3, FS_Subset
  <2>9. PICK granted \in SUBSET Stages :
          Cardinality(granted) <= FreeSlots(w) /\ new \subseteq old \cup granted
    BY <2>5, <2>8
  <2>10. IsFiniteSet(granted) /\ Cardinality(granted) \in Nat
    BY FiniteAssumption, FS_Subset, FS_CardinalityType
  <2>11. /\ IsFiniteSet(old \cup granted)
         /\ Cardinality(old \cup granted)
              = Cardinality(old) + Cardinality(granted) - Cardinality(old \cap granted)
    BY <2>2, <2>10, FS_Union
  <2>12. Cardinality(old \cap granted) \in Nat
    <3>1. old \cap granted \in SUBSET granted
      OBVIOUS
    <3> QED BY <2>10, <3>1, FS_Subset, FS_CardinalityType
  <2>13. Cardinality(new) <= Cardinality(old \cup granted)
    <3>1. new \in SUBSET (old \cup granted)
      BY <2>9
    <3> QED BY <2>11, <3>1, FS_Subset
  <2>14. Cardinality(new) <= worker[w].maximum_concurrency
    BY <2>2, <2>6, <2>7, <2>9, <2>10, <2>11, <2>12, <2>13
  <2> QED BY <2>14 DEF new
<1>2. Inv /\ [Next]_vars =>
        [\A w \in Workers :
           Cardinality(ActiveStages(stage', w)) > Cardinality(ActiveStages(stage, w))
             => Cardinality(ActiveStages(stage', w)) <= worker[w].maximum_concurrency]_vars
  BY <1>1
<1> QED BY <1>2, Invariance, PTL DEF Spec, ConcurrencyRespected
=============================================================================

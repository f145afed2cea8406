--------------------------- MODULE StageScheduler ---------------------------
(***************************************************************************)
(* The lease protocol of the control plane: StageScheduler                 *)
(* (parser_serve/control/scheduler.py) with the cancel and retry           *)
(* operations of TaskRepository (parser_serve/persistence/tasks.py).       *)
(*                                                                         *)
(* Workers pull Stages.  A Stage is leased to one worker under a fresh     *)
(* token; the worker starts it, renews the lease and completes it; a lease *)
(* that runs out is taken back by the reconcile endpoint.  Each handler is *)
(* one database transaction and here one step: StageTransactions looks     *)
(* inside the transactions.                                                *)
(*                                                                         *)
(* A request may be lost, repeated or arrive late: a worker may present    *)
(* any token it was ever given, at any time.  A refused request changes    *)
(* nothing and is no step.                                                 *)
(***************************************************************************)
EXTENDS WorkerRegistry, TaskState, Sequences, Functions

CONSTANTS
  Tasks, Stages,
  TaskOf,             \* the task a stage belongs to
  DependsOn,          \* depends_on_payload of each stage
  Optional,           \* the stages with optional = True
  MaximumAttempts,    \* maximum_attempts of each stage
  Devices,            \* device identifiers
  NoWorker, NoDevice, \* SQL NULL in worker_id and device_id
  LeaseDuration,      \* lease_duration_seconds
  InitialDelay, Multiplier, MaximumDelay,   \* the stages' RetryPolicy
  MaxLeases           \* bound: leases granted per stage

ASSUME StructureAssumption ==
  /\ TaskOf \in [Stages -> Tasks]
  /\ DependsOn \in [Stages -> SUBSET Stages]
  /\ \A s \in Stages : \A d \in DependsOn[s] : TaskOf[d] = TaskOf[s]
  /\ \A t \in Tasks : \E s \in Stages : TaskOf[s] = t
  /\ Optional \subseteq Stages
ASSUME FiniteAssumption == IsFiniteSet(Stages)
ASSUME AttemptsAssumption == MaximumAttempts \in [Stages -> Nat \ {0}]
ASSUME NullsAssumption == NoWorker \notin Workers /\ NoDevice \notin Devices
ASSUME LeaseAssumption == LeaseDuration \in Nat \ {0} /\ MaxLeases \in Nat
ASSUME DelayAssumption ==
  /\ InitialDelay \in Nat /\ MaximumDelay \in Nat
  /\ \A s \in Stages : \A a \in 0..MaximumAttempts[s] : Multiplier^a \in Nat

VARIABLES
  stage,    \* the stage rows
  task,     \* the task rows
  issued,   \* issued[s][k]: the worker that was given token k of stage s
  event     \* the last status event published for each task

schedulerVars == <<stage, task, issued, event>>
vars == <<worker, now, stage, task, issued, event>>

NoTime == 0     \* NULL in lease_expires_at
NoToken == 0    \* NULL in lease_token_digest

(* What a CompleteStageRequest reports; the digest of the request is the   *)
(* request itself.                                                         *)
Requests == {"result", "empty", "failed"}

NoCompletion == [worker |-> NoWorker, device |-> NoDevice,
                 token |-> NoToken, request |-> "none"]

Completions ==
  [worker : Workers \cup {NoWorker}, device : Devices \cup {NoDevice},
   token : Nat, request : Requests \cup {"none"}]

(* started, completed, error and result: the nullable columns started_at,  *)
(* completed_at, error_payload and result_uri have a value.                *)
StageRecords ==
  [status : StageStatuses, attempt : Nat,
   worker : Workers \cup {NoWorker}, device : Devices \cup {NoDevice},
   token : Nat, expires : Nat, available_at : Nat,
   completion : Completions,
   started : BOOLEAN, completed : BOOLEAN, error : BOOLEAN, result : BOOLEAN]

TaskRecords ==
  [status : TaskStatuses, started : BOOLEAN, completed : BOOLEAN,
   error : BOOLEAN, result : BOOLEAN]

Events ==
  [previous : TaskStatuses \cup {"none"}, current : TaskStatuses]

StagesOf(t) == {s \in Stages : TaskOf[s] = t}

Active(r) == r.status \in ActiveStatuses

(* Definitions named X_... are faulty variants of X: the mutants that show *)
(* each property can fail.                                                 *)
StatusEvent_from_pending(previous, current) ==
  [previous |-> "pending", current |-> current]

StatusEvent(previous, current) == [previous |-> previous, current |-> current]

-----------------------------------------------------------------------------
(* What the private methods of the scheduler make of one stage row. *)

ClearLease_keeps_token(r) ==
  [r EXCEPT !.worker = NoWorker, !.device = NoDevice, !.expires = NoTime]

ClearLease(r) ==
  [r EXCEPT !.worker = NoWorker, !.device = NoDevice,
            !.token = NoToken, !.expires = NoTime]

LeasedStage(r, w, d, k) ==
  [r EXCEPT !.status = "leased", !.worker = w, !.device = d,
            !.attempt = r.attempt + 1, !.token = k,
            !.completion = NoCompletion, !.expires = now + LeaseDuration]

SucceedStage(r, request) ==
  ClearLease([r EXCEPT !.status = "succeeded", !.completed = TRUE,
                       !.result = request = "result"])

(* The backoff of a stage that has used a attempts. *)
RetryDelay(a) ==
  LET delay == InitialDelay * Multiplier^(IF a > 0 THEN a - 1 ELSE 0)
  IN IF delay < MaximumDelay THEN delay ELSE MaximumDelay

Exhausted_off_by_one(s, r) == r.attempt > MaximumAttempts[s]

Exhausted(s, r) == r.attempt >= MaximumAttempts[s]

Requeued(r) ==
  ClearLease([r EXCEPT !.status = "pending", !.error = FALSE,
                       !.started = FALSE, !.completed = FALSE,
                       !.available_at = now + RetryDelay(r.attempt)])

FailOrRetryStage(s, r) ==
  IF ~Exhausted(s, r) THEN Requeued(r)
  ELSE ClearLease([r EXCEPT
         !.status = IF s \in Optional THEN "skipped" ELSE "failed",
         !.error = s \notin Optional,
         !.completed = TRUE])

CancelledSibling(r) ==
  ClearLease([r EXCEPT !.status = "cancelled", !.completed = TRUE])

-----------------------------------------------------------------------------
(* _reconcile_task, which every handler that ends an attempt runs: the     *)
(* rows of the task's stages and of the task that follow from st, the rows *)
(* the handler has written.                                                *)

HasFailed(st, t) == \E s \in StagesOf(t) : st[s].status = "failed"

AllDone(st, t) == \A s \in StagesOf(t) : st[s].status \in DoneStatuses

NoneActive(st, t) ==
  \A s \in StagesOf(t) : st[s].status \in {"pending"} \cup DoneStatuses

ReconciledStages(st, affected) ==
  [s \in Stages |->
     IF /\ TaskOf[s] \in affected
        /\ HasFailed(st, TaskOf[s])
        /\ st[s].status \in OpenStatuses
       THEN CancelledSibling(st[s])
       ELSE st[s]]

ReconciledTask(st, t, r) ==
  CASE HasFailed(st, t) ->
         [r EXCEPT !.status = "failed", !.error = TRUE, !.completed = TRUE]
    [] ~HasFailed(st, t) /\ AllDone(st, t) ->
         [r EXCEPT !.status = "succeeded", !.completed = TRUE,
                   !.result = \E s \in StagesOf(t) : st[s].result]
    [] /\ ~HasFailed(st, t) /\ ~AllDone(st, t)
       /\ r.status = "leased" /\ NoneActive(st, t) ->
         [r EXCEPT !.status = "pending"]
    [] OTHER -> r

(* require_task_transition lets the end of the task through; it is called  *)
(* for a task that already has the target status, too.                     *)
TransitionsAllowed(st, affected) ==
  \A t \in affected :
    HasFailed(st, t) \/ AllDone(st, t) =>
      can_transition_task(task[t].status,
                          IF HasFailed(st, t) THEN "failed" ELSE "succeeded")

Reconcile(st, affected) ==
  /\ TransitionsAllowed(st, affected)
  /\ stage' = ReconciledStages(st, affected)
  /\ task' = [t \in Tasks |->
                IF t \in affected THEN ReconciledTask(st, t, task[t])
                                  ELSE task[t]]
  /\ event' = [t \in Tasks |->
                 IF t \in affected /\ task'[t].status # task[t].status
                   THEN StatusEvent(task[t].status, task'[t].status)
                   ELSE event[t]]

ActiveStages(st, w) == {s \in Stages : Active(st[s]) /\ st[s].worker = w}

(* _release_worker_if_idle, for the worker rows wk and the stage rows st. *)
Released(wk, st, released) ==
  [w \in Workers |->
     IF /\ w \in released
        /\ wk[w].enabled /\ wk[w].status = "busy"
        /\ ActiveStages(st, w) = {}
       THEN [wk[w] EXCEPT !.status = "online"]
       ELSE wk[w]]

-----------------------------------------------------------------------------
AcceptsLeases(r) == r.enabled /\ r.status \in {"online", "busy"}

DependenciesSatisfied_started(s) ==
  \A d \in DependsOn[s] : stage[d].status \in DoneStatuses \cup {"running"}

DependenciesSatisfied(s) ==
  \A d \in DependsOn[s] : stage[d].status \in DoneStatuses

Leasable(s) ==
  /\ stage[s].status = "pending"
  /\ stage[s].available_at <= now
  /\ task[TaskOf[s]].status \in OpenStatuses
  /\ DependenciesSatisfied(s)

FreeSlots(w) ==
  worker[w].maximum_concurrency - Cardinality(ActiveStages(stage, w))

(* The stages that a poll of worker w is given.  The number of slots asked *)
(* for, labels, backends, devices and the ranking of workers decide which  *)
(* of the leasable stages these are: here, any of them.                    *)
lease(w, granted, device) ==
  /\ AcceptsLeases(worker[w])
  /\ granted # {} /\ \A s \in granted : Leasable(s)
  /\ \A s \in granted : Len(issued[s]) < MaxLeases
  /\ Cardinality(granted) <= FreeSlots(w)
  /\ stage' = [s \in Stages |->
                 IF s \in granted
                   THEN LeasedStage(stage[s], w, device[s], Len(issued[s]) + 1)
                   ELSE stage[s]]
  /\ issued' = [s \in Stages |->
                  IF s \in granted THEN Append(issued[s], w) ELSE issued[s]]
  /\ LET claimed == {t \in Tasks : /\ task[t].status = "pending"
                                   /\ \E s \in granted : TaskOf[s] = t}
     IN /\ task' = [t \in Tasks |->
                      IF t \in claimed THEN [task[t] EXCEPT !.status = "leased"]
                                       ELSE task[t]]
        /\ event' = [t \in Tasks |->
                       IF t \in claimed THEN StatusEvent("pending", "leased")
                                        ELSE event[t]]
  /\ worker' = IF Cardinality(granted) >= FreeSlots(w)
                 THEN [worker EXCEPT ![w].status = "busy"]
                 ELSE worker
  /\ UNCHANGED now

RequireValidLease_no_expiry(s, w, k) ==
  stage[s].worker = w /\ stage[s].token = k

(* _require_valid_lease: worker w presents token k of stage s. *)
RequireValidLease(s, w, k) ==
  /\ stage[s].worker = w
  /\ stage[s].token = k
  /\ stage[s].expires > now

renew(s, w, k) ==
  /\ RequireValidLease(s, w, k)
  /\ Active(stage[s])
  /\ stage' = [stage EXCEPT ![s].expires = now + LeaseDuration]
  /\ UNCHANGED <<worker, now, task, issued, event>>

start(s, w, k) ==
  LET t == TaskOf[s]
  IN /\ RequireValidLease(s, w, k)
     /\ stage[s].status = "leased"
     /\ stage' = [stage EXCEPT ![s].status = "running", ![s].started = TRUE]
     /\ IF task[t].status = "leased"
          THEN /\ task' = [task EXCEPT ![t].status = "running",
                                       ![t].started = TRUE]
               /\ event' = [event EXCEPT
                              ![t] = StatusEvent("leased", "running")]
          ELSE UNCHANGED <<task, event>>
     /\ UNCHANGED <<worker, now, issued>>

(* A completion that the row already records is answered from the row or   *)
(* refused, before the lease is looked at: no step.                        *)
complete(s, w, k, request) ==
  LET r == [stage[s] EXCEPT
              !.completion = [worker |-> w, device |-> stage[s].device,
                              token |-> k, request |-> request]]
  IN /\ stage[s].completion = NoCompletion
     /\ RequireValidLease(s, w, k)
     /\ stage[s].status = "running"
     /\ Reconcile([stage EXCEPT ![s] = IF request = "failed"
                                         THEN FailOrRetryStage(s, r)
                                         ELSE SucceedStage(r, request)],
                  {TaskOf[s]})
     /\ worker' = Released(worker, stage', {w})
     /\ UNCHANGED <<now, issued>>

Expired_only_running ==
  {s \in Stages : stage[s].status = "running" /\ stage[s].expires <= now}

Expired == {s \in Stages : Active(stage[s]) /\ stage[s].expires <= now}

(* The attempt that has run out is the last one and fails the task. *)
Fatal(s) == Exhausted(s, stage[s]) /\ s \notin Optional

(* requeue_expired treats the expired stages one after the other, in the   *)
(* order the query returns them.  When a fatal one is followed by another  *)
(* of its task, _reconcile_task has cancelled the latter by the time the   *)
(* loop meets it, _fail_or_retry_stage raises, and the transaction is      *)
(* rolled back.                                                            *)
LoopRaises(scan) ==
  \E a, b \in Expired :
    TaskOf[a] = TaskOf[b] /\ scan[a] < scan[b] /\ Fatal(a)

(* The reconcile endpoint: mark_offline, then requeue_expired, in one      *)
(* transaction.  When the loop does not raise, the reconciliations that it *)
(* runs between two stages of a task change nothing, since a stage of the  *)
(* task is still active: one at the end has their effect.                  *)
reconcile_workers(scan) ==
  /\ ~LoopRaises(scan)
  /\ Reconcile([s \in Stages |-> IF s \in Expired
                                   THEN FailOrRetryStage(s, stage[s])
                                   ELSE stage[s]],
               {TaskOf[s] : s \in Expired})
  /\ worker' = Released(OfflineSweep, stage',
                        {stage[s].worker : s \in Expired})
  /\ UNCHANGED <<now, issued>>

-----------------------------------------------------------------------------
(* TaskRepository.cancel and TaskRepository.retry. *)

CancelledStage(r) ==
  [r EXCEPT !.status = "cancelled", !.completed = TRUE,
            !.token = NoToken, !.expires = NoTime,
            !.completion = NoCompletion]

StagesToCancel(t) == {s \in StagesOf(t) : stage[s].status \in OpenStatuses}

cancel(t) ==
  /\ task[t].status \notin TaskTerminalStatuses
  /\ task' = [task EXCEPT ![t].status = "cancelled", ![t].completed = TRUE]
  /\ stage' = [s \in Stages |->
                 IF s \in StagesToCancel(t) THEN CancelledStage(stage[s])
                                            ELSE stage[s]]
  /\ event' = [event EXCEPT ![t] = StatusEvent(task[t].status, "cancelled")]
  /\ UNCHANGED <<worker, now, issued>>

RetriedStage(r) ==
  [r EXCEPT !.status = "pending", !.worker = NoWorker, !.attempt = 0,
            !.token = NoToken, !.expires = NoTime,
            !.completion = NoCompletion,
            !.error = FALSE, !.started = FALSE, !.completed = FALSE]

StagesToRetry(t) ==
  {s \in StagesOf(t) : stage[s].status \in {"failed", "cancelled"}}

retry(t) ==
  /\ task[t].status \in {"failed", "cancelled"}
  /\ task' = [task EXCEPT ![t] = [status |-> "pending", started |-> FALSE,
                                  completed |-> FALSE, error |-> FALSE,
                                  result |-> FALSE]]
  /\ stage' = [s \in Stages |->
                 IF s \in StagesToRetry(t) THEN RetriedStage(stage[s])
                                           ELSE stage[s]]
  /\ event' = [event EXCEPT ![t] = StatusEvent(task[t].status, "pending")]
  /\ UNCHANGED <<worker, now, issued>>

-----------------------------------------------------------------------------
(* The tasks have been routed: their stages exist and wait. *)
RowsInit ==
  /\ stage = [s \in Stages |->
                [status |-> "pending", attempt |-> 0,
                 worker |-> NoWorker, device |-> NoDevice,
                 token |-> NoToken, expires |-> NoTime, available_at |-> 0,
                 completion |-> NoCompletion,
                 started |-> FALSE, completed |-> FALSE,
                 error |-> FALSE, result |-> FALSE]]
  /\ task = [t \in Tasks |-> [status |-> "pending", started |-> FALSE,
                              completed |-> FALSE, error |-> FALSE,
                              result |-> FALSE]]
  /\ issued = [s \in Stages |-> <<>>]
  /\ event = [t \in Tasks |-> StatusEvent("none", "pending")]

Init == RegistryInit /\ RowsInit

(* A worker calls about stage s, with a token it was given. *)
WorkerCall(s) ==
  \E k \in DOMAIN issued[s] :
    \/ renew(s, issued[s][k], k)
    \/ start(s, issued[s][k], k)
    \/ \E request \in Requests : complete(s, issued[s][k], k, request)

Poll(w) ==
  \E granted \in SUBSET Stages : \E device \in [granted -> Devices] :
    lease(w, granted, device)

ReconcileEndpoint ==
  \E scan \in Bijection(Expired, 1..Cardinality(Expired)) :
    reconcile_workers(scan)

Next ==
  \/ RegistryNext /\ UNCHANGED schedulerVars
  \/ \E w \in Workers : Poll(w)
  \/ \E s \in Stages : WorkerCall(s)
  \/ ReconcileEndpoint
  \/ \E t \in Tasks : cancel(t) \/ retry(t)

Spec == Init /\ [][Next]_vars

-----------------------------------------------------------------------------
(* The type invariant: the rows hold values of their columns' types. *)
TypeOK ==
  /\ RegistryTypeOK
  /\ stage \in [Stages -> StageRecords]
  /\ task \in [Tasks -> TaskRecords]
  /\ issued \in [Stages -> Seq(Workers)]
  /\ event \in [Tasks -> Events]

(* A lease is exclusive and fenced: a stage is leased or running exactly   *)
(* when its row holds a token, that token is the last one issued for it    *)
(* and the row names the worker it was issued to, so that no earlier       *)
(* holder passes _require_valid_lease whatever it presents.                *)
LeaseFencing ==
  \A s \in Stages :
    /\ Active(stage[s]) <=> stage[s].token # NoToken
    /\ Active(stage[s]) =>
         /\ stage[s].token = Len(issued[s])
         /\ stage[s].worker = issued[s][Len(issued[s])]
         /\ stage[s].expires # NoTime

(* The status of a task and those of its stages agree, whichever handlers  *)
(* of whichever workers have run: _reconcile_task leaves no stage open     *)
(* under an ended task and no ended pipeline under an open one.            *)
AllowedUnder(ts) ==
  CASE ts = "pending"   -> {"pending"} \cup DoneStatuses
    [] ts = "leased"    -> {"pending", "leased"} \cup DoneStatuses
    [] ts = "running"   -> OpenStatuses \cup DoneStatuses
    [] ts = "succeeded" -> DoneStatuses
    [] ts = "failed"    -> {"failed", "cancelled"} \cup DoneStatuses
    [] ts = "cancelled" -> {"cancelled"} \cup DoneStatuses

RequiredUnder(ts) ==
  CASE ts = "running"   -> OpenStatuses
    [] ts = "succeeded" -> DoneStatuses
    [] OTHER            -> {ts}

TaskStageAgreement ==
  /\ \A s \in Stages : stage[s].status \in AllowedUnder(task[TaskOf[s]].status)
  /\ \A t \in Tasks : \E s \in StagesOf(t) :
       stage[s].status \in RequiredUnder(task[t].status)

(* Attempts are spent one lease at a time and never beyond                 *)
(* maximum_attempts, across expiries, failures and manual retries.         *)
AttemptsWithinBudget ==
  \A s \in Stages :
    /\ stage[s].attempt <= MaximumAttempts[s]
    /\ stage[s].status = "pending" => stage[s].attempt < MaximumAttempts[s]

(* No stage has been leased before all the stages it depends on were       *)
(* succeeded or skipped, and none of these is ever undone.                 *)
DependenciesRespected ==
  \A s \in Stages :
    stage[s].status \notin {"pending", "cancelled"} =>
      DependenciesSatisfied(s)

(* The validators of StageDetail and TaskDetail accept every row a handler *)
(* has committed: reading a task never fails on an inconsistent record.    *)
StageDetailValid(s) ==
  LET r == stage[s]
  IN /\ r.status \notin OpenStatuses => r.completed
     /\ r.error <=> r.status = "failed"
     /\ r.result => r.status = "succeeded"
     /\ r.attempt <= MaximumAttempts[s]
     /\ r.status = "running" => r.started
     /\ r.completion.device # NoDevice => r.completion.worker # NoWorker

TaskDetailValid(t) ==
  LET r == task[t]
  IN /\ r.status \in TaskTerminalStatuses => r.completed
     /\ r.error <=> r.status = "failed"
     /\ r.result => r.status = "succeeded"
     /\ r.status = "running" => r.started

DetailsValid ==
  /\ \A s \in Stages : StageDetailValid(s)
  /\ \A t \in Tasks : TaskDetailValid(t)

(* Every change of a task's status has published its event: a subscriber   *)
(* that has seen the last event knows the task's status.                   *)
EventsReportStatus == \A t \in Tasks : event[t].current = task[t].status

(* The end of an attempt can always be recorded: no completion that the    *)
(* lease check lets through is then refused by require_task_transition.    *)
CompletionNeverRaises ==
  \A s \in Stages :
    stage[s].status = "running" =>
      /\ TransitionsAllowed([stage EXCEPT ![s] = FailOrRetryStage(s, stage[s])],
                            {TaskOf[s]})
      /\ TransitionsAllowed([stage EXCEPT
                               ![s] = SucceedStage(stage[s], "result")],
                            {TaskOf[s]})

-----------------------------------------------------------------------------
(* A stage or a task moves along the tables of task_state.py, directly or, *)
(* when an attempt ends, through "failed"; succeeded and skipped are final.*)
StageMoves(from, to) ==
  \/ can_transition_stage(from, to)
  \/ can_transition_stage(from, "failed") /\ can_transition_stage("failed", to)

TransitionsFollowTables ==
  [][/\ \A s \in Stages : stage'[s].status # stage[s].status =>
          StageMoves(stage[s].status, stage'[s].status)
     /\ \A t \in Tasks : task'[t].status # task[t].status =>
          can_transition_task(task[t].status, task'[t].status)]_vars

(* Only the worker that holds the current, unexpired lease makes a stage   *)
(* succeed, and the row then names that worker and its token.              *)
OnlyHolderSucceeds ==
  [][\A s \in Stages :
       stage[s].status # "succeeded" /\ stage'[s].status = "succeeded" =>
         /\ stage[s].expires > now
         /\ stage'[s].completion.token = Len(issued[s])
         /\ stage'[s].completion.worker = issued[s][Len(issued[s])]]_vars

(* A task's events form a chain: each starts from the status in which the  *)
(* one before it left the task.                                            *)
EventsFormChain ==
  [][\A t \in Tasks : event'[t] # event[t] =>
       event'[t].previous = event[t].current]_vars

(* The number of stages a worker holds grows only up to the concurrency    *)
(* its row allows at that moment.                                          *)
ConcurrencyRespected ==
  [][\A w \in Workers :
       Cardinality(ActiveStages(stage', w)) > Cardinality(ActiveStages(stage, w))
         => Cardinality(ActiveStages(stage', w))
              <= worker[w].maximum_concurrency]_vars

-----------------------------------------------------------------------------
(* An operator or a cron job keeps calling the reconcile endpoint; nothing *)
(* else is assumed to happen: workers may crash, requests may be lost.     *)
FairSpec == Spec /\ WF_vars(ReconcileEndpoint)

(* A lease that ran out without being renewed does not stay: the stage is  *)
(* requeued, skipped, failed or cancelled.                                 *)
LeaseRanOut(s) == Active(stage[s]) /\ stage[s].expires <= now

ExpiredLeasesAreRequeued ==
  \A s \in Stages : LeaseRanOut(s) ~> ~LeaseRanOut(s)
=============================================================================

------------------------- MODULE StageTransactions -------------------------
(***************************************************************************)
(* The handlers of StageScheduler taken apart into what the database sees  *)
(* of them under READ COMMITTED: a handler reads the clock, waits for the  *)
(* row it locks, loads the other rows of the task without locking them,    *)
(* computes, and flushes what it has changed, task rows first, before it   *)
(* commits.  Two handlers that lock different stages of one task overlap.  *)
(*                                                                         *)
(* The variables of StageScheduler are the committed rows, so that its     *)
(* properties are stated of them here as well.  The worker rows change     *)
(* only through the scheduler: registrations and heartbeats lock no stage. *)
(***************************************************************************)
EXTENDS StageScheduler

CONSTANTS
  Sessions,   \* database sessions: the handlers that may overlap
  Operations  \* bound: the handlers that are called

ASSUME OperationsAssumption ==
  Operations \subseteq {"lease", "renew", "start", "reconcile", "cancel", "retry"}
                         \cup Requests

VARIABLE tx         \* the transaction of each session

txVars == <<worker, now, stage, task, issued, event, tx>>

(* The operators of StageScheduler for a handler that read the clock at t0. *)
At(t0) == INSTANCE StageScheduler WITH now <- t0

Idle == [phase |-> "idle"]

InTransaction(d) == tx[d].phase \in {"open", "flushed"}

Others(c) == {d \in Sessions \ {c} : InTransaction(d)}

(* The rows that sessions other than c hold locked. *)
LockedStages_none(c) == {}

LockedStages(c) == UNION {tx[d].stages : d \in Others(c)}

LockedTasks_none(c) == {}

LockedTasks(c) == UNION {tx[d].tasks : d \in Others(c)}

LockedWorkers(c) == UNION {tx[d].workers : d \in Others(c)}

-----------------------------------------------------------------------------
(* The first half of each handler: it takes its row locks, loads the rows  *)
(* and computes.  locks are the rows of stages, tasks and workers it holds *)
(* from now on; writes are the tasks whose rows it is going to write.      *)

Locks(stages, tasks, workers) ==
  [stages |-> stages, tasks |-> tasks, workers |-> workers]

Load(c, st, ts, locks, writes) ==
  /\ locks.stages \cap LockedStages(c) = {}
  /\ locks.tasks \cap LockedTasks(c) = {}
  /\ locks.workers \cap LockedWorkers(c) = {}
  /\ tx' = [tx EXCEPT ![c] =
              [phase |-> "open", call |-> tx[c].call, at |-> tx[c].at,
               stages |-> locks.stages, tasks |-> locks.tasks,
               workers |-> locks.workers, writes |-> writes,
               loaded |-> [stage |-> stage, task |-> task],
               wanted |-> [stage |-> st, task |-> ts]]]

(* _reconcile_task writes the row of its task in any case (updated_at). *)
LoadReconciled(c, rows, affected, locked) ==
  /\ TransitionsAllowed(rows, affected)
  /\ Load(c, ReconciledStages(rows, affected),
          [t \in Tasks |-> IF t \in affected
                             THEN ReconciledTask(rows, t, task[t])
                             ELSE task[t]],
          Locks(locked, {}, {}), affected)

(* The query for pending rows locks each row it returns, with its task,    *)
(* and skips those that are locked.                                        *)
Unlocked(c, at) ==
  {s \in Stages \ LockedStages(c) :
     /\ stage[s].status = "pending" /\ stage[s].available_at <= at
     /\ TaskOf[s] \notin LockedTasks(c)
     /\ task[TaskOf[s]].status \in OpenStatuses}

LoadLease(c, w, at) ==
  LET found == Unlocked(c, at)
  IN /\ AcceptsLeases(worker[w])
     /\ \E granted \in (SUBSET found) \ {{}}, d \in Devices :
          LET claimed == {t \in Tasks : /\ task[t].status = "pending"
                                        /\ \E s \in granted : TaskOf[s] = t}
          IN /\ Cardinality(granted) <= FreeSlots(w)
             /\ \A s \in granted : /\ DependenciesSatisfied(s)
                                   /\ Len(issued[s]) < MaxLeases
             /\ Load(c,
                     [s \in Stages |->
                        IF s \in granted
                          THEN At(at)!LeasedStage(stage[s], w, d,
                                                  Len(issued[s]) + 1)
                          ELSE stage[s]],
                     [t \in Tasks |->
                        IF t \in claimed
                          THEN [task[t] EXCEPT !.status = "leased"]
                          ELSE task[t]],
                     Locks(found, {TaskOf[s] : s \in found}, {w}), claimed)

LoadRenew(c, s, w, k, at) ==
  /\ At(at)!RequireValidLease(s, w, k)
  /\ Active(stage[s])
  /\ Load(c, [stage EXCEPT ![s].expires = at + LeaseDuration], task,
          Locks({s}, {}, {}), {})

LoadStart(c, s, w, k, at) ==
  LET t == TaskOf[s]
      first == {x \in {t} : task[x].status = "leased"}
  IN /\ At(at)!RequireValidLease(s, w, k)
     /\ stage[s].status = "leased"
     /\ Load(c, [stage EXCEPT ![s].status = "running", ![s].started = TRUE],
             [x \in Tasks |-> IF x \in first
                                THEN [task[x] EXCEPT !.status = "running",
                                                     !.started = TRUE]
                                ELSE task[x]],
             Locks({s}, {}, {}), first)

LoadComplete(c, s, w, k, at, request) ==
  LET r == [stage[s] EXCEPT
              !.completion = [worker |-> w, device |-> stage[s].device,
                              token |-> k, request |-> request]]
  IN /\ stage[s].completion = NoCompletion
     /\ At(at)!RequireValidLease(s, w, k)
     /\ stage[s].status = "running"
     /\ LoadReconciled(c,
          [stage EXCEPT ![s] = IF request = "failed"
                                 THEN At(at)!FailOrRetryStage(s, r)
                                 ELSE SucceedStage(r, request)],
          {TaskOf[s]}, {s})

(* The loop of requeue_expired gets through when the query returns a fatal *)
(* stage after the others of its task.                                     *)
LoadReconcile(c, at) ==
  LET found == At(at)!Expired \ LockedStages(c)
  IN /\ \A s, x \in found : TaskOf[s] = TaskOf[x] /\ s # x =>
                              ~(Fatal(s) /\ Fatal(x))
     /\ LoadReconciled(c,
          [s \in Stages |-> IF s \in found
                              THEN At(at)!FailOrRetryStage(s, stage[s])
                              ELSE stage[s]],
          {TaskOf[s] : s \in found}, found)

LoadCancel(c, t) ==
  /\ task[t].status \notin TaskTerminalStatuses
  /\ Load(c, [s \in Stages |-> IF s \in StagesToCancel(t)
                                 THEN CancelledStage(stage[s])
                                 ELSE stage[s]],
          [task EXCEPT ![t].status = "cancelled", ![t].completed = TRUE],
          Locks({}, {t}, {}), {t})

LoadRetry(c, t) ==
  /\ task[t].status \in {"failed", "cancelled"}
  /\ Load(c, [s \in Stages |-> IF s \in StagesToRetry(t)
                                 THEN RetriedStage(stage[s])
                                 ELSE stage[s]],
          [task EXCEPT ![t] = [status |-> "pending", started |-> FALSE,
                               completed |-> FALSE, error |-> FALSE,
                               result |-> FALSE]],
          Locks({}, {t}, {}), {t})

-----------------------------------------------------------------------------
(* A call reaches a handler, which reads the clock before it asks for any  *)
(* lock.                                                                   *)
TokenCalls ==
  UNION {[op : {"renew", "start"} \cup Requests, stage : {s},
          token : DOMAIN issued[s]] : s \in Stages}

Calls ==
  {call \in [op : {"lease"}, worker : Workers] \cup TokenCalls
              \cup [op : {"reconcile"}]
              \cup [op : {"cancel", "retry"}, task : Tasks] : call.op \in Operations}

Arrive(c) ==
  /\ tx[c] = Idle
  /\ \E call \in Calls :
       tx' = [tx EXCEPT ![c] = [phase |-> "waiting", call |-> call, at |-> now]]
  /\ UNCHANGED vars

LoadCall(c, call, at) ==
  CASE call.op = "lease" -> LoadLease(c, call.worker, at)
    [] call.op = "reconcile" -> LoadReconcile(c, at)
    [] call.op = "cancel" -> LoadCancel(c, call.task)
    [] call.op = "retry" -> LoadRetry(c, call.task)
    [] call.op \in {"renew", "start"} \cup Requests ->
         LET s == call.stage
             k == call.token
             w == issued[s][k]
         IN CASE call.op = "renew" -> LoadRenew(c, s, w, k, at)
              [] call.op = "start" -> LoadStart(c, s, w, k, at)
              [] OTHER -> LoadComplete(c, s, w, k, at, call.op)

Begin(c) ==
  /\ tx[c].phase = "waiting"
  /\ LoadCall(c, tx[c].call, tx[c].at)
  /\ UNCHANGED vars

(* The flush writes the task rows first and so locks them. *)
FlushTasks(c) ==
  /\ tx[c].phase = "open"
  /\ tx[c].writes \cap LockedTasks(c) = {}
  /\ tx' = [tx EXCEPT ![c].phase = "flushed",
                      ![c].tasks = tx[c].tasks \cup tx[c].writes]
  /\ UNCHANGED vars

(* An UPDATE carries the columns that differ from the row as it was        *)
(* loaded; the others keep what has been committed since.                  *)
Updated(row, loaded, wanted) ==
  [f \in DOMAIN row |-> IF wanted[f] # loaded[f] THEN wanted[f] ELSE row[f]]

WrittenStages(x) == {s \in Stages : x.wanted.stage[s] # x.loaded.stage[s]}

(* The worker rows a transaction ends with: lease counts the slots it saw  *)
(* free; _release_worker_if_idle locks the row and counts anew.            *)
FilledSlots(x) ==
  Cardinality(WrittenStages(x) \cup ActiveStages(x.loaded.stage, x.call.worker))

CommittedWorkers(x, st) ==
  CASE x.call.op = "lease" ->
         [w \in Workers |->
            IF w = x.call.worker /\ FilledSlots(x) >= worker[w].maximum_concurrency
              THEN [worker[w] EXCEPT !.status = "busy"]
              ELSE worker[w]]
    [] x.call.op \in Requests ->
         Released(worker, st, {issued[x.call.stage][x.call.token]})
    [] x.call.op = "reconcile" ->
         Released(At(x.at)!OfflineSweep, st,
                  {x.loaded.stage[s].worker : s \in x.stages})
    [] OTHER -> worker

(* Then the stage rows are written, the worker's row is seen to, and the   *)
(* transaction commits.                                                    *)
Commit(c) ==
  LET x == tx[c]
  IN /\ x.phase = "flushed"
     /\ WrittenStages(x) \cap LockedStages(c) = {}
     /\ stage' = [s \in Stages |->
                    Updated(stage[s], x.loaded.stage[s], x.wanted.stage[s])]
     /\ task' = [t \in Tasks |->
                   Updated(task[t], x.loaded.task[t], x.wanted.task[t])]
     /\ event' = [t \in Tasks |->
                    LET from == x.loaded.task[t].status
                        to == x.wanted.task[t].status
                    IN IF from # to THEN StatusEvent(from, to) ELSE event[t]]
     /\ issued' = [s \in Stages |->
                     IF x.call.op = "lease" /\ s \in WrittenStages(x)
                       THEN Append(issued[s], x.call.worker)
                       ELSE issued[s]]
     /\ worker' = CommittedWorkers(x, stage')
     /\ \A w \in LockedWorkers(c) : worker'[w] = worker[w]
     /\ tx' = [tx EXCEPT ![c] = Idle]
     /\ UNCHANGED now

(* The handler refuses the call, its process dies, or the database breaks  *)
(* a deadlock by aborting it: nothing of it stays.                         *)
Rollback(c) ==
  /\ tx[c] # Idle
  /\ tx' = [tx EXCEPT ![c] = Idle]
  /\ UNCHANGED vars
-----------------------------------------------------------------------------
(* The fleet is registered and the tasks are routed. *)
TxInit ==
  /\ now = 0
  /\ worker \in [Workers -> {[status |-> "online", enabled |-> TRUE,
                              maximum_concurrency |-> n, sequence |-> -1,
                              last_heartbeat |-> 0] : n \in Concurrencies}]
  /\ RowsInit
  /\ tx = [c \in Sessions |-> Idle]

TxNext ==
  \/ Tick /\ UNCHANGED <<stage, task, issued, event, tx>>
  \/ \E c \in Sessions :
       Arrive(c) \/ Begin(c) \/ FlushTasks(c) \/ Commit(c) \/ Rollback(c)

TxSpec == TxInit /\ [][TxNext]_txVars

-----------------------------------------------------------------------------
(* What the row locks secure also for stages that run side by side: an     *)
(* active stage is held under the last token issued for it by the worker   *)
(* that was given it, so that two overlapping polls never hand out one     *)
(* stage and no overlapping handler brings an old lease back.              *)
ActiveLeaseIsLast ==
  \A s \in Stages : Active(stage[s]) =>
    /\ stage[s].token = Len(issued[s])
    /\ stage[s].worker = issued[s][Len(issued[s])]

(* A worker is never given more stages than it takes at a time: two polls  *)
(* of one worker that overlap do not both count the slots that are free.   *)
SlotsRespected ==
  \A w \in Workers :
    Cardinality(ActiveStages(stage, w)) <= worker[w].maximum_concurrency

(* A task whose stages are all succeeded or skipped is succeeded. *)
FinishedTasksEnd ==
  \A t \in Tasks : AllDone(stage, t) => task[t].status = "succeeded"
=============================================================================

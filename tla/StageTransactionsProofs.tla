---------------------- MODULE StageTransactionsProofs ----------------------
(***************************************************************************)
(* Proofs about the handlers of StageScheduler when their transactions     *)
(* overlap, for every number of sessions, workers, tasks and stages.       *)
(*                                                                         *)
(* For every form of pipeline, the row locks keep each active stage with   *)
(* the worker that holds its last token.  Only three columns of a stage    *)
(* row matter for that: who holds the stage, under which token, and        *)
(* whether it is active at all.  For every form of pipeline, too, a worker *)
(* holds no more stages than it declares.                                  *)
(*                                                                         *)
(* For pipelines whose stages follow one another, each commit does what    *)
(* the handler does in one step, and the rows keep what StageScheduler     *)
(* promises of them.                                                       *)
(***************************************************************************)
EXTENDS StageTransactions, StageSchedulerProofs, WellFoundedInduction

LeaseColumns == {"status", "worker", "token"}

Handlers == {"lease", "renew", "start", "reconcile", "cancel", "retry"} \cup Requests

TransactionFields ==
  {"phase", "call", "at", "stages", "tasks", "workers", "writes", "loaded", "wanted"}

(* What a call that has arrived carries. *)
CallSound(call) ==
  /\ call.op \in Handlers
  /\ call.op = "lease" => call.worker \in Workers

(* What a handler is about to make of a stage.                             *)
Leaves(old, new) == new = old

(* It ends the stage's lease, or closes or reopens a stage that has none;  *)
(* this needs no lock.                                                     *)
Deactivates(old, new) ==
  new.status # old.status /\ new.status \notin ActiveStatuses

(* It goes on under the lease that it has found: renew and start.          *)
Continues(old, new) ==
  /\ old.status \in ActiveStatuses
  /\ new.token = old.token /\ new.worker = old.worker

(* It grants the stage under the token that comes next.                    *)
Grants(old, new, w, tokens) ==
  /\ new.status \in ActiveStatuses /\ new.status # old.status
  /\ new.token = Len(tokens) + 1 /\ new.worker = w

(* What the handler of a call wants of stage s: one of these, the last two *)
(* only of a stage that it has locked.                                     *)
Intent(call, locked, s, old, new) ==
  \/ Leaves(old, new)
  \/ call.op # "lease" /\ Deactivates(old, new)
  \/ call.op # "lease" /\ s \in locked /\ Continues(old, new)
  \/ call.op = "lease" /\ s \in locked /\ Grants(old, new, call.worker, issued[s])

(* A stage that a transaction has locked is as it was loaded. *)
AsLoaded(x, s) ==
  s \in x.stages => \A f \in LeaseColumns : stage[s][f] = x.loaded.stage[s][f]

PlanSound(x) ==
  /\ DOMAIN x = TransactionFields
  /\ \A s \in Stages :
       /\ AsLoaded(x, s)
       /\ Intent(x.call, x.stages, s, x.loaded.stage[s], x.wanted.stage[s])

HoldsLocks(x) == x.phase \in {"open", "flushed"}

SessionSound(x) ==
  /\ x # Idle => CallSound(x.call)
  /\ HoldsLocks(x) => PlanSound(x)

LocksApart(x, y) ==
  HoldsLocks(x) /\ HoldsLocks(y) => x.stages \cap y.stages = {}

RowsSound ==
  /\ DOMAIN stage = Stages
  /\ \A s \in Stages : LeaseColumns \subseteq DOMAIN stage[s]
  /\ issued \in [Stages -> Seq(Workers)]
  /\ tx = [c \in Sessions |-> tx[c]]

SessionsSound ==
  /\ \A c \in Sessions : SessionSound(tx[c])
  /\ \A c, d \in Sessions : c # d => LocksApart(tx[c], tx[d])

TransactionInv == RowsSound /\ SessionsSound /\ ActiveLeaseIsLast

-----------------------------------------------------------------------------
LEMMA TransactionInit == TxInit => TransactionInv
<1> SUFFICES ASSUME TxInit PROVE TransactionInv
  OBVIOUS
<1>1. RowsSound
  BY DEF TxInit, RowsInit, RowsSound, LeaseColumns
<1>2. SessionsSound
  BY DEF TxInit, SessionsSound, SessionSound, LocksApart, HoldsLocks, Idle
<1>3. ActiveLeaseIsLast
  BY DEF TxInit, RowsInit, ActiveLeaseIsLast, Active, ActiveStatuses
<1> QED BY <1>1, <1>2, <1>3 DEF TransactionInv

(* A step that leaves the committed rows alone and brings one session to a *)
(* sound state, apart from the others, keeps the invariant.                *)
LEMMA SessionMoves ==
  ASSUME TransactionInv, UNCHANGED vars, NEW c \in Sessions, NEW x,
         tx' = [tx EXCEPT ![c] = x], SessionSound(x),
         \A d \in Sessions \ {c} : LocksApart(x, tx[d])
  PROVE  TransactionInv'
<1> USE DEF TransactionInv
<1>1. /\ tx'[c] = x
      /\ \A d \in Sessions \ {c} : tx'[d] = tx[d]
      /\ tx' = [d \in Sessions |-> tx'[d]]
  BY DEF RowsSound
<1>2. stage' = stage /\ issued' = issued
  BY DEF vars
<1>3. RowsSound'
  BY <1>1, <1>2 DEF RowsSound
<1>4. \A d \in Sessions : SessionSound(tx[d])'
  <2> SUFFICES ASSUME NEW d \in Sessions PROVE SessionSound(tx[d])'
    OBVIOUS
  <2>1. SessionSound(tx'[d])
    BY <1>1 DEF SessionsSound
  <2> QED
    BY <2>1, <1>2 DEF SessionSound, CallSound, HoldsLocks, PlanSound, AsLoaded,
                      Intent, Grants
<1>5. \A d, e \in Sessions : d # e => LocksApart(tx[d], tx[e])'
  <2> SUFFICES ASSUME NEW d \in Sessions, NEW e \in Sessions, d # e
               PROVE  LocksApart(tx'[d], tx'[e])
    BY DEF LocksApart, HoldsLocks
  <2>1. CASE d = c
    BY <2>1, <1>1
  <2>2. CASE e = c
    BY <2>2, <1>1 DEF LocksApart, HoldsLocks
  <2>3. CASE d # c /\ e # c
    BY <2>3, <1>1 DEF SessionsSound
  <2> QED BY <2>1, <2>2, <2>3
<1>6. ActiveLeaseIsLast'
  BY <1>2 DEF ActiveLeaseIsLast, Active
<1> QED BY <1>3, <1>4, <1>5, <1>6 DEF SessionsSound

(* A call that arrives is one of a handler, and a poll names its worker. *)
LEMMA ArrivedCall ==
  ASSUME NEW call \in Calls
  PROVE  CallSound(call)
<1>1. call.op \in Handlers
  BY OperationsAssumption DEF Calls, Handlers
<1>2. ASSUME call.op = "lease" PROVE call.worker \in Workers
  <2>1. call \notin TokenCalls
    BY <1>2 DEF TokenCalls, Requests
  <2>2. call \in [op : {"lease"}, worker : Workers]
    BY <1>2, <2>1 DEF Calls
  <2> QED BY <2>2
<1> QED BY <1>1, <1>2 DEF CallSound

LEMMA ArriveKeeps ==
  ASSUME TransactionInv, NEW c \in Sessions, Arrive(c)
  PROVE  TransactionInv'
<1>1. PICK call \in Calls :
        tx' = [tx EXCEPT ![c] = [phase |-> "waiting", call |-> call, at |-> now]]
  BY DEF Arrive
<1> DEFINE x == [phase |-> "waiting", call |-> call, at |-> now]
<1>2. SessionSound(x)
  BY ArrivedCall DEF SessionSound, HoldsLocks
<1>3. \A d \in Sessions \ {c} : LocksApart(x, tx[d])
  BY DEF LocksApart, HoldsLocks
<1>4. tx' = [tx EXCEPT ![c] = x] /\ UNCHANGED vars
  BY <1>1 DEF Arrive
<1> HIDE DEF x
<1> QED BY <1>2, <1>3, <1>4, SessionMoves

LEMMA RollbackKeeps ==
  ASSUME TransactionInv, NEW c \in Sessions, Rollback(c)
  PROVE  TransactionInv'
<1>1. SessionSound(Idle)
  BY DEF SessionSound, HoldsLocks, Idle
<1>2. \A d \in Sessions \ {c} : LocksApart(Idle, tx[d])
  BY DEF LocksApart, HoldsLocks, Idle
<1>3. tx' = [tx EXCEPT ![c] = Idle] /\ UNCHANGED vars
  BY DEF Rollback
<1> QED BY <1>1, <1>2, <1>3, SessionMoves

LEMMA FlushKeeps ==
  ASSUME TransactionInv, NEW c \in Sessions, FlushTasks(c)
  PROVE  TransactionInv'
<1> DEFINE old == tx[c]
           x == [old EXCEPT !.phase = "flushed",
                            !.tasks = old.tasks \cup old.writes]
<1>1. /\ HoldsLocks(old) /\ old # Idle
      /\ SessionSound(old)
      /\ \A d \in Sessions \ {c} : LocksApart(old, tx[d])
  BY DEF FlushTasks, HoldsLocks, TransactionInv, SessionsSound, Idle
<1>2. DOMAIN old = TransactionFields
  BY <1>1 DEF SessionSound, PlanSound
<1>3. tx' = [tx EXCEPT ![c] = x] /\ UNCHANGED vars
  BY DEF FlushTasks, TransactionInv, RowsSound
<1>4. /\ HoldsLocks(x)
      /\ x.call = old.call /\ x.stages = old.stages
      /\ x.loaded = old.loaded /\ x.wanted = old.wanted
      /\ DOMAIN x = TransactionFields
  BY <1>2 DEF TransactionFields, HoldsLocks
<1> HIDE DEF old, x
<1>5. SessionSound(x)
  BY <1>1, <1>4 DEF SessionSound, PlanSound, AsLoaded
<1>6. \A d \in Sessions \ {c} : LocksApart(x, tx[d])
  BY <1>1, <1>4 DEF LocksApart
<1> QED BY <1>3, <1>5, <1>6, SessionMoves

-----------------------------------------------------------------------------
(* A handler that has its locks and wants what it may keeps the invariant. *)
LEMMA LoadKeeps ==
  ASSUME TransactionInv, NEW c \in Sessions, tx[c].phase = "waiting",
         UNCHANGED vars, NEW st, NEW ts, NEW locks, NEW writes,
         Load(c, st, ts, locks, writes),
         \A s \in Stages : Intent(tx[c].call, locks.stages, s, stage[s], st[s])
  PROVE  TransactionInv'
<1> DEFINE x == [phase |-> "open", call |-> tx[c].call, at |-> tx[c].at,
                 stages |-> locks.stages, tasks |-> locks.tasks,
                 workers |-> locks.workers, writes |-> writes,
                 loaded |-> [stage |-> stage, task |-> task],
                 wanted |-> [stage |-> st, task |-> ts]]
<1>1. tx' = [tx EXCEPT ![c] = x]
  BY DEF Load
<1>2. /\ DOMAIN x = TransactionFields /\ x.phase = "open"
      /\ x.call = tx[c].call /\ x.stages = locks.stages
      /\ x.loaded.stage = stage /\ x.wanted.stage = st
  BY DEF TransactionFields
<1> HIDE DEF x
<1>3. CallSound(tx[c].call)
  BY DEF TransactionInv, SessionsSound, SessionSound, Idle
<1>4. SessionSound(x)
  BY <1>2, <1>3 DEF SessionSound, PlanSound, AsLoaded
<1>5. \A d \in Sessions \ {c} : LocksApart(x, tx[d])
  <2> SUFFICES ASSUME NEW d \in Sessions \ {c}, HoldsLocks(tx[d])
               PROVE  locks.stages \cap tx[d].stages = {}
    BY <1>2 DEF LocksApart
  <2>1. d \in Others(c)
    BY DEF Others, InTransaction, HoldsLocks
  <2>2. tx[d].stages \subseteq LockedStages(c)
    BY <2>1 DEF LockedStages
  <2> QED BY <2>2 DEF Load
<1> QED BY <1>1, <1>4, <1>5, SessionMoves

(* What the private methods leave of a row is not active. *)
LEMMA EndedAttempt ==
  ASSUME NEW at, NEW s, NEW r, LeaseColumns \subseteq DOMAIN r
  PROVE  LET new == At(at)!FailOrRetryStage(s, r)
         IN /\ new.status \notin ActiveStatuses
            /\ LeaseColumns \subseteq DOMAIN new
BY DEF At!FailOrRetryStage, At!Requeued, At!ClearLease, LeaseColumns, ActiveStatuses

LEMMA EndedWell ==
  ASSUME NEW r, NEW request, LeaseColumns \subseteq DOMAIN r
  PROVE  LET new == SucceedStage(r, request)
         IN /\ new.status \notin ActiveStatuses
            /\ LeaseColumns \subseteq DOMAIN new
BY DEF SucceedStage, ClearLease, LeaseColumns, ActiveStatuses

(* _reconcile_task after a handler has ended attempts: it cancels stages   *)
(* that are open, which its handler need not have locked.                  *)
LEMMA ReconciledKeeps ==
  ASSUME TransactionInv, NEW c \in Sessions, tx[c].phase = "waiting",
         tx[c].call.op # "lease", UNCHANGED vars,
         NEW rows, NEW affected, NEW locked,
         LoadReconciled(c, rows, affected, locked),
         \A s \in Stages :
           /\ LeaseColumns \subseteq DOMAIN rows[s]
           /\ \/ rows[s] = stage[s]
              \/ /\ Active(stage[s])
                 /\ rows[s].status \notin ActiveStatuses
  PROVE  TransactionInv'
<1> DEFINE st == ReconciledStages(rows, affected)
           ts == [t \in Tasks |-> IF t \in affected
                                    THEN ReconciledTask(rows, t, task[t])
                                    ELSE task[t]]
           locks == Locks(locked, {}, {})
<1>1. Load(c, st, ts, locks, affected)
  BY DEF LoadReconciled
<1>2. \A s \in Stages : Intent(tx[c].call, locks.stages, s, stage[s], st[s])
  <2> SUFFICES ASSUME NEW s \in Stages
               PROVE  Leaves(stage[s], st[s]) \/ Deactivates(stage[s], st[s])
    BY DEF Intent
  <2>1. CASE st[s] = rows[s]
    BY <2>1 DEF Leaves, Deactivates, Active
  <2>2. CASE rows[s].status \in OpenStatuses /\ st[s] = CancelledSibling(rows[s])
    <3>1. st[s].status = "cancelled"
      BY <2>2 DEF CancelledSibling, ClearLease, LeaseColumns
    <3>2. stage[s].status # "cancelled"
      BY <2>2 DEF Active, ActiveStatuses, OpenStatuses
    <3> QED BY <3>1, <3>2 DEF Deactivates, ActiveStatuses
  <2> QED BY <2>1, <2>2 DEF ReconciledStages
<1> HIDE DEF st, ts, locks
<1> QED BY <1>1, <1>2, LoadKeeps

(* The first halves of the handlers, one after the other. *)
LEMMA LeaseLoads ==
  ASSUME TransactionInv, NEW c \in Sessions, tx[c].phase = "waiting",
         UNCHANGED vars, NEW w, NEW at, LoadLease(c, w, at),
         tx[c].call.op = "lease", tx[c].call.worker = w
  PROVE  TransactionInv'
<1> DEFINE found == Unlocked(c, at)
           claimed(granted) == {t \in Tasks : /\ task[t].status = "pending"
                                              /\ \E s \in granted : TaskOf[s] = t}
           rows(granted, d) ==
             [s \in Stages |-> IF s \in granted
                                 THEN At(at)!LeasedStage(stage[s], w, d,
                                                         Len(issued[s]) + 1)
                                 ELSE stage[s]]
           tasks(granted) ==
             [t \in Tasks |-> IF t \in claimed(granted)
                                THEN [task[t] EXCEPT !.status = "leased"]
                                ELSE task[t]]
           locks == Locks(found, {TaskOf[s] : s \in found}, {w})
<1>1. PICK granted \in (SUBSET found) \ {{}}, d \in Devices :
        Load(c, rows(granted, d), tasks(granted), locks, claimed(granted))
  BY DEF LoadLease
<1> DEFINE st == rows(granted, d)
           ts == tasks(granted)
           writes == claimed(granted)
<1>2. \A s \in Stages : Intent(tx[c].call, locks.stages, s, stage[s], st[s])
  <2> SUFFICES ASSUME NEW s \in Stages
               PROVE  Intent(tx[c].call, locks.stages, s, stage[s], st[s])
    OBVIOUS
  <2>1. CASE s \notin granted
    BY <2>1 DEF Intent, Leaves
  <2>2. CASE s \in granted
    <3>1. s \in locks.stages /\ stage[s].status = "pending"
      BY <2>2 DEF Locks, Unlocked
    <3>2. LeaseColumns \subseteq DOMAIN stage[s]
      BY DEF TransactionInv, RowsSound
    <3>3. st[s] = At(at)!LeasedStage(stage[s], w, d, Len(issued[s]) + 1)
      BY <2>2
    <3> HIDE DEF st
    <3>4. /\ st[s].status = "leased" /\ st[s].worker = w
          /\ st[s].token = Len(issued[s]) + 1
      BY <3>2, <3>3 DEF At!LeasedStage, LeaseColumns
    <3>5. Grants(stage[s], st[s], w, issued[s])
      BY <3>1, <3>4 DEF Grants, ActiveStatuses
    <3> QED BY <3>1, <3>5 DEF Intent
  <2> QED BY <2>1, <2>2
<1>3. Load(c, st, ts, locks, writes)
  BY <1>1
<1> HIDE DEF st, ts, locks, writes
<1> QED BY <1>2, <1>3, LoadKeeps

LEMMA RenewLoads ==
  ASSUME TransactionInv, NEW c \in Sessions, tx[c].phase = "waiting",
         UNCHANGED vars, NEW s, NEW w, NEW k, NEW at, LoadRenew(c, s, w, k, at),
         tx[c].call.op # "lease"
  PROVE  TransactionInv'
<1> DEFINE st == [stage EXCEPT ![s].expires = at + LeaseDuration]
           locks == Locks({s}, {}, {})
           none == {}
<1>1. Load(c, st, task, locks, none) /\ Active(stage[s])
  BY DEF LoadRenew
<1>2. \A x \in Stages : Intent(tx[c].call, locks.stages, x, stage[x], st[x])
  <2> SUFFICES ASSUME NEW x \in Stages
               PROVE  Intent(tx[c].call, locks.stages, x, stage[x], st[x])
    OBVIOUS
  <2>1. LeaseColumns \subseteq DOMAIN stage[x] /\ x \in DOMAIN stage
    BY DEF TransactionInv, RowsSound
  <2>2. CASE x # s
    BY <2>1, <2>2 DEF Intent, Leaves
  <2>3. CASE x = s
    BY <1>1, <2>1, <2>3 DEF Intent, Continues, Locks, LeaseColumns, Active
  <2> QED BY <2>2, <2>3
<1> HIDE DEF st, locks, none
<1> QED BY <1>1, <1>2, LoadKeeps

LEMMA StartLoads ==
  ASSUME TransactionInv, NEW c \in Sessions, tx[c].phase = "waiting",
         UNCHANGED vars, NEW s, NEW w, NEW k, NEW at, LoadStart(c, s, w, k, at),
         tx[c].call.op # "lease"
  PROVE  TransactionInv'
<1> DEFINE st == [stage EXCEPT ![s].status = "running", ![s].started = TRUE]
           first == {x \in {TaskOf[s]} : task[x].status = "leased"}
           ts == [x \in Tasks |-> IF x \in first
                                    THEN [task[x] EXCEPT !.status = "running",
                                                         !.started = TRUE]
                                    ELSE task[x]]
           locks == Locks({s}, {}, {})
<1>1. Load(c, st, ts, locks, first) /\ stage[s].status = "leased"
  BY DEF LoadStart
<1>2. \A x \in Stages : Intent(tx[c].call, locks.stages, x, stage[x], st[x])
  <2> SUFFICES ASSUME NEW x \in Stages
               PROVE  Intent(tx[c].call, locks.stages, x, stage[x], st[x])
    OBVIOUS
  <2>1. LeaseColumns \subseteq DOMAIN stage[x] /\ x \in DOMAIN stage
    BY DEF TransactionInv, RowsSound
  <2>2. CASE x # s
    BY <2>1, <2>2 DEF Intent, Leaves
  <2>3. CASE x = s
    BY <1>1, <2>1, <2>3 DEF Intent, Continues, Locks, LeaseColumns, ActiveStatuses
  <2> QED BY <2>2, <2>3
<1> HIDE DEF st, ts, locks, first
<1> QED BY <1>1, <1>2, LoadKeeps

LEMMA CompleteLoads ==
  ASSUME TransactionInv, NEW c \in Sessions, tx[c].phase = "waiting",
         UNCHANGED vars, NEW s, NEW w, NEW k, NEW at, NEW request,
         LoadComplete(c, s, w, k, at, request), tx[c].call.op # "lease"
  PROVE  TransactionInv'
<1> DEFINE r == [stage[s] EXCEPT
                   !.completion = [worker |-> w, device |-> stage[s].device,
                                   token |-> k, request |-> request]]
           ended == IF request = "failed" THEN At(at)!FailOrRetryStage(s, r)
                                          ELSE SucceedStage(r, request)
           rows == [stage EXCEPT ![s] = ended]
           affected == {TaskOf[s]}
           locked == {s}
<1>1. LoadReconciled(c, rows, affected, locked) /\ stage[s].status = "running"
  BY DEF LoadComplete
<1>2. \A x \in Stages :
        /\ LeaseColumns \subseteq DOMAIN rows[x]
        /\ \/ rows[x] = stage[x]
           \/ Active(stage[x]) /\ rows[x].status \notin ActiveStatuses
  <2> SUFFICES ASSUME NEW x \in Stages
               PROVE  /\ LeaseColumns \subseteq DOMAIN rows[x]
                      /\ \/ rows[x] = stage[x]
                         \/ /\ Active(stage[x])
                            /\ rows[x].status \notin ActiveStatuses
    OBVIOUS
  <2>1. LeaseColumns \subseteq DOMAIN stage[x] /\ x \in DOMAIN stage
    BY DEF TransactionInv, RowsSound
  <2>2. CASE x # s
    BY <2>1, <2>2
  <2>3. CASE x = s
    <3>1. LeaseColumns \subseteq DOMAIN r
      BY <2>1, <2>3
    <3> HIDE DEF r
    <3>2. ended.status \notin ActiveStatuses /\ LeaseColumns \subseteq DOMAIN ended
      BY <3>1, EndedAttempt, EndedWell
    <3> HIDE DEF ended
    <3>3. rows[x] = ended
      BY <2>1, <2>3
    <3> QED BY <1>1, <2>3, <3>2, <3>3 DEF Active, ActiveStatuses
  <2> QED BY <2>2, <2>3
<1> HIDE DEF rows, affected, locked
<1> QED BY <1>1, <1>2, ReconciledKeeps

LEMMA ReconcileLoads ==
  ASSUME TransactionInv, NEW c \in Sessions, tx[c].phase = "waiting",
         UNCHANGED vars, NEW at, LoadReconcile(c, at), tx[c].call.op # "lease"
  PROVE  TransactionInv'
<1> DEFINE found == At(at)!Expired \ LockedStages(c)
           rows == [s \in Stages |-> IF s \in found
                                       THEN At(at)!FailOrRetryStage(s, stage[s])
                                       ELSE stage[s]]
           affected == {TaskOf[s] : s \in found}
<1>1. LoadReconciled(c, rows, affected, found)
  BY DEF LoadReconcile
<1>2. \A s \in Stages :
        /\ LeaseColumns \subseteq DOMAIN rows[s]
        /\ \/ rows[s] = stage[s]
           \/ Active(stage[s]) /\ rows[s].status \notin ActiveStatuses
  <2> SUFFICES ASSUME NEW s \in Stages
               PROVE  /\ LeaseColumns \subseteq DOMAIN rows[s]
                      /\ \/ rows[s] = stage[s]
                         \/ /\ Active(stage[s])
                            /\ rows[s].status \notin ActiveStatuses
    OBVIOUS
  <2>1. LeaseColumns \subseteq DOMAIN stage[s]
    BY DEF TransactionInv, RowsSound
  <2>2. CASE s \notin found
    BY <2>1, <2>2
  <2>3. CASE s \in found
    <3>1. Active(stage[s])
      BY <2>3 DEF At!Expired, At!Active, Active, At!ActiveStatuses, ActiveStatuses
    <3> DEFINE ended == At(at)!FailOrRetryStage(s, stage[s])
    <3>2. ended.status \notin ActiveStatuses /\ LeaseColumns \subseteq DOMAIN ended
      BY <2>1, EndedAttempt
    <3>3. rows[s] = ended
      BY <2>3
    <3> HIDE DEF rows, ended
    <3> QED BY <3>1, <3>2, <3>3
  <2> QED BY <2>2, <2>3
<1> HIDE DEF rows, affected, found
<1> QED BY <1>1, <1>2, ReconciledKeeps

LEMMA CancelLoads ==
  ASSUME TransactionInv, NEW c \in Sessions, tx[c].phase = "waiting",
         UNCHANGED vars, NEW t, LoadCancel(c, t), tx[c].call.op # "lease"
  PROVE  TransactionInv'
<1> DEFINE st == [s \in Stages |-> IF s \in StagesToCancel(t)
                                     THEN CancelledStage(stage[s]) ELSE stage[s]]
           ts == [task EXCEPT ![t].status = "cancelled", ![t].completed = TRUE]
           locks == Locks({}, {t}, {})
           writes == {t}
<1>1. Load(c, st, ts, locks, writes)
  BY DEF LoadCancel
<1>2. \A s \in Stages : Intent(tx[c].call, locks.stages, s, stage[s], st[s])
  <2> SUFFICES ASSUME NEW s \in Stages
               PROVE  Leaves(stage[s], st[s]) \/ Deactivates(stage[s], st[s])
    BY DEF Intent
  <2>1. CASE s \notin StagesToCancel(t)
    BY <2>1 DEF Leaves
  <2>2. CASE s \in StagesToCancel(t)
    <3>1. LeaseColumns \subseteq DOMAIN stage[s]
      BY DEF TransactionInv, RowsSound
    <3>2. st[s].status = "cancelled"
      BY <2>2, <3>1 DEF CancelledStage, LeaseColumns
    <3>3. stage[s].status # "cancelled"
      BY <2>2 DEF StagesToCancel, OpenStatuses
    <3> QED BY <3>2, <3>3 DEF Deactivates, ActiveStatuses
  <2> QED BY <2>1, <2>2
<1> HIDE DEF st, ts, locks, writes
<1> QED BY <1>1, <1>2, LoadKeeps

LEMMA RetryLoads ==
  ASSUME TransactionInv, NEW c \in Sessions, tx[c].phase = "waiting",
         UNCHANGED vars, NEW t, LoadRetry(c, t), tx[c].call.op # "lease"
  PROVE  TransactionInv'
<1> DEFINE st == [s \in Stages |-> IF s \in StagesToRetry(t)
                                     THEN RetriedStage(stage[s]) ELSE stage[s]]
           ts == [task EXCEPT ![t] = [status |-> "pending", started |-> FALSE,
                                      completed |-> FALSE, error |-> FALSE,
                                      result |-> FALSE]]
           locks == Locks({}, {t}, {})
           writes == {t}
<1>1. Load(c, st, ts, locks, writes)
  BY DEF LoadRetry
<1>2. \A s \in Stages : Intent(tx[c].call, locks.stages, s, stage[s], st[s])
  <2> SUFFICES ASSUME NEW s \in Stages
               PROVE  Leaves(stage[s], st[s]) \/ Deactivates(stage[s], st[s])
    BY DEF Intent
  <2>1. CASE s \notin StagesToRetry(t)
    BY <2>1 DEF Leaves
  <2>2. CASE s \in StagesToRetry(t)
    <3>1. LeaseColumns \subseteq DOMAIN stage[s]
      BY DEF TransactionInv, RowsSound
    <3>2. st[s].status = "pending"
      BY <2>2, <3>1 DEF RetriedStage, ClearLease, LeaseColumns
    <3>3. stage[s].status # "pending"
      BY <2>2 DEF StagesToRetry
    <3> QED BY <3>2, <3>3 DEF Deactivates, ActiveStatuses
  <2> QED BY <2>1, <2>2
<1> HIDE DEF st, ts, locks, writes
<1> QED BY <1>1, <1>2, LoadKeeps

LEMMA BeginKeeps ==
  ASSUME TransactionInv, NEW c \in Sessions, Begin(c)
  PROVE  TransactionInv'
<1> DEFINE call == tx[c].call
           at == tx[c].at
<1>1. /\ tx[c].phase = "waiting" /\ UNCHANGED vars
      /\ LoadCall(c, call, at)
  BY DEF Begin
<1>2. call.op \in Handlers
  BY <1>1 DEF TransactionInv, SessionsSound, SessionSound, CallSound, Idle
<1> HIDE DEF call, at
<1>3. CASE call.op = "lease"
  <2>1. LoadLease(c, call.worker, at)
    BY <1>1, <1>3 DEF LoadCall, Requests
  <2> QED BY <1>1, <1>3, <2>1, LeaseLoads DEF call
<1>4. CASE call.op = "reconcile"
  <2>1. LoadReconcile(c, at)
    BY <1>1, <1>4 DEF LoadCall, Requests
  <2> QED BY <1>1, <1>4, <2>1, ReconcileLoads DEF call
<1>5. CASE call.op = "cancel"
  <2>1. LoadCancel(c, call.task)
    BY <1>1, <1>5 DEF LoadCall, Requests
  <2> QED BY <1>1, <1>5, <2>1, CancelLoads DEF call
<1>6. CASE call.op = "retry"
  <2>1. LoadRetry(c, call.task)
    BY <1>1, <1>6 DEF LoadCall, Requests
  <2> QED BY <1>1, <1>6, <2>1, RetryLoads DEF call
<1> DEFINE s == call.stage
           k == call.token
           w == issued[s][k]
<1>7. CASE call.op = "renew"
  <2>1. LoadRenew(c, s, w, k, at)
    BY <1>1, <1>7 DEF LoadCall
  <2> QED BY <1>1, <1>7, <2>1, RenewLoads DEF call
<1>8. CASE call.op = "start"
  <2>1. LoadStart(c, s, w, k, at)
    BY <1>1, <1>8 DEF LoadCall
  <2> QED BY <1>1, <1>8, <2>1, StartLoads DEF call
<1>9. CASE call.op \in Requests
  <2>1. LoadComplete(c, s, w, k, at, call.op)
    BY <1>1, <1>9 DEF LoadCall, Requests
  <2>2. call.op # "lease"
    BY <1>9 DEF Requests
  <2> QED BY <1>1, <2>1, <2>2, CompleteLoads DEF call
<1> QED BY <1>2, <1>3, <1>4, <1>5, <1>6, <1>7, <1>8, <1>9 DEF Handlers

-----------------------------------------------------------------------------
(* A commit writes the columns that its handler has changed.  It reaches a *)
(* row that another session holds locked in no column, and a row that is   *)
(* not its own only to deactivate it.                                      *)
LEMMA CommitKeeps ==
  ASSUME TransactionInv, NEW c \in Sessions, Commit(c)
  PROVE  TransactionInv'
<1> DEFINE x == tx[c]
           old(s) == x.loaded.stage[s]
           new(s) == x.wanted.stage[s]
<1>1. /\ HoldsLocks(x) /\ x # Idle
      /\ CallSound(x.call) /\ PlanSound(x)
  BY DEF Commit, HoldsLocks, TransactionInv, SessionsSound, SessionSound, Idle
<1>2. /\ stage' = [s \in Stages |-> Updated(stage[s], old(s), new(s))]
      /\ issued' = [s \in Stages |->
                     IF x.call.op = "lease" /\ s \in WrittenStages(x)
                       THEN Append(issued[s], x.call.worker)
                       ELSE issued[s]]
      /\ tx' = [tx EXCEPT ![c] = Idle]
      /\ WrittenStages(x) \cap LockedStages(c) = {}
  BY DEF Commit
<1>3. /\ issued \in [Stages -> Seq(Workers)]
      /\ \A s \in Stages : LeaseColumns \subseteq DOMAIN stage[s]
  BY DEF TransactionInv, RowsSound
<1>4. /\ tx'[c] = Idle
      /\ \A d \in Sessions \ {c} : tx'[d] = tx[d]
      /\ tx' = [d \in Sessions |-> tx'[d]]
  BY <1>2 DEF TransactionInv, RowsSound
<1>5. \A s \in Stages :
        /\ DOMAIN stage'[s] = DOMAIN stage[s]
        /\ \A f \in LeaseColumns :
             stage'[s][f] = IF new(s)[f] # old(s)[f] THEN new(s)[f] ELSE stage[s][f]
  BY <1>2, <1>3 DEF Updated
<1>6. \A s \in Stages : s \in WrittenStages(x) <=> new(s) # old(s)
  BY DEF WrittenStages
<1>7. \A s \in Stages :
        /\ AsLoaded(x, s)
        /\ Intent(x.call, x.stages, s, old(s), new(s))
  BY <1>1 DEF PlanSound
<1>8. x.call.op = "lease" => x.call.worker \in Workers
  BY <1>1 DEF CallSound
<1> HIDE DEF x, old, new
<1>9. RowsSound'
  <2>1. issued' \in [Stages -> Seq(Workers)]
    BY <1>2, <1>3, <1>8
  <2>2. DOMAIN stage' = Stages
    BY <1>2
  <2> QED BY <1>3, <1>4, <1>5, <2>1, <2>2 DEF RowsSound
<1>10. \A s \in Stages :
         s \notin WrittenStages(x) =>
           /\ issued'[s] = issued[s]
           /\ \A f \in LeaseColumns : stage'[s][f] = stage[s][f]
  BY <1>2, <1>5, <1>6
<1>11. ActiveLeaseIsLast'
  <2> SUFFICES ASSUME NEW s \in Stages, stage'[s].status \in ActiveStatuses
               PROVE  /\ stage'[s].token = Len(issued'[s])
                      /\ stage'[s].worker = issued'[s][Len(issued'[s])]
    BY DEF ActiveLeaseIsLast, Active
  <2>1. stage[s].status \in ActiveStatuses =>
          /\ stage[s].token = Len(issued[s])
          /\ stage[s].worker = issued[s][Len(issued[s])]
    BY DEF TransactionInv, ActiveLeaseIsLast, Active
  <2>2. /\ stage'[s].status = IF new(s).status # old(s).status
                                THEN new(s).status ELSE stage[s].status
        /\ stage'[s].token = IF new(s).token # old(s).token
                               THEN new(s).token ELSE stage[s].token
        /\ stage'[s].worker = IF new(s).worker # old(s).worker
                                THEN new(s).worker ELSE stage[s].worker
    BY <1>5 DEF LeaseColumns
  <2>3. s \in x.stages => /\ stage[s].status = old(s).status
                          /\ stage[s].token = old(s).token
                          /\ stage[s].worker = old(s).worker
    BY <1>7 DEF AsLoaded, LeaseColumns, old
  <2>4. CASE Leaves(old(s), new(s))
    BY <1>6, <1>10, <2>1, <2>2, <2>4 DEF Leaves
  <2>5. CASE x.call.op # "lease" /\ Deactivates(old(s), new(s))
    BY <2>2, <2>5 DEF Deactivates
  <2>6. CASE x.call.op # "lease" /\ s \in x.stages /\ Continues(old(s), new(s))
    <3>1. issued'[s] = issued[s]
      BY <1>2, <2>6
    <3> QED BY <2>1, <2>2, <2>3, <2>6, <3>1 DEF Continues
  <2>7. CASE /\ x.call.op = "lease" /\ s \in x.stages
             /\ Grants(old(s), new(s), x.call.worker, issued[s])
    <3>1. issued'[s] = Append(issued[s], x.call.worker)
      BY <1>2, <1>6, <2>7 DEF Grants
    <3>2. /\ Len(issued'[s]) = Len(issued[s]) + 1
          /\ issued'[s][Len(issued[s]) + 1] = x.call.worker
      BY <1>3, <1>8, <2>7, <3>1
    <3>3. stage'[s].token = new(s).token /\ stage'[s].worker = new(s).worker
      BY <2>2, <2>3, <2>7
    <3> QED BY <2>7, <3>2, <3>3 DEF Grants
  <2> QED BY <1>7, <2>4, <2>5, <2>6, <2>7 DEF Intent
<1>12. \A d \in Sessions : SessionSound(tx[d])'
  <2>1. SessionSound(tx[c])'
    BY <1>4 DEF SessionSound, HoldsLocks, Idle
  <2>2. ASSUME NEW d \in Sessions \ {c} PROVE SessionSound(tx[d])'
    <3> DEFINE y == tx[d]
    <3>1. y' = y /\ SessionSound(y)
      BY <1>4 DEF TransactionInv, SessionsSound
    <3>2. \A s \in Stages : HoldsLocks(y) /\ s \in y.stages => s \notin WrittenStages(x)
      <4>1. HoldsLocks(y) => y.stages \subseteq LockedStages(c)
        BY DEF HoldsLocks, LockedStages, Others, InTransaction
      <4> QED BY <1>2, <4>1
    <3> HIDE DEF y
    <3>3. HoldsLocks(y) =>
            \A s \in Stages :
              /\ AsLoaded(y, s)'
              /\ Intent(y.call, y.stages, s, y.loaded.stage[s], y.wanted.stage[s])'
      <4> SUFFICES ASSUME HoldsLocks(y), NEW s \in Stages
                   PROVE  /\ AsLoaded(y, s)'
                          /\ Intent(y.call, y.stages, s,
                                    y.loaded.stage[s], y.wanted.stage[s])'
        OBVIOUS
      <4>1. /\ AsLoaded(y, s)
            /\ Intent(y.call, y.stages, s, y.loaded.stage[s], y.wanted.stage[s])
        BY <3>1 DEF SessionSound, PlanSound
      <4>2. s \in y.stages => /\ issued'[s] = issued[s]
                              /\ \A f \in LeaseColumns : stage'[s][f] = stage[s][f]
        BY <1>10, <3>2
      <4>3. AsLoaded(y, s)'
        BY <3>1, <4>1, <4>2 DEF AsLoaded
      <4>4. Intent(y.call, y.stages, s, y.loaded.stage[s], y.wanted.stage[s])'
        BY <3>1, <4>1, <4>2 DEF Intent, Grants
      <4> QED BY <4>3, <4>4
    <3>4. SessionSound(y)'
      BY <3>1, <3>3 DEF SessionSound, HoldsLocks, PlanSound, CallSound
    <3> QED BY <3>4 DEF y
  <2> QED BY <2>1, <2>2
<1>13. \A d, e \in Sessions : d # e => LocksApart(tx[d], tx[e])'
  <2> SUFFICES ASSUME NEW d \in Sessions, NEW e \in Sessions, d # e
               PROVE  LocksApart(tx'[d], tx'[e])
    BY DEF LocksApart, HoldsLocks
  <2>1. CASE d = c \/ e = c
    BY <2>1, <1>4 DEF LocksApart, HoldsLocks, Idle
  <2>2. CASE d # c /\ e # c
    BY <2>2, <1>4 DEF TransactionInv, SessionsSound
  <2> QED BY <2>1, <2>2
<1> QED BY <1>9, <1>11, <1>12, <1>13 DEF TransactionInv, SessionsSound

-----------------------------------------------------------------------------
(* A step of a session, or of the clock, keeps the invariant. *)
LEMMA TransactionStep ==
  ASSUME TransactionInv, [TxNext]_txVars
  PROVE  TransactionInv'
<1>1. CASE UNCHANGED txVars \/ (Tick /\ UNCHANGED <<stage, task, issued, event, tx>>)
  <2>1. stage' = stage /\ issued' = issued /\ tx' = tx
    BY <1>1 DEF txVars
  <2> QED
    BY <2>1 DEF TransactionInv, RowsSound, SessionsSound, SessionSound, LocksApart,
                HoldsLocks, PlanSound, AsLoaded, Intent, Grants, CallSound,
                ActiveLeaseIsLast, Active
<1>2. ASSUME NEW c \in Sessions,
             Arrive(c) \/ Begin(c) \/ FlushTasks(c) \/ Commit(c) \/ Rollback(c)
      PROVE  TransactionInv'
  BY <1>2, ArriveKeeps, BeginKeeps, FlushKeeps, CommitKeeps, RollbackKeeps
<1> QED BY <1>1, <1>2 DEF TxNext

(* The handlers that overlap keep what their row locks are for: a stage    *)
(* they have locked stays as they have loaded it, no two of them lock one  *)
(* stage, and without its lock a stage is only ever deactivated.           *)
THEOREM TransactionInvariance == TxSpec => []TransactionInv
<1>1. TxInit => TransactionInv
  BY TransactionInit
<1>2. TransactionInv /\ [TxNext]_txVars => TransactionInv'
  BY TransactionStep
<1> QED BY <1>1, <1>2, PTL DEF TxSpec

(* Under READ COMMITTED, too, an active stage is held under the last token *)
(* issued for it by the worker that was given it: two overlapping polls    *)
(* never hand out one stage, and no overlapping renew, start, complete,    *)
(* reconcile, cancel or retry brings an old lease back.                    *)
THEOREM LastLeaseHolds == TxSpec => []ActiveLeaseIsLast
<1>1. TransactionInv => ActiveLeaseIsLast
  BY DEF TransactionInv
<1> QED BY <1>1, TransactionInvariance, PTL

-----------------------------------------------------------------------------
(* The slots of a worker.  A poll that holds the row of its worker has     *)
(* counted the stages of the worker, and while it holds the row they only  *)
(* become fewer.                                                           *)
Polling(x) == HoldsLocks(x) /\ x.call.op = "lease"

SlotsCounted(x) ==
  LET w == x.call.worker
      counted == ActiveStages(x.loaded.stage, w)
  IN Polling(x) =>
       /\ w \in x.workers
       /\ ActiveStages(stage, w) \subseteq counted
       /\ Cardinality(counted \cup WrittenStages(x)) <= worker[w].maximum_concurrency

PollsApart(x, y) == Polling(x) /\ Polling(y) => x.call.worker # y.call.worker

WorkersSound ==
  /\ worker = [w \in Workers |-> worker[w]]
  /\ \A w \in Workers : /\ "maximum_concurrency" \in DOMAIN worker[w]
                        /\ worker[w].maximum_concurrency \in Nat

SlotsInv ==
  /\ WorkersSound /\ SlotsRespected
  /\ \A c \in Sessions : SlotsCounted(tx[c])
  /\ \A c, d \in Sessions : c # d => PollsApart(tx[c], tx[d])

LEMMA ActiveFinite ==
  ASSUME NEW st, NEW w
  PROVE  /\ ActiveStages(st, w) \subseteq Stages
         /\ IsFiniteSet(ActiveStages(st, w))
         /\ Cardinality(ActiveStages(st, w)) \in Nat
<1>1. ActiveStages(st, w) \in SUBSET Stages
  BY DEF ActiveStages
<1>2. IsFiniteSet(ActiveStages(st, w))
  BY <1>1, FiniteAssumption, FS_Subset
<1> QED BY <1>1, <1>2, FS_CardinalityType

(* A step that leaves the rows alone and brings one session to a state in  *)
(* which it has counted, apart from the others.                            *)
LEMMA SlotsMove ==
  ASSUME RowsSound, SlotsInv, UNCHANGED vars, NEW c \in Sessions, NEW x,
         tx' = [tx EXCEPT ![c] = x], SlotsCounted(x),
         \A d \in Sessions \ {c} : PollsApart(x, tx[d])
  PROVE  SlotsInv'
<1>1. /\ tx'[c] = x
      /\ \A d \in Sessions \ {c} : tx'[d] = tx[d]
  BY DEF RowsSound
<1>2. stage' = stage /\ worker' = worker
  BY DEF vars
<1>3. WorkersSound' /\ SlotsRespected'
  BY <1>2 DEF SlotsInv, WorkersSound, SlotsRespected, ActiveStages, Active
<1>4. ASSUME NEW d \in Sessions PROVE SlotsCounted(tx[d])'
  <2>1. SlotsCounted(tx'[d])
    BY <1>1 DEF SlotsInv
  <2> QED
    BY <1>2, <2>1 DEF SlotsCounted, Polling, HoldsLocks, ActiveStages, Active,
                      WrittenStages
<1>5. ASSUME NEW d \in Sessions, NEW e \in Sessions, d # e
      PROVE  PollsApart(tx[d], tx[e])'
  <2>1. CASE d = c
    BY <1>1, <1>5, <2>1 DEF PollsApart, Polling, HoldsLocks
  <2>2. CASE e = c
    BY <1>1, <1>5, <2>2 DEF PollsApart, Polling, HoldsLocks
  <2>3. CASE d # c /\ e # c
    BY <1>1, <1>5, <2>3 DEF SlotsInv, PollsApart, Polling, HoldsLocks
  <2> QED BY <2>1, <2>2, <2>3
<1> QED BY <1>3, <1>4, <1>5 DEF SlotsInv

(* A session that does not poll has nothing to count. *)
LEMMA SlotsIdle ==
  ASSUME RowsSound, SlotsInv, UNCHANGED vars, NEW c \in Sessions, NEW x,
         tx' = [tx EXCEPT ![c] = x], ~Polling(x)
  PROVE  SlotsInv'
<1>1. SlotsCounted(x) /\ \A d \in Sessions \ {c} : PollsApart(x, tx[d])
  BY DEF SlotsCounted, PollsApart
<1> QED BY <1>1, SlotsMove

LEMMA FlushCounts ==
  ASSUME TransactionInv, SlotsInv, NEW c \in Sessions, FlushTasks(c)
  PROVE  SlotsInv'
<1> DEFINE old == tx[c]
           x == [old EXCEPT !.phase = "flushed",
                            !.tasks = old.tasks \cup old.writes]
<1>1. /\ HoldsLocks(old) /\ SlotsCounted(old) /\ SessionSound(old)
      /\ \A d \in Sessions \ {c} : PollsApart(old, tx[d])
  BY DEF FlushTasks, HoldsLocks, SlotsInv, TransactionInv, SessionsSound
<1>2. DOMAIN old = TransactionFields
  BY <1>1 DEF SessionSound, PlanSound
<1>3. tx' = [tx EXCEPT ![c] = x] /\ UNCHANGED vars /\ RowsSound
  BY DEF FlushTasks, TransactionInv, RowsSound
<1>4. /\ HoldsLocks(x) /\ x.call = old.call /\ x.workers = old.workers
      /\ x.loaded = old.loaded /\ x.wanted = old.wanted
  BY <1>2 DEF TransactionFields, HoldsLocks
<1> HIDE DEF old, x
<1>5. SlotsCounted(x)
  BY <1>1, <1>4 DEF SlotsCounted, Polling, WrittenStages
<1>6. \A d \in Sessions \ {c} : PollsApart(x, tx[d])
  BY <1>1, <1>4 DEF PollsApart, Polling
<1> QED BY <1>3, <1>5, <1>6, SlotsMove

(* A poll that begins: it has the row of its worker, counts the stages the *)
(* worker has, and takes no more than the slots that are left.             *)
LEMMA LeaseCounts ==
  ASSUME TransactionInv, SlotsInv, NEW c \in Sessions, UNCHANGED vars,
         NEW w \in Workers, NEW at, LoadLease(c, w, at), tx[c].call.worker = w
  PROVE  SlotsInv'
<1> DEFINE found == Unlocked(c, at)
           claimed(granted) == {t \in Tasks : /\ task[t].status = "pending"
                                              /\ \E s \in granted : TaskOf[s] = t}
           rows(granted, d) ==
             [s \in Stages |-> IF s \in granted
                                 THEN At(at)!LeasedStage(stage[s], w, d,
                                                         Len(issued[s]) + 1)
                                 ELSE stage[s]]
           tasks(granted) ==
             [t \in Tasks |-> IF t \in claimed(granted)
                                THEN [task[t] EXCEPT !.status = "leased"]
                                ELSE task[t]]
           locks == Locks(found, {TaskOf[s] : s \in found}, {w})
<1>1. PICK granted \in (SUBSET found) \ {{}}, d \in Devices :
        /\ Cardinality(granted) <= FreeSlots(w)
        /\ Load(c, rows(granted, d), tasks(granted), locks, claimed(granted))
  BY DEF LoadLease
<1> DEFINE st == rows(granted, d)
           x == [phase |-> "open", call |-> tx[c].call, at |-> tx[c].at,
                 stages |-> locks.stages, tasks |-> locks.tasks,
                 workers |-> locks.workers, writes |-> claimed(granted),
                 loaded |-> [stage |-> stage, task |-> task],
                 wanted |-> [stage |-> st, task |-> tasks(granted)]]
<1>2. /\ tx' = [tx EXCEPT ![c] = x]
      /\ locks.workers \cap LockedWorkers(c) = {}
  BY <1>1 DEF Load
<1>3. /\ x.workers = {w} /\ x.call = tx[c].call
      /\ x.loaded.stage = stage /\ x.wanted.stage = st
  BY DEF Locks
<1>4. \A s \in Stages : s \notin granted => st[s] = stage[s]
  OBVIOUS
<1>5. granted \subseteq Stages
  BY DEF Unlocked
<1>6. w \notin LockedWorkers(c)
  BY <1>2 DEF Locks
<1> HIDE DEF x, st, locks, found
<1>7. SlotsCounted(x)
  <2> DEFINE counted == ActiveStages(stage, w)
  <2>1. WrittenStages(x) \subseteq granted
    BY <1>3, <1>4 DEF WrittenStages
  <2>2. IsFiniteSet(granted) /\ Cardinality(granted) \in Nat
    BY <1>5, FiniteAssumption, FS_Subset, FS_CardinalityType
  <2>3. IsFiniteSet(counted) /\ Cardinality(counted) \in Nat
    BY ActiveFinite
  <2> HIDE DEF counted
  <2>4. /\ IsFiniteSet(counted \cup granted)
        /\ Cardinality(counted \cup granted)
             = Cardinality(counted) + Cardinality(granted) - Cardinality(counted \cap granted)
    BY <2>2, <2>3, FS_Union
  <2>5. Cardinality(counted \cap granted) \in Nat
    <3>1. counted \cap granted \in SUBSET granted
      OBVIOUS
    <3> QED BY <2>2, <3>1, FS_Subset, FS_CardinalityType
  <2>6. /\ Cardinality(counted \cup WrittenStages(x)) \in Nat
        /\ Cardinality(counted \cup WrittenStages(x)) <= Cardinality(counted \cup granted)
    <3>1. counted \cup WrittenStages(x) \in SUBSET (counted \cup granted)
      BY <2>1
    <3> QED BY <2>4, <3>1, FS_Subset, FS_CardinalityType
  <2>7. Cardinality(granted) <= worker[w].maximum_concurrency - Cardinality(counted)
    BY <1>1 DEF FreeSlots, counted
  <2>8. worker[w].maximum_concurrency \in Nat
    BY DEF SlotsInv, WorkersSound
  <2>9. Cardinality(counted \cup WrittenStages(x)) <= worker[w].maximum_concurrency
    BY <2>2, <2>3, <2>4, <2>5, <2>6, <2>7, <2>8
  <2> QED BY <1>3, <2>9 DEF SlotsCounted, counted
<1>8. \A d2 \in Sessions \ {c} : PollsApart(x, tx[d2])
  <2> SUFFICES ASSUME NEW d2 \in Sessions \ {c}, Polling(tx[d2])
               PROVE  tx[d2].call.worker # w
    BY <1>3 DEF PollsApart
  <2>1. tx[d2].call.worker \in tx[d2].workers
    BY DEF SlotsInv, SlotsCounted
  <2>2. tx[d2].workers \subseteq LockedWorkers(c)
    BY DEF LockedWorkers, Others, InTransaction, Polling, HoldsLocks
  <2> QED BY <1>6, <2>1, <2>2
<1>9. RowsSound
  BY DEF TransactionInv
<1> QED BY <1>2, <1>7, <1>8, <1>9, SlotsMove

LEMMA BeginCounts ==
  ASSUME TransactionInv, SlotsInv, NEW c \in Sessions, Begin(c)
  PROVE  SlotsInv'
<1> DEFINE call == tx[c].call
           at == tx[c].at
<1>1. /\ tx[c].phase = "waiting" /\ UNCHANGED vars
      /\ LoadCall(c, call, at) /\ RowsSound
  BY DEF Begin, TransactionInv
<1>2. call.op \in Handlers /\ (call.op = "lease" => call.worker \in Workers)
  BY <1>1 DEF TransactionInv, SessionsSound, SessionSound, CallSound, Idle
<1> HIDE DEF call, at
<1>3. CASE call.op = "lease"
  <2>1. LoadLease(c, call.worker, at)
    BY <1>1, <1>3 DEF LoadCall, Requests
  <2> QED BY <1>1, <1>2, <1>3, <2>1, LeaseCounts DEF call
<1>4. CASE call.op # "lease"
  <2>1. ASSUME NEW st, NEW ts, NEW locks, NEW writes, Load(c, st, ts, locks, writes)
        PROVE  SlotsInv'
    <3> DEFINE x == [phase |-> "open", call |-> tx[c].call, at |-> tx[c].at,
                     stages |-> locks.stages, tasks |-> locks.tasks,
                     workers |-> locks.workers, writes |-> writes,
                     loaded |-> [stage |-> stage, task |-> task],
                     wanted |-> [stage |-> st, task |-> ts]]
    <3>1. tx' = [tx EXCEPT ![c] = x]
      BY <2>1 DEF Load
    <3>2. ~Polling(x)
      BY <1>4 DEF Polling, call
    <3> HIDE DEF x
    <3> QED BY <1>1, <3>1, <3>2, SlotsIdle
  <2>2. ASSUME NEW rows, NEW affected, NEW locked,
               LoadReconciled(c, rows, affected, locked)
        PROVE  SlotsInv'
    BY <2>1, <2>2 DEF LoadReconciled
  <2>3. CASE call.op = "reconcile"
    BY <1>1, <2>2, <2>3 DEF LoadCall, Requests, LoadReconcile
  <2>4. CASE call.op = "cancel"
    BY <1>1, <2>1, <2>4 DEF LoadCall, Requests, LoadCancel
  <2>5. CASE call.op = "retry"
    BY <1>1, <2>1, <2>5 DEF LoadCall, Requests, LoadRetry
  <2>6. CASE call.op = "renew"
    BY <1>1, <2>1, <2>6 DEF LoadCall, LoadRenew
  <2>7. CASE call.op = "start"
    BY <1>1, <2>1, <2>7 DEF LoadCall, LoadStart
  <2>8. CASE call.op \in Requests
    BY <1>1, <2>2, <2>8 DEF LoadCall, Requests, LoadComplete
  <2> QED BY <1>2, <1>4, <2>3, <2>4, <2>5, <2>6, <2>7, <2>8 DEF Handlers
<1> QED BY <1>3, <1>4

(* What a commit makes of the stages of a worker: it adds the stages that  *)
(* a poll of this worker was given, and nothing else.                      *)
LEMMA CommittedActive ==
  ASSUME TransactionInv, NEW c \in Sessions, Commit(c), NEW w
  PROVE  LET x == tx[c]
             added == IF x.call.op = "lease" /\ x.call.worker = w
                        THEN WrittenStages(x) ELSE {}
         IN ActiveStages(stage', w) \subseteq ActiveStages(stage, w) \cup added
<1> DEFINE x == tx[c]
           old(s) == x.loaded.stage[s]
           new(s) == x.wanted.stage[s]
           added == IF x.call.op = "lease" /\ x.call.worker = w
                      THEN WrittenStages(x) ELSE {}
<1>1. HoldsLocks(x) /\ PlanSound(x)
  BY DEF Commit, HoldsLocks, TransactionInv, SessionsSound, SessionSound
<1>2. stage' = [s \in Stages |-> Updated(stage[s], old(s), new(s))]
  BY DEF Commit
<1>3. \A s \in Stages : LeaseColumns \subseteq DOMAIN stage[s]
  BY DEF TransactionInv, RowsSound
<1>4. \A s \in Stages : \A f \in LeaseColumns :
        stage'[s][f] = IF new(s)[f] # old(s)[f] THEN new(s)[f] ELSE stage[s][f]
  BY <1>2, <1>3 DEF Updated
<1>5. \A s \in Stages : AsLoaded(x, s) /\ Intent(x.call, x.stages, s, old(s), new(s))
  BY <1>1 DEF PlanSound
<1>6. \A s \in Stages : s \in WrittenStages(x) <=> new(s) # old(s)
  BY DEF WrittenStages
<1> SUFFICES ASSUME NEW s \in Stages, stage'[s].status \in ActiveStatuses,
                    stage'[s].worker = w
             PROVE  \/ stage[s].status \in ActiveStatuses /\ stage[s].worker = w
                    \/ s \in added
  BY DEF ActiveStages, Active
<1>7. /\ stage'[s].status = IF new(s).status # old(s).status
                              THEN new(s).status ELSE stage[s].status
      /\ stage'[s].worker = IF new(s).worker # old(s).worker
                              THEN new(s).worker ELSE stage[s].worker
  BY <1>4 DEF LeaseColumns
<1>8. s \in x.stages => /\ stage[s].status = old(s).status
                        /\ stage[s].worker = old(s).worker
  BY <1>5 DEF AsLoaded, LeaseColumns
<1> HIDE DEF x, old, new
<1>9. CASE Leaves(old(s), new(s))
  BY <1>7, <1>9 DEF Leaves
<1>10. CASE Deactivates(old(s), new(s))
  BY <1>7, <1>10 DEF Deactivates
<1>11. CASE s \in x.stages /\ Continues(old(s), new(s))
  BY <1>7, <1>8, <1>11 DEF Continues
<1>12. CASE /\ x.call.op = "lease" /\ s \in x.stages
            /\ Grants(old(s), new(s), x.call.worker, issued[s])
  <2>1. new(s).worker = x.call.worker /\ s \in WrittenStages(x)
    BY <1>6, <1>12 DEF Grants
  <2>2. stage'[s].worker = new(s).worker
    BY <1>7, <1>8, <1>12
  <2> QED BY <1>12, <2>1, <2>2
<1> QED BY <1>5, <1>9, <1>10, <1>11, <1>12 DEF Intent

(* The scheduler writes the status of a worker, never its concurrency. *)
LEMMA CommittedConcurrency ==
  ASSUME TransactionInv, WorkersSound, NEW c \in Sessions, Commit(c)
  PROVE  /\ WorkersSound'
         /\ \A w \in Workers :
              worker'[w].maximum_concurrency = worker[w].maximum_concurrency
<1> DEFINE x == tx[c]
<1>1. /\ worker' = CommittedWorkers(x, stage') /\ x.call.op \in Handlers
  BY DEF Commit, TransactionInv, SessionsSound, SessionSound, CallSound, Idle
<1>2. /\ worker = [w \in Workers |-> worker[w]]
      /\ \A w \in Workers : /\ "maximum_concurrency" \in DOMAIN worker[w]
                            /\ worker[w].maximum_concurrency \in Nat
  BY DEF WorkersSound
<1> HIDE DEF x
<1>3. ASSUME NEW w \in Workers, NEW r,
             r = worker[w] \/ \E v : r = [worker[w] EXCEPT !.status = v]
      PROVE  /\ "maximum_concurrency" \in DOMAIN r
             /\ r.maximum_concurrency = worker[w].maximum_concurrency
  BY <1>2, <1>3
<1>4. ASSUME NEW wk, NEW released,
             \A w \in Workers :
               wk[w] = worker[w] \/ \E v : wk[w] = [worker[w] EXCEPT !.status = v],
             worker' = Released(wk, stage', released)
      PROVE  /\ worker' = [w \in Workers |-> worker'[w]]
             /\ \A w \in Workers :
                  /\ "maximum_concurrency" \in DOMAIN worker'[w]
                  /\ worker'[w].maximum_concurrency = worker[w].maximum_concurrency
  <2>1. worker' = [w \in Workers |-> worker'[w]]
    BY <1>4 DEF Released
  <2>2. ASSUME NEW w \in Workers
        PROVE  worker'[w] = wk[w] \/ worker'[w] = [wk[w] EXCEPT !.status = "online"]
    BY <1>4 DEF Released
  <2>3. ASSUME NEW w \in Workers
        PROVE  /\ "maximum_concurrency" \in DOMAIN worker'[w]
               /\ worker'[w].maximum_concurrency = worker[w].maximum_concurrency
    <3>1. wk[w] = worker[w] \/ \E v : wk[w] = [worker[w] EXCEPT !.status = v]
      BY <1>4
    <3>2. /\ "maximum_concurrency" \in DOMAIN wk[w]
          /\ wk[w].maximum_concurrency = worker[w].maximum_concurrency
      BY <1>3, <3>1
    <3> QED BY <2>2, <3>2
  <2> QED BY <2>1, <2>3
<1>5. /\ worker' = [w \in Workers |-> worker'[w]]
      /\ \A w \in Workers :
           /\ "maximum_concurrency" \in DOMAIN worker'[w]
           /\ worker'[w].maximum_concurrency = worker[w].maximum_concurrency
  <2>1. CASE x.call.op = "lease"
    <3>1. worker' = [w \in Workers |->
             IF w = x.call.worker /\ FilledSlots(x) >= worker[w].maximum_concurrency
               THEN [worker[w] EXCEPT !.status = "busy"]
               ELSE worker[w]]
      BY <1>1, <2>1 DEF CommittedWorkers, Requests
    <3>2. \A w \in Workers :
            worker'[w] = worker[w] \/ worker'[w] = [worker[w] EXCEPT !.status = "busy"]
      BY <3>1
    <3> QED BY <1>3, <3>1, <3>2
  <2>2. CASE x.call.op \in Requests
    <3>1. worker' = Released(worker, stage', {issued[x.call.stage][x.call.token]})
      BY <1>1, <2>2 DEF CommittedWorkers, Requests
    <3> QED BY <1>4, <3>1
  <2>3. CASE x.call.op = "reconcile"
    <3> DEFINE swept == At(x.at)!OfflineSweep
    <3>1. worker' = Released(swept, stage', {x.loaded.stage[s].worker : s \in x.stages})
      BY <1>1, <2>3 DEF CommittedWorkers, Requests
    <3>2. \A w \in Workers :
            swept[w] = worker[w] \/ swept[w] = [worker[w] EXCEPT !.status = "offline"]
      BY DEF At!OfflineSweep
    <3> HIDE DEF swept
    <3>3. \A w \in Workers :
            swept[w] = worker[w] \/ \E v : swept[w] = [worker[w] EXCEPT !.status = v]
      BY <3>2
    <3> QED BY <1>4, <3>1, <3>3
  <2>4. CASE x.call.op \notin {"lease", "reconcile"} \cup Requests
    BY <1>1, <1>2, <2>4 DEF CommittedWorkers
  <2> QED BY <2>1, <2>2, <2>3, <2>4
<1> QED BY <1>2, <1>5 DEF WorkersSound

LEMMA CommitCounts ==
  ASSUME TransactionInv, SlotsInv, NEW c \in Sessions, Commit(c)
  PROVE  SlotsInv'
<1> DEFINE x == tx[c]
<1>1. /\ WorkersSound'
      /\ \A w \in Workers :
           worker'[w].maximum_concurrency = worker[w].maximum_concurrency
  BY CommittedConcurrency DEF SlotsInv
<1>2. HoldsLocks(x) /\ (x.call.op = "lease" => x.call.worker \in Workers)
  BY DEF Commit, HoldsLocks, TransactionInv, SessionsSound, SessionSound, CallSound, Idle
<1>3. /\ tx'[c] = Idle
      /\ \A d \in Sessions \ {c} : tx'[d] = tx[d]
  BY DEF Commit, TransactionInv, RowsSound
<1>4. \A w : ActiveStages(stage', w) \subseteq
               ActiveStages(stage, w) \cup
                 (IF x.call.op = "lease" /\ x.call.worker = w
                    THEN WrittenStages(x) ELSE {})
  BY CommittedActive
<1> HIDE DEF x
<1>5. \A w \in Workers : worker[w].maximum_concurrency \in Nat
  BY DEF SlotsInv, WorkersSound
<1>6. SlotsRespected'
  <2> SUFFICES ASSUME NEW w \in Workers
               PROVE  Cardinality(ActiveStages(stage', w)) <= worker'[w].maximum_concurrency
    BY DEF SlotsRespected, ActiveStages, Active
  <2>1. CASE x.call.op = "lease" /\ x.call.worker = w
    <3> DEFINE all == ActiveStages(x.loaded.stage, w) \cup WrittenStages(x)
    <3>1. /\ ActiveStages(stage, w) \subseteq ActiveStages(x.loaded.stage, w)
          /\ Cardinality(all) <= worker[w].maximum_concurrency
      BY <1>2, <2>1 DEF SlotsInv, SlotsCounted, Polling, x
    <3>2. ActiveStages(stage', w) \in SUBSET all
      BY <1>4, <2>1, <3>1
    <3>3. IsFiniteSet(all)
      <4>1. all \in SUBSET Stages
        BY DEF ActiveStages, WrittenStages
      <4> QED BY <4>1, FiniteAssumption, FS_Subset
    <3> HIDE DEF all
    <3>4. /\ Cardinality(ActiveStages(stage', w)) <= Cardinality(all)
          /\ Cardinality(all) \in Nat /\ Cardinality(ActiveStages(stage', w)) \in Nat
      BY <3>2, <3>3, FS_Subset, FS_CardinalityType
    <3> QED BY <1>1, <1>5, <3>1, <3>4
  <2>2. CASE ~(x.call.op = "lease" /\ x.call.worker = w)
    <3>1. ActiveStages(stage', w) \in SUBSET ActiveStages(stage, w)
      BY <1>4, <2>2
    <3>2. IsFiniteSet(ActiveStages(stage, w)) /\ Cardinality(ActiveStages(stage, w)) \in Nat
      BY ActiveFinite
    <3>3. /\ Cardinality(ActiveStages(stage', w)) <= Cardinality(ActiveStages(stage, w))
          /\ Cardinality(ActiveStages(stage', w)) \in Nat
      BY <3>1, <3>2, FS_Subset, FS_CardinalityType
    <3>4. Cardinality(ActiveStages(stage, w)) <= worker[w].maximum_concurrency
      BY DEF SlotsInv, SlotsRespected
    <3> QED BY <1>1, <1>5, <3>2, <3>3, <3>4
  <2> QED BY <2>1, <2>2
<1>7. ASSUME NEW d \in Sessions PROVE SlotsCounted(tx[d])'
  <2>1. CASE d = c
    BY <1>3, <2>1 DEF SlotsCounted, Polling, HoldsLocks, Idle
  <2>2. CASE d # c
    <3> DEFINE y == tx[d]
               w == y.call.worker
    <3>1. y' = y /\ SlotsCounted(y) /\ PollsApart(x, y)
      BY <1>3, <2>2 DEF SlotsInv, x
    <3>2. HoldsLocks(y) /\ y.call.op = "lease" => w \in Workers
      BY DEF TransactionInv, SessionsSound, SessionSound, CallSound, HoldsLocks, Idle
    <3> HIDE DEF y
    <3> SUFFICES ASSUME Polling(y)
                 PROVE  /\ w \in y.workers
                        /\ ActiveStages(stage', w) \subseteq ActiveStages(y.loaded.stage, w)
                        /\ Cardinality(ActiveStages(y.loaded.stage, w) \cup WrittenStages(y))
                             <= worker'[w].maximum_concurrency
      BY <3>1 DEF SlotsCounted, Polling, HoldsLocks, ActiveStages, Active,
                  WrittenStages, y
    <3>3. ~(x.call.op = "lease" /\ x.call.worker = w)
      BY <1>2, <3>1 DEF PollsApart, Polling
    <3>4. ActiveStages(stage', w) \subseteq ActiveStages(stage, w)
      BY <1>4, <3>3
    <3>5. w \in Workers
      BY <3>2 DEF Polling
    <3> QED BY <1>1, <3>1, <3>4, <3>5 DEF SlotsCounted
  <2> QED BY <2>1, <2>2
<1>8. ASSUME NEW d \in Sessions, NEW e \in Sessions, d # e
      PROVE  PollsApart(tx[d], tx[e])'
  <2>1. CASE d = c \/ e = c
    BY <1>3, <1>8, <2>1 DEF PollsApart, Polling, HoldsLocks, Idle
  <2>2. CASE d # c /\ e # c
    BY <1>3, <1>8, <2>2 DEF SlotsInv, PollsApart, Polling, HoldsLocks
  <2> QED BY <2>1, <2>2
<1> QED BY <1>1, <1>6, <1>7, <1>8 DEF SlotsInv

LEMMA SlotsInit == TxInit => SlotsInv
<1> SUFFICES ASSUME TxInit PROVE SlotsInv
  OBVIOUS
<1>1. WorkersSound
  <2>1. \A w \in Workers : \E n \in Concurrencies :
          worker[w] = [status |-> "online", enabled |-> TRUE,
                       maximum_concurrency |-> n, sequence |-> -1,
                       last_heartbeat |-> 0]
    BY DEF TxInit
  <2>2. ASSUME NEW w \in Workers
        PROVE  /\ "maximum_concurrency" \in DOMAIN worker[w]
               /\ worker[w].maximum_concurrency \in Nat
    <3>1. PICK n \in Concurrencies :
            worker[w] = [status |-> "online", enabled |-> TRUE,
                         maximum_concurrency |-> n, sequence |-> -1,
                         last_heartbeat |-> 0]
      BY <2>1
    <3>2. n \in Nat
      BY ConcurrenciesAssumption
    <3> QED BY <3>1, <3>2
  <2>3. worker = [w \in Workers |-> worker[w]]
    BY DEF TxInit
  <2> QED BY <2>2, <2>3 DEF WorkersSound
<1>2. SlotsRespected
  <2>1. \A w \in Workers : ActiveStages(stage, w) = {}
    BY DEF TxInit, RowsInit, ActiveStages, Active, ActiveStatuses
  <2>2. \A w \in Workers : Cardinality(ActiveStages(stage, w)) = 0
    BY <2>1, FS_EmptySet
  <2>3. \A w \in Workers : worker[w].maximum_concurrency \in Nat
    BY <1>1 DEF WorkersSound
  <2> QED BY <2>2, <2>3 DEF SlotsRespected
<1>3. \A c \in Sessions : ~Polling(tx[c])
  BY DEF TxInit, Idle, Polling, HoldsLocks
<1> QED BY <1>1, <1>2, <1>3 DEF SlotsInv, SlotsCounted, PollsApart

LEMMA SlotsStep ==
  ASSUME TransactionInv, SlotsInv, [TxNext]_txVars
  PROVE  SlotsInv'
<1>0. RowsSound
  BY DEF TransactionInv
<1>1. CASE UNCHANGED txVars \/ (Tick /\ UNCHANGED <<stage, task, issued, event, tx>>)
  <2>1. stage' = stage /\ worker' = worker /\ tx' = tx
    BY <1>1 DEF txVars, Tick
  <2> QED
    BY <2>1 DEF SlotsInv, WorkersSound, SlotsRespected, SlotsCounted, PollsApart,
                Polling, HoldsLocks, ActiveStages, Active, WrittenStages
<1>2. ASSUME NEW c \in Sessions, Arrive(c) PROVE SlotsInv'
  <2>1. PICK call \in Calls :
          tx' = [tx EXCEPT ![c] = [phase |-> "waiting", call |-> call, at |-> now]]
    BY <1>2 DEF Arrive
  <2> DEFINE x == [phase |-> "waiting", call |-> call, at |-> now]
  <2>2. ~Polling(x) /\ UNCHANGED vars
    BY <1>2 DEF Polling, HoldsLocks, Arrive
  <2>3. tx' = [tx EXCEPT ![c] = x]
    BY <2>1
  <2> HIDE DEF x
  <2> QED BY <1>0, <2>2, <2>3, SlotsIdle
<1>3. ASSUME NEW c \in Sessions, Rollback(c) PROVE SlotsInv'
  <2>1. ~Polling(Idle) /\ UNCHANGED vars /\ tx' = [tx EXCEPT ![c] = Idle]
    BY <1>3 DEF Polling, HoldsLocks, Idle, Rollback
  <2> QED BY <1>0, <2>1, SlotsIdle
<1> QED BY <1>1, <1>2, <1>3, BeginCounts, FlushCounts, CommitCounts DEF TxNext

(* However many polls overlap, a worker never holds more stages than its   *)
(* row allows: lease counts them under the lock of that row, and no other  *)
(* handler brings a stage back to a worker.                                *)
THEOREM SlotsHold == TxSpec => []SlotsRespected
<1>1. TxInit => TransactionInv /\ SlotsInv
  BY TransactionInit, SlotsInit
<1>2. (TransactionInv /\ SlotsInv) /\ [TxNext]_txVars => (TransactionInv /\ SlotsInv)'
  BY TransactionStep, SlotsStep
<1>3. SlotsInv => SlotsRespected
  BY DEF SlotsInv
<1> QED BY <1>1, <1>2, <1>3, PTL DEF TxSpec
-----------------------------------------------------------------------------
(* Pipelines whose stages follow one another.  There the row locks also    *)
(* keep the handlers from overlapping in what they read and write: every   *)
(* commit does what the handler of StageScheduler does in one step.        *)

(* The stages of a task can be numbered so that a stage depends on earlier *)
(* ones only and, of the earlier ones, on the one just before it.          *)
InOrder(order) ==
  /\ \A s \in Stages : \A d \in DependsOn[s] : order[d] < order[s]
  /\ \A s, e \in Stages :
       TaskOf[s] = TaskOf[e] /\ s # e /\ order[e] <= order[s] =>
         \E d \in DependsOn[s] : order[e] <= order[d]

Chains == \E order \in [Stages -> Nat] : InOrder(order)

(* The handlers that work on active stages that they have locked. *)
StageCalls == {"renew", "start", "reconcile"} \cup Requests

(* The tasks a transaction is about. *)
Concerns(x) ==
  CASE x.call.op = "lease" -> {TaskOf[s] : s \in WrittenStages(x)}
    [] x.call.op \in StageCalls -> {TaskOf[s] : s \in x.stages}
    [] OTHER -> {x.call.task}

(* The rows that handlers write. *)
RenewedRow(r, e) == [r EXCEPT !.expires = e]

StartedRow(r) == [r EXCEPT !.status = "running", !.started = TRUE]

CancelledTask(r) == [r EXCEPT !.status = "cancelled", !.completed = TRUE]

RetriedTask == [status |-> "pending", started |-> FALSE, completed |-> FALSE,
                error |-> FALSE, result |-> FALSE]

(* What the handlers have computed from the rows they loaded. *)
GrantPlanned(x) ==
  LET claimed == {t \in Concerns(x) : x.loaded.task[t].status = "pending"}
  IN /\ \A s \in WrittenStages(x) :
          /\ s \in x.stages /\ TaskOf[s] \in x.tasks
          /\ x.loaded.stage[s].status = "pending"
          /\ x.loaded.task[TaskOf[s]].status \in OpenStatuses
          /\ \A d \in DependsOn[s] : x.loaded.stage[d].status \in DoneStatuses
          /\ \E d \in Devices :
               x.wanted.stage[s] =
                 At(x.at)!LeasedStage(x.loaded.stage[s], x.call.worker, d,
                                      x.wanted.stage[s].token)
     /\ x.wanted.task = [t \in Tasks |->
                           IF t \in claimed
                             THEN [x.loaded.task[t] EXCEPT !.status = "leased"]
                             ELSE x.loaded.task[t]]

RenewPlanned(x, s) ==
  /\ x.wanted.stage = [z \in Stages |->
                         IF z = s THEN RenewedRow(x.loaded.stage[z], x.at + LeaseDuration)
                                  ELSE x.loaded.stage[z]]
  /\ x.wanted.task = x.loaded.task

StartPlanned(x, s) ==
  LET first == {t \in {TaskOf[s]} : x.loaded.task[t].status = "leased"}
  IN /\ x.loaded.stage[s].status = "leased"
     /\ first \subseteq x.writes
     /\ x.wanted.stage = [z \in Stages |->
                            IF z = s THEN StartedRow(x.loaded.stage[z])
                                     ELSE x.loaded.stage[z]]
     /\ x.wanted.task = [t \in Tasks |->
                           IF t \in first THEN StartedRow(x.loaded.task[t])
                                          ELSE x.loaded.task[t]]

(* The row of a stage whose attempt a transaction ends, before             *)
(* _reconcile_task.                                                        *)
EndedRow(x, s) ==
  LET old == x.loaded.stage[s]
      r == [old EXCEPT !.completion = [worker |-> old.worker, device |-> old.device,
                                       token |-> old.token, request |-> x.call.op]]
  IN CASE x.call.op = "reconcile" -> At(x.at)!FailOrRetryStage(s, old)
       [] x.call.op = "failed" -> At(x.at)!FailOrRetryStage(s, r)
       [] OTHER -> SucceedStage(r, x.call.op)

EndPlanned(x) ==
  LET rows == [s \in Stages |-> IF s \in x.stages THEN EndedRow(x, s)
                                                  ELSE x.loaded.stage[s]]
  IN /\ x.call.op # "reconcile" =>
          \A s \in x.stages : x.loaded.stage[s].status = "running"
     /\ Concerns(x) \subseteq x.writes
     /\ x.wanted.stage = ReconciledStages(rows, Concerns(x))
     /\ x.wanted.task = [t \in Tasks |->
                           IF t \in Concerns(x)
                             THEN ReconciledTask(rows, t, x.loaded.task[t])
                             ELSE x.loaded.task[t]]

CancelPlanned(x, t) ==
  /\ t \in Tasks /\ t \in x.tasks
  /\ x.loaded.task[t].status \notin TaskTerminalStatuses
  /\ x.wanted.stage =
       [s \in Stages |->
          IF TaskOf[s] = t /\ x.loaded.stage[s].status \in OpenStatuses
            THEN CancelledStage(x.loaded.stage[s]) ELSE x.loaded.stage[s]]
  /\ x.wanted.task = [z \in Tasks |-> IF z = t THEN CancelledTask(x.loaded.task[z])
                                               ELSE x.loaded.task[z]]

RetryPlanned(x, t) ==
  /\ t \in Tasks /\ t \in x.tasks
  /\ x.loaded.task[t].status \in {"failed", "cancelled"}
  /\ x.wanted.stage =
       [s \in Stages |->
          IF TaskOf[s] = t /\ x.loaded.stage[s].status \in {"failed", "cancelled"}
            THEN RetriedStage(x.loaded.stage[s]) ELSE x.loaded.stage[s]]
  /\ x.wanted.task = [z \in Tasks |-> IF z = t THEN RetriedTask ELSE x.loaded.task[z]]

Planned(x) ==
  /\ x.at \in Nat
  /\ x.loaded.stage \in [Stages -> StageRecords]
  /\ x.loaded.task \in [Tasks -> TaskRecords]
  /\ x.phase = "flushed" => x.writes \subseteq x.tasks
  /\ x.call.op \in StageCalls =>
       \A s \in x.stages : s \in Stages /\ Active(x.loaded.stage[s])
  /\ x.call.op \in {"renew", "start"} => x.stages = {x.call.stage}
  /\ x.call.op = "lease" => GrantPlanned(x)
  /\ x.call.op = "renew" => RenewPlanned(x, x.call.stage)
  /\ x.call.op = "start" => StartPlanned(x, x.call.stage)
  /\ x.call.op \in Requests \cup {"reconcile"} => EndPlanned(x)
  /\ x.call.op = "cancel" => CancelPlanned(x, x.call.task)
  /\ x.call.op = "retry" => RetryPlanned(x, x.call.task)

(* The rows of these tasks are as they were loaded; only a cancel, which   *)
(* locks the task, may meet a stage that was renewed or started meanwhile. *)
Continued(old, row) ==
  \/ row = old
  \/ /\ Active(old) /\ Active(row) /\ old.expires # NoTime
     /\ \A f \in DOMAIN row \ {"status", "started", "expires"} : row[f] = old[f]

AsFound(x) ==
  \A t \in Concerns(x) :
    /\ task[t] = x.loaded.task[t]
    /\ \A s \in StagesOf(t) :
         IF x.call.op = "cancel" THEN Continued(x.loaded.stage[s], stage[s])
                                 ELSE stage[s] = x.loaded.stage[s]

CallTyped(call) ==
  /\ call.op \in {"renew", "start"} \cup Requests => call.stage \in Stages
  /\ call.op \in {"cancel", "retry"} => call.task \in Tasks

TasksApart(x, y) ==
  HoldsLocks(x) /\ HoldsLocks(y) => x.tasks \cap y.tasks = {}

ChainInv ==
  /\ now \in Nat
  /\ RowsInv
  /\ \A c \in Sessions :
       /\ tx[c] # Idle => tx[c].at \in Nat /\ CallTyped(tx[c].call)
       /\ HoldsLocks(tx[c]) => Planned(tx[c]) /\ AsFound(tx[c])
  /\ \A c, d \in Sessions : c # d => TasksApart(tx[c], tx[d])

(* A set of numbers has a least one. *)
LEMMA LeastNumber ==
  ASSUME NEW T, T \subseteq Nat, T # {}
  PROVE  \E n \in T : \A m \in T : n <= m
<1> DEFINE R == OpToRel(<, Nat)
<1>1. IsWellFoundedOn(R, Nat)
  BY NatLessThanWellFounded
<1> HIDE DEF R
<1>2. PICK n \in T : \A m \in T : ~(<<m, n>> \in R)
  BY <1>1, WFMin
<1>3. \A m \in T : ~(m < n)
  BY <1>2 DEF R, OpToRel
<1> QED BY <1>3

(* Two stages of one task have different numbers. *)
LEMMA NumbersDiffer ==
  ASSUME NEW order \in [Stages -> Nat], InOrder(order), NEW s \in Stages,
         NEW e \in Stages, TaskOf[s] = TaskOf[e], s # e
  PROVE  order[s] # order[e]
<1> SUFFICES ASSUME order[s] = order[e] PROVE FALSE
  OBVIOUS
<1>1. PICK d \in DependsOn[s] : order[e] <= order[d]
  BY DEF InOrder
<1>2. order[d] < order[s] /\ d \in Stages
  BY <1>1, StructureAssumption DEF InOrder
<1> QED BY <1>1, <1>2

(* In a task whose stages follow one another everything before a stage     *)
(* that has been handed out is done: else take the first such stage that   *)
(* has an unfinished one before it; the stage it depends on comes earlier  *)
(* and has, too.                                                           *)
LEMMA EarlierDone ==
  ASSUME RowsInv, NEW order \in [Stages -> Nat], InOrder(order),
         NEW s \in Stages, NEW e \in Stages, TaskOf[s] = TaskOf[e],
         order[e] < order[s], stage[s].status \notin {"pending", "cancelled"}
  PROVE  stage[e].status \in DoneStatuses
<1> USE StructureAssumption
<1> SUFFICES ASSUME stage[e].status \notin DoneStatuses PROVE FALSE
  OBVIOUS
<1> DEFINE bad == {z \in Stages : /\ TaskOf[z] = TaskOf[e] /\ order[e] < order[z]
                                  /\ stage[z].status \notin {"pending", "cancelled"}}
           T == {order[z] : z \in bad}
<1>1. T \subseteq Nat /\ T # {}
  OBVIOUS
<1>2. PICK n \in T : \A m \in T : n <= m
  <2> HIDE DEF T
  <2> QED BY <1>1, LeastNumber
<1>3. PICK z \in bad : n = order[z]
  OBVIOUS
<1>4. PICK d \in DependsOn[z] : order[e] <= order[d]
  BY <1>3 DEF InOrder
<1>5. /\ d \in Stages /\ TaskOf[d] = TaskOf[e] /\ order[d] < order[z]
      /\ stage[d].status \in DoneStatuses
  BY <1>3, <1>4 DEF InOrder, RowsInv, DependenciesRespected, DependenciesSatisfied
<1>6. order[d] # order[e]
  BY <1>5, NumbersDiffer
<1>7. d \in bad
  BY <1>4, <1>5, <1>6 DEF DoneStatuses
<1>8. order[d] \in T /\ order[d] < n
  BY <1>3, <1>5, <1>7
<1> HIDE DEF T
<1> QED BY <1>1, <1>2, <1>8

(* So at most one stage of a task is active, and none while a stage waits  *)
(* whose dependencies are done.                                            *)
LEMMA OneActive ==
  ASSUME Chains, RowsInv, NEW s \in Stages, NEW e \in Stages,
         TaskOf[s] = TaskOf[e], Active(stage[e])
  PROVE  /\ Active(stage[s]) => s = e
         /\ stage[s].status = "pending" => ~DependenciesSatisfied(s)
<1> USE StructureAssumption
<1>1. PICK order \in [Stages -> Nat] : InOrder(order)
  BY DEF Chains
<1>2. /\ stage[e].status \notin DoneStatuses
      /\ stage[e].status \notin {"pending", "cancelled"}
  BY DEF Active, ActiveStatuses, DoneStatuses
<1>3. ASSUME order[s] < order[e] PROVE stage[s].status \in DoneStatuses
  BY <1>1, <1>2, <1>3, EarlierDone
<1>4. ASSUME s # e, order[e] <= order[s] PROVE ~DependenciesSatisfied(s)
  <2> SUFFICES ASSUME DependenciesSatisfied(s) PROVE FALSE
    OBVIOUS
  <2>1. PICK d \in DependsOn[s] : order[e] <= order[d]
    BY <1>1, <1>4 DEF InOrder
  <2>2. /\ d \in Stages /\ TaskOf[d] = TaskOf[e]
        /\ stage[d].status \in DoneStatuses
    BY <2>1 DEF DependenciesSatisfied
  <2>3. d # e
    BY <1>2, <2>2
  <2>4. order[e] < order[d]
    BY <1>1, <2>1, <2>2, <2>3, NumbersDiffer
  <2>5. stage[d].status \notin {"pending", "cancelled"}
    BY <2>2 DEF DoneStatuses
  <2> QED BY <1>1, <1>2, <2>2, <2>4, <2>5, EarlierDone
<1>5. ASSUME Active(stage[s]) PROVE s = e
  <2> SUFFICES ASSUME s # e PROVE FALSE
    OBVIOUS
  <2>1. /\ stage[s].status \notin DoneStatuses
        /\ stage[s].status \notin {"pending", "cancelled"}
    BY <1>5 DEF Active, ActiveStatuses, DoneStatuses
  <2>2. DependenciesSatisfied(s)
    BY <2>1 DEF RowsInv, DependenciesRespected
  <2> QED BY <1>1, <1>3, <1>4, <2>1, <2>2
<1>6. ASSUME stage[s].status = "pending" PROVE ~DependenciesSatisfied(s)
  <2>1. s # e /\ stage[s].status \notin DoneStatuses
    BY <1>6 DEF DoneStatuses, Active, ActiveStatuses
  <2> QED BY <1>1, <1>3, <1>4, <2>1
<1> QED BY <1>5, <1>6

(* A row that is as it was loaded becomes what the handler wants; a row of *)
(* which it wants nothing stays.                                           *)
LEMMA UpdatedAsWanted ==
  ASSUME NEW D, NEW row, NEW wanted, row = [f \in D |-> row[f]],
         wanted = [f \in D |-> wanted[f]]
  PROVE  Updated(row, row, wanted) = wanted
<1>1. DOMAIN row = D
  OBVIOUS
<1>2. Updated(row, row, wanted) = [f \in D |-> wanted[f]]
  BY <1>1 DEF Updated
<1> QED BY <1>2

LEMMA UpdatedNot ==
  ASSUME NEW D, NEW row, NEW loaded, row = [f \in D |-> row[f]]
  PROVE  Updated(row, loaded, loaded) = row
<1>1. DOMAIN row = D
  OBVIOUS
<1> QED BY <1>1 DEF Updated

LEMMA StageColumns ==
  ASSUME NEW row \in StageRecords
  PROVE  row = [f \in {"status", "attempt", "worker", "device", "token", "expires",
                       "available_at", "completion", "started", "completed",
                       "error", "result"} |-> row[f]]
BY DEF StageRecords

LEMMA TaskColumns ==
  ASSUME NEW row \in TaskRecords
  PROVE  row = [f \in {"status", "started", "completed", "error", "result"} |-> row[f]]
BY DEF TaskRecords

LEMMA StageUpdates ==
  ASSUME NEW row \in StageRecords
  PROVE  /\ \A wanted \in StageRecords : Updated(row, row, wanted) = wanted
         /\ \A loaded : Updated(row, loaded, loaded) = row
BY StageColumns, UpdatedAsWanted, UpdatedNot

LEMMA TaskUpdates ==
  ASSUME NEW row \in TaskRecords
  PROVE  /\ \A wanted \in TaskRecords : Updated(row, row, wanted) = wanted
         /\ \A loaded : Updated(row, loaded, loaded) = row
BY TaskColumns, UpdatedAsWanted, UpdatedNot

(* The rows that handlers compute with the clock they read are as sound as *)
(* those computed with the clock of the moment.                            *)
LEMMA RowDelayed ==
  ASSUME NEW s \in Stages, NEW r \in StageRecords, NEW iss \in Seq(Workers),
         RowInv(s, r, iss), NEW n \in Nat
  PROVE  /\ RowInv(s, [r EXCEPT !.available_at = n], iss)
         /\ [r EXCEPT !.available_at = n].status = r.status
<1> DEFINE q == [r EXCEPT !.available_at = n]
<1>2. q \in StageRecords
  BY DEF StageRecords
<1>3. /\ q.status = r.status /\ q.attempt = r.attempt /\ q.worker = r.worker
      /\ q.token = r.token /\ q.completion = r.completion
      /\ q.started = r.started /\ q.completed = r.completed
      /\ q.error = r.error /\ q.result = r.result
      /\ q.expires = r.expires
  BY DEF StageRecords
<1> HIDE DEF q
<1>4. RowInv(s, q, iss)
  BY <1>2, <1>3 DEF RowInv, Active
<1> QED BY <1>3, <1>4 DEF q

LEMMA LeasedAt ==
  ASSUME NEW s \in Stages, NEW r \in StageRecords, NEW iss \in Seq(Workers),
         RowInv(s, r, iss), r.status = "pending", now \in Nat,
         NEW w \in Workers, NEW d \in Devices, NEW at \in Nat
  PROVE  LET q == At(at)!LeasedStage(r, w, d, Len(iss) + 1)
         IN RowInv(s, q, Append(iss, w)) /\ q.status = "leased"
<1> DEFINE k == Len(iss) + 1
           q == LeasedStage(r, w, d, k)
           e == at + LeaseDuration
<1>1. RowInv(s, q, Append(iss, w)) /\ q.status = "leased"
  BY RowLeased
<1>2. At(at)!LeasedStage(r, w, d, k) = [q EXCEPT !.expires = e]
  <2> HIDE DEF k
  <2> QED BY DEF At!LeasedStage, LeasedStage, StageRecords, At!NoCompletion, NoCompletion,
                 At!NoToken, NoToken
<1>3. e \in Nat /\ e # NoTime
  BY LeaseAssumption DEF NoTime
<1>4. Active(q) /\ q \in StageRecords /\ Append(iss, w) \in Seq(Workers)
  BY <1>1 DEF Active, ActiveStatuses, RowInv
<1> HIDE DEF q, e
<1>5. /\ RowInv(s, [q EXCEPT !.expires = e], Append(iss, w))
      /\ [q EXCEPT !.expires = e].status = q.status
  BY <1>1, <1>3, <1>4, RowRenewed
<1> QED BY <1>1, <1>2, <1>5 DEF k

LEMMA FailedAt ==
  ASSUME NEW s \in Stages, NEW r \in StageRecords, NEW iss \in Seq(Workers),
         RowInv(s, r, iss), Active(r), now \in Nat, NEW at \in Nat
  PROVE  LET q == At(at)!FailOrRetryStage(s, r)
         IN /\ RowInv(s, q, iss)
            /\ q.status \in {"pending", "skipped", "failed"}
<1> DEFINE q == FailOrRetryStage(s, r)
           n == at + RetryDelay(r.attempt)
<1>1. /\ q \in StageRecords /\ RowInv(s, q, iss)
      /\ q.status \in {"pending", "skipped", "failed"}
  BY RowFailOrRetry
<1>2. At(at)!Exhausted(s, r) <=> Exhausted(s, r)
  BY DEF At!Exhausted, Exhausted
<1>3. CASE Exhausted(s, r)
  <2>1. At(at)!FailOrRetryStage(s, r) = q
    BY <1>2, <1>3 DEF At!FailOrRetryStage, FailOrRetryStage, At!ClearLease, ClearLease,
                      At!NoToken, NoToken, At!NoTime, NoTime
  <2> QED BY <1>1, <2>1
<1>4. CASE ~Exhausted(s, r)
  <2>1. RetryDelay(r.attempt) \in Nat
    BY RetryDelayType, RowFields DEF RowInv
  <2>2. n \in Nat
    BY <2>1
  <2>3. At(at)!RetryDelay(r.attempt) = RetryDelay(r.attempt)
    BY DEF At!RetryDelay, RetryDelay
  <2>4. At(at)!FailOrRetryStage(s, r) = [q EXCEPT !.available_at = n]
    <3>1. At(at)!FailOrRetryStage(s, r) = At(at)!Requeued(r)
      BY <1>2, <1>4 DEF At!FailOrRetryStage
    <3>2. q = Requeued(r)
      BY <1>4 DEF FailOrRetryStage
    <3>3. At(at)!Requeued(r) = [Requeued(r) EXCEPT !.available_at = n]
      <4> DEFINE m == now + RetryDelay(r.attempt)
      <4>1. Requeued(r) =
              [r EXCEPT !.status = "pending", !.error = FALSE,
                        !.started = FALSE, !.completed = FALSE,
                        !.available_at = m,
                        !.worker = NoWorker, !.device = NoDevice,
                        !.token = NoToken, !.expires = NoTime]
        BY DEF Requeued, ClearLease
      <4>2. At(at)!Requeued(r) =
              [r EXCEPT !.status = "pending", !.error = FALSE,
                        !.started = FALSE, !.completed = FALSE,
                        !.available_at = n,
                        !.worker = NoWorker, !.device = NoDevice,
                        !.token = NoToken, !.expires = NoTime]
        BY <2>3 DEF At!Requeued, At!ClearLease, At!NoToken, NoToken, At!NoTime, NoTime
      <4> HIDE DEF m, n
      <4> QED BY <4>1, <4>2 DEF StageRecords
    <3> QED BY <3>1, <3>2, <3>3
  <2> HIDE DEF q, n
  <2> QED BY <1>1, <2>2, <2>4, RowDelayed
<1> QED BY <1>3, <1>4

(* The end of an attempt, as a transaction has computed it. *)
LEMMA EndedAt ==
  ASSUME NEW x, NEW s \in Stages, NEW iss \in Seq(Workers),
         x.loaded.stage[s] \in StageRecords, RowInv(s, x.loaded.stage[s], iss),
         Active(x.loaded.stage[s]), now \in Nat, x.at \in Nat,
         \/ x.call.op = "reconcile"
         \/ x.call.op \in Requests /\ x.loaded.stage[s].status = "running"
  PROVE  /\ RowInv(s, EndedRow(x, s), iss)
         /\ EndedRow(x, s).status \in {"pending", "skipped", "failed", "succeeded"}
<1> DEFINE old == x.loaded.stage[s]
           w == old.worker
           k == old.token
           r == [old EXCEPT !.completion = [worker |-> w, device |-> old.device,
                                            token |-> k, request |-> x.call.op]]
<1>1. CASE x.call.op = "reconcile"
  <2>1. EndedRow(x, s) = At(x.at)!FailOrRetryStage(s, old)
    BY <1>1 DEF EndedRow
  <2> QED BY <2>1, FailedAt
<1>2. CASE x.call.op \in Requests
  <2>1. w \in Workers /\ k \in Nat
    <3>1. k = Len(iss) /\ w = iss[Len(iss)] /\ k # 0
      BY DEF RowInv, NoToken
    <3>2. Len(iss) \in 1..Len(iss)
      BY <3>1
    <3> QED BY <3>1, <3>2
  <2> HIDE DEF w, k
  <2>2. r \in StageRecords /\ RowInv(s, r, iss) /\ r.status = old.status
    BY <1>2, <2>1, RowCompletion
  <2>3. old.status = "running"
    BY <1>2 DEF Requests
  <2>4. EndedRow(x, s) = IF x.call.op = "failed"
                           THEN At(x.at)!FailOrRetryStage(s, r)
                           ELSE SucceedStage(r, x.call.op)
    BY <1>2 DEF EndedRow, Requests, w, k
  <2> HIDE DEF r, old
  <2>5. Active(r) /\ r.status = "running"
    BY <2>2, <2>3 DEF Active, ActiveStatuses
  <2>6. CASE x.call.op = "failed"
    BY <2>2, <2>4, <2>5, <2>6, FailedAt
  <2>7. CASE x.call.op # "failed"
    BY <1>2, <2>2, <2>4, <2>5, <2>7, RowSucceeded
  <2> QED BY <2>6, <2>7
<1> QED BY <1>1, <1>2

(* The tasks a transaction is about, handler by handler. *)
LEMMA ConcernsOf ==
  ASSUME NEW x
  PROVE  /\ x.call.op = "lease" => Concerns(x) = {TaskOf[s] : s \in WrittenStages(x)}
         /\ x.call.op \in StageCalls => Concerns(x) = {TaskOf[s] : s \in x.stages}
         /\ x.call.op \in {"cancel", "retry"} => Concerns(x) = {x.call.task}
<1>1. CASE x.call.op = "lease"
  BY <1>1 DEF Concerns, StageCalls, Requests
<1>2. CASE x.call.op \in StageCalls
  BY <1>2 DEF Concerns, StageCalls, Requests
<1>3. CASE x.call.op \in {"cancel", "retry"}
  BY <1>3 DEF Concerns, StageCalls, Requests
<1> QED BY <1>1, <1>2, <1>3 DEF StageCalls, Requests

(* A transaction wants nothing of the rows of other tasks. *)
LEMMA PlannedApart ==
  ASSUME NEW x, x.call.op \in Handlers, Planned(x), NEW t \in Tasks, t \notin Concerns(x)
  PROVE  /\ x.wanted.task[t] = x.loaded.task[t]
         /\ \A s \in StagesOf(t) : x.wanted.stage[s] = x.loaded.stage[s]
<1> USE StructureAssumption
<1>0. /\ x.loaded.stage \in [Stages -> StageRecords]
      /\ x.loaded.task \in [Tasks -> TaskRecords]
  BY DEF Planned
<1>1. CASE x.call.op = "lease"
  <2>1. Concerns(x) = {TaskOf[s] : s \in WrittenStages(x)}
    BY <1>1, ConcernsOf
  <2>2. \A s \in StagesOf(t) : s \in Stages /\ s \notin WrittenStages(x)
    BY <2>1 DEF StagesOf
  <2>3. x.wanted.task[t] = x.loaded.task[t]
    BY <1>1 DEF Planned, GrantPlanned
  <2> QED BY <2>2, <2>3 DEF WrittenStages
<1>2. CASE x.call.op \in {"renew", "start"}
  <2> DEFINE s == x.call.stage
  <2>1. Concerns(x) = {TaskOf[z] : z \in x.stages} /\ x.stages = {s} /\ s \in Stages
    BY <1>2, ConcernsOf DEF StageCalls, Planned
  <2>2. TaskOf[s] # t
    BY <2>1
  <2>3. \A z \in StagesOf(t) : z \in Stages /\ z # s
    BY <2>2 DEF StagesOf
  <2>4. CASE x.call.op = "renew"
    <3>1. RenewPlanned(x, s)
      BY <2>4 DEF Planned
    <3> HIDE DEF s
    <3> QED BY <1>0, <2>3, <3>1 DEF RenewPlanned
  <2>5. CASE x.call.op = "start"
    <3>1. StartPlanned(x, s)
      BY <2>5 DEF Planned
    <3> HIDE DEF s
    <3> QED BY <1>0, <2>1, <2>2, <2>3, <3>1 DEF StartPlanned
  <2> QED BY <1>2, <2>4, <2>5
<1>3. CASE x.call.op \in Requests \cup {"reconcile"}
  <2>1. EndPlanned(x) /\ Concerns(x) = {TaskOf[z] : z \in x.stages}
    BY <1>3, ConcernsOf DEF Planned, StageCalls
  <2>2. \A s \in StagesOf(t) : s \in Stages /\ s \notin x.stages /\ TaskOf[s] = t
    BY <2>1 DEF StagesOf
  <2> QED BY <2>1, <2>2 DEF EndPlanned, ReconciledStages
<1>4. CASE x.call.op = "cancel"
  <2>1. CancelPlanned(x, x.call.task) /\ x.call.task # t
    BY <1>4, ConcernsOf DEF Planned
  <2>2. \A s \in StagesOf(t) : s \in Stages /\ TaskOf[s] = t
    BY DEF StagesOf
  <2> QED BY <1>0, <2>1, <2>2 DEF CancelPlanned
<1>5. CASE x.call.op = "retry"
  <2>1. RetryPlanned(x, x.call.task) /\ x.call.task # t
    BY <1>5, ConcernsOf DEF Planned
  <2>2. \A s \in StagesOf(t) : s \in Stages /\ TaskOf[s] = t
    BY DEF StagesOf
  <2> QED BY <1>0, <2>1, <2>2 DEF RetryPlanned
<1> QED BY <1>1, <1>2, <1>3, <1>4, <1>5 DEF Handlers

(* What a commit makes of the rows: one that is as it was loaded becomes   *)
(* what the handler wants, one of which it wants nothing stays.            *)
RowsWritten(x) ==
  /\ stage' = [s \in Stages |-> stage'[s]]
  /\ task' = [t \in Tasks |-> task'[t]]
  /\ event' = [t \in Tasks |-> event'[t]]
  /\ \A s \in Stages :
       /\ x.wanted.stage[s] = x.loaded.stage[s] => stage'[s] = stage[s]
       /\ (stage[s] = x.loaded.stage[s] /\ x.wanted.stage[s] \in StageRecords)
            => stage'[s] = x.wanted.stage[s]
  /\ \A t \in Tasks :
       /\ x.wanted.task[t] = x.loaded.task[t] =>
            task'[t] = task[t] /\ event'[t] = event[t]
       /\ (task[t] = x.loaded.task[t] /\ x.wanted.task[t] \in TaskRecords)
            => /\ task'[t] = x.wanted.task[t]
               /\ event'[t] = IF task[t].status # task'[t].status
                                THEN StatusEvent(task[t].status, task'[t].status)
                                ELSE event[t]
  /\ x.call.op # "lease" => issued' = issued

LEMMA CommitWrites ==
  ASSUME ChainInv, NEW c \in Sessions, Commit(c)
  PROVE  RowsWritten(tx[c])
<1> DEFINE x == tx[c]
<1>1. /\ stage \in [Stages -> StageRecords] /\ task \in [Tasks -> TaskRecords]
      /\ issued \in [Stages -> Seq(Workers)]
  BY DEF ChainInv, RowsInv, RowTypes
<1>2. /\ stage' = [s \in Stages |->
                     Updated(stage[s], x.loaded.stage[s], x.wanted.stage[s])]
      /\ task' = [t \in Tasks |->
                    Updated(task[t], x.loaded.task[t], x.wanted.task[t])]
      /\ event' = [t \in Tasks |->
                     LET from == x.loaded.task[t].status
                         to == x.wanted.task[t].status
                     IN IF from # to THEN StatusEvent(from, to) ELSE event[t]]
      /\ issued' = [s \in Stages |->
                      IF x.call.op = "lease" /\ s \in WrittenStages(x)
                        THEN Append(issued[s], x.call.worker)
                        ELSE issued[s]]
  BY DEF Commit
<1> HIDE DEF x
<1>3. ASSUME NEW s \in Stages
      PROVE  /\ x.wanted.stage[s] = x.loaded.stage[s] => stage'[s] = stage[s]
             /\ (stage[s] = x.loaded.stage[s] /\ x.wanted.stage[s] \in StageRecords)
                  => stage'[s] = x.wanted.stage[s]
  <2>1. stage[s] \in StageRecords
        /\ stage'[s] = Updated(stage[s], x.loaded.stage[s], x.wanted.stage[s])
    BY <1>1, <1>2
  <2> QED BY <2>1, StageUpdates
<1>4. ASSUME NEW t \in Tasks
      PROVE  /\ x.wanted.task[t] = x.loaded.task[t] =>
                  task'[t] = task[t] /\ event'[t] = event[t]
             /\ (task[t] = x.loaded.task[t] /\ x.wanted.task[t] \in TaskRecords)
                  => /\ task'[t] = x.wanted.task[t]
                     /\ event'[t] =
                          IF task[t].status # task'[t].status
                            THEN StatusEvent(task[t].status, task'[t].status)
                            ELSE event[t]
  <2>1. /\ task[t] \in TaskRecords
        /\ task'[t] = Updated(task[t], x.loaded.task[t], x.wanted.task[t])
        /\ event'[t] = IF x.loaded.task[t].status # x.wanted.task[t].status
                         THEN StatusEvent(x.loaded.task[t].status, x.wanted.task[t].status)
                         ELSE event[t]
    BY <1>1, <1>2
  <2> QED BY <2>1, TaskUpdates
<1>5. x.call.op # "lease" => issued' = issued
  BY <1>1, <1>2
<1> QED
  <2>1. /\ stage' = [s \in Stages |-> stage'[s]]
        /\ task' = [t \in Tasks |-> task'[t]]
        /\ event' = [t \in Tasks |-> event'[t]]
    BY <1>2
  <2> QED BY <1>3, <1>4, <1>5, <2>1 DEF x, RowsWritten

(* The rows of the tasks it is not about stay. *)
LEMMA CommitApart ==
  ASSUME ChainInv, TransactionInv, NEW c \in Sessions, Commit(c),
         NEW t \in Tasks, t \notin Concerns(tx[c])
  PROVE  /\ task'[t] = task[t] /\ event'[t] = event[t]
         /\ \A s \in StagesOf(t) : stage'[s] = stage[s]
<1>1. /\ HoldsLocks(tx[c]) /\ tx[c] # Idle
  BY DEF Commit, HoldsLocks, Idle
<1>2. tx[c].call.op \in Handlers /\ Planned(tx[c])
  BY <1>1 DEF TransactionInv, SessionsSound, SessionSound, CallSound, ChainInv
<1>3. /\ tx[c].wanted.task[t] = tx[c].loaded.task[t]
      /\ \A s \in StagesOf(t) : tx[c].wanted.stage[s] = tx[c].loaded.stage[s]
  BY <1>2, PlannedApart
<1>4. \A s \in StagesOf(t) : s \in Stages
  BY DEF StagesOf
<1> QED BY <1>3, <1>4, CommitWrites DEF RowsWritten

(* What a session that commits has planned and found. *)
LEMMA Committing ==
  ASSUME ChainInv, TransactionInv, NEW c \in Sessions, Commit(c)
  PROVE  /\ HoldsLocks(tx[c]) /\ tx[c].phase = "flushed" /\ tx[c] # Idle
         /\ tx[c].call.op \in Handlers
         /\ tx[c].call.op = "lease" => tx[c].call.worker \in Workers
         /\ CallTyped(tx[c].call)
         /\ PlanSound(tx[c]) /\ Planned(tx[c]) /\ AsFound(tx[c])
<1>1. /\ HoldsLocks(tx[c]) /\ tx[c].phase = "flushed" /\ tx[c] # Idle
  BY DEF Commit, HoldsLocks, Idle
<1> QED
  BY <1>1 DEF TransactionInv, SessionsSound, SessionSound, CallSound, ChainInv

(* The commit of each handler does to the rows what the handler does in    *)
(* one step.                                                               *)
LEMMA CommitsLease ==
  ASSUME ChainInv, TransactionInv, NEW c \in Sessions, Commit(c),
         tx[c].call.op = "lease"
  PROVE  RowsInv'
<1> USE StructureAssumption
<1> DEFINE x == tx[c]
           w == x.call.worker
           granted == WrittenStages(x)
           new == x.wanted.stage
           claimed == {t \in Tasks : /\ task[t].status = "pending"
                                     /\ \E s \in granted : TaskOf[s] = t}
<1>1. /\ RowsInv /\ now \in Nat /\ w \in Workers /\ granted \in SUBSET Stages
      /\ PlanSound(x) /\ Planned(x) /\ AsFound(x)
  BY Committing DEF ChainInv, WrittenStages
<1>2. Concerns(x) = {TaskOf[s] : s \in granted} /\ GrantPlanned(x) /\ x.at \in Nat
  BY <1>1, ConcernsOf DEF Planned
<1>3. \A t \in Concerns(x) :
        /\ task[t] = x.loaded.task[t]
        /\ \A s \in StagesOf(t) : stage[s] = x.loaded.stage[s]
  BY <1>1 DEF AsFound
<1>4. ASSUME NEW s \in granted
      PROVE  /\ s \in Stages /\ stage[s] = x.loaded.stage[s]
             /\ TaskOf[s] \in Tasks
             /\ task[TaskOf[s]] = x.loaded.task[TaskOf[s]]
             /\ stage[s].status = "pending"
             /\ task[TaskOf[s]].status \in OpenStatuses
             /\ DependenciesSatisfied(s)
  <2>1. s \in Stages /\ TaskOf[s] \in Concerns(x) /\ TaskOf[s] \in Tasks
    BY <1>1, <1>2
  <2>2. \A z \in {s} \cup DependsOn[s] : stage[z] = x.loaded.stage[z]
    BY <1>3, <2>1 DEF StagesOf
  <2>3. /\ x.loaded.stage[s].status = "pending"
        /\ x.loaded.task[TaskOf[s]].status \in OpenStatuses
        /\ \A d \in DependsOn[s] : x.loaded.stage[d].status \in DoneStatuses
    BY <1>2 DEF GrantPlanned
  <2> QED BY <1>3, <2>1, <2>2, <2>3 DEF DependenciesSatisfied
<1>5. ASSUME NEW s \in granted
      PROVE  /\ RowInv(s, new[s], Append(issued[s], w))
             /\ new[s].status = "leased"
             /\ new[s] \in StageRecords
  <2>1. new[s].token = Len(issued[s]) + 1
    <3>1. Intent(x.call, x.stages, s, x.loaded.stage[s], new[s])
          /\ new[s] # x.loaded.stage[s]
      BY <1>1 DEF PlanSound, WrittenStages
    <3> QED BY <3>1 DEF Intent, Leaves, Grants
  <2>2. PICK d \in Devices :
          new[s] = At(x.at)!LeasedStage(x.loaded.stage[s], w, d, new[s].token)
    BY <1>2 DEF GrantPlanned
  <2>3. /\ stage[s] \in StageRecords /\ issued[s] \in Seq(Workers)
        /\ RowInv(s, stage[s], issued[s])
    BY <1>1, <1>4 DEF RowsInv, RowTypes, Rows
  <2>4. LET q == At(x.at)!LeasedStage(stage[s], w, d, Len(issued[s]) + 1)
        IN RowInv(s, q, Append(issued[s], w)) /\ q.status = "leased"
    <3> HIDE DEF x, w, granted
    <3> QED BY <1>1, <1>2, <1>4, <2>3, LeasedAt
  <2>5. /\ RowInv(s, new[s], Append(issued[s], w)) /\ new[s].status = "leased"
    BY <1>4, <2>1, <2>2, <2>4
  <2> HIDE DEF new
  <2> QED BY <2>5 DEF RowInv
<1>6. stage' = [s \in Stages |-> IF s \in granted THEN new[s] ELSE stage[s]]
  <2>1. ASSUME NEW s \in Stages
        PROVE  stage'[s] = IF s \in granted THEN new[s] ELSE stage[s]
    <3>1. CASE s \in granted
      BY <1>4, <1>5, <3>1, CommitWrites DEF RowsWritten
    <3>2. CASE s \notin granted
      <4>1. new[s] = x.loaded.stage[s]
        BY <3>2 DEF WrittenStages
      <4> QED BY <3>2, <4>1, CommitWrites DEF RowsWritten
    <3> QED BY <3>1, <3>2
  <2>2. stage' = [s \in Stages |-> stage'[s]]
    BY CommitWrites DEF RowsWritten
  <2> HIDE DEF granted, new
  <2> QED BY <2>1, <2>2
<1>7. issued' = [s \in Stages |->
                   IF s \in granted THEN Append(issued[s], w) ELSE issued[s]]
  BY DEF Commit
<1>8. ASSUME NEW t \in Tasks
      PROVE  /\ task'[t] = IF t \in claimed THEN [task[t] EXCEPT !.status = "leased"]
                                            ELSE task[t]
             /\ event'[t] = IF t \in claimed THEN StatusEvent("pending", "leased")
                                             ELSE event[t]
  <2>1. x.wanted.task[t] = IF t \in Concerns(x) /\ x.loaded.task[t].status = "pending"
                             THEN [x.loaded.task[t] EXCEPT !.status = "leased"]
                             ELSE x.loaded.task[t]
    BY <1>2 DEF GrantPlanned
  <2>2. t \in claimed <=> t \in Concerns(x) /\ x.loaded.task[t].status = "pending"
    BY <1>2, <1>3, <1>4
  <2>3. CASE t \in claimed
    <3>1. task[t] \in TaskRecords /\ task[t] = x.loaded.task[t] /\ task[t].status = "pending"
      BY <1>1, <1>3, <2>2, <2>3 DEF RowsInv, RowTypes
    <3> DEFINE q == [task[t] EXCEPT !.status = "leased"]
    <3>2. q \in TaskRecords /\ q.status = "leased"
      BY <3>1 DEF TaskRecords, TaskStatuses
    <3>3. x.wanted.task[t] = q
      BY <2>1, <2>2, <2>3, <3>1
    <3> HIDE DEF q, claimed, x
    <3>4. task'[t] = q /\ event'[t] = StatusEvent("pending", "leased")
      BY <3>1, <3>2, <3>3, CommitWrites DEF x, RowsWritten
    <3> QED BY <2>3, <3>4 DEF q
  <2>4. CASE t \notin claimed
    <3>1. x.wanted.task[t] = x.loaded.task[t]
      BY <2>1, <2>2, <2>4
    <3> QED BY <2>4, <3>1, CommitWrites DEF RowsWritten
  <2> QED BY <2>3, <2>4
<1>9. LeaseEffect(w, granted, new)
  <2>1. task' = [t \in Tasks |-> task'[t]] /\ event' = [t \in Tasks |-> event'[t]]
    BY CommitWrites DEF RowsWritten
  <2>2. /\ task' = [t \in Tasks |->
                      IF t \in claimed THEN [task[t] EXCEPT !.status = "leased"]
                                       ELSE task[t]]
        /\ event' = [t \in Tasks |->
                       IF t \in claimed THEN StatusEvent("pending", "leased")
                                        ELSE event[t]]
    <3> HIDE DEF claimed
    <3> QED BY <1>8, <2>1
  <2> QED BY <1>6, <1>7, <2>2, Zenon DEF LeaseEffect
<1> HIDE DEF x, w, granted, new
<1> QED BY <1>1, <1>4, <1>5, <1>9, LeaseRows

(* The rows that the handlers write are rows. *)
LEMMA WrittenRows ==
  /\ \A r \in StageRecords, e \in Nat : RenewedRow(r, e) \in StageRecords
  /\ \A r \in StageRecords : StartedRow(r) \in StageRecords
  /\ \A r \in TaskRecords : /\ StartedRow(r) \in TaskRecords
                            /\ StartedRow(r).status = "running"
                            /\ CancelledTask(r) \in TaskRecords
                            /\ CancelledTask(r).status = "cancelled"
  /\ RetriedTask \in TaskRecords /\ RetriedTask.status = "pending"
<1>1. /\ "running" \in StageStatuses
      /\ {"running", "cancelled", "pending"} \subseteq TaskStatuses
  BY DEF StageStatuses, TaskStatuses
<1>2. \A r \in StageRecords, e \in Nat : RenewedRow(r, e) \in StageRecords
  BY DEF RenewedRow, StageRecords
<1>3. \A r \in StageRecords : StartedRow(r) \in StageRecords
  BY <1>1 DEF StartedRow, StageRecords
<1>4. \A r \in TaskRecords : /\ StartedRow(r) \in TaskRecords
                             /\ StartedRow(r).status = "running"
                             /\ CancelledTask(r) \in TaskRecords
                             /\ CancelledTask(r).status = "cancelled"
  BY <1>1 DEF StartedRow, CancelledTask, TaskRecords
<1>5. RetriedTask \in TaskRecords /\ RetriedTask.status = "pending"
  BY <1>1 DEF RetriedTask, TaskRecords
<1> QED BY <1>2, <1>3, <1>4, <1>5

(* A row that is written alone. *)
LEMMA RowWritten ==
  ASSUME NEW S, NEW R, NEW f \in [S -> R], NEW g, g = [z \in S |-> g[z]], NEW s \in S,
         \A z \in S \ {s} : g[z] = f[z]
  PROVE  g = [f EXCEPT ![s] = g[s]]
OBVIOUS

(* What is written to a row that is still as it was loaded. *)
LEMMA StageWritten ==
  ASSUME NEW x, RowsWritten(x), NEW s \in Stages, stage[s] = x.loaded.stage[s],
         NEW r \in StageRecords, x.wanted.stage[s] = r
  PROVE  stage'[s] = r
BY DEF RowsWritten

LEMMA TaskWritten ==
  ASSUME NEW x, RowsWritten(x), NEW t \in Tasks, task[t] = x.loaded.task[t],
         NEW r \in TaskRecords, x.wanted.task[t] = r, task[t].status # r.status
  PROVE  task'[t] = r /\ event'[t] = StatusEvent(task[t].status, r.status)
<1>1. task'[t] = r /\ event'[t] = IF task[t].status # task'[t].status
                                   THEN StatusEvent(task[t].status, task'[t].status)
                                   ELSE event[t]
  BY DEF RowsWritten
<1> QED BY <1>1

LEMMA CommitsRenew ==
  ASSUME ChainInv, TransactionInv, NEW c \in Sessions, Commit(c),
         NEW x, x = tx[c], x.call.op = "renew",
         NEW s, s = x.call.stage, NEW e, e = x.at + LeaseDuration
  PROVE  /\ RowsInv' /\ s \in Stages /\ Active(stage[s]) /\ e \in Nat /\ e # NoTime
         /\ stage' = [stage EXCEPT ![s] = RenewedRow(stage[s], e)] /\ task' = task
<1> USE StructureAssumption
<1>1. /\ RowsInv /\ Planned(x) /\ AsFound(x) /\ x.call.op \in StageCalls
  BY Committing DEF ChainInv, StageCalls
<1>w. RowsWritten(x)
  BY CommitWrites
<1>2. /\ x.stages = {s} /\ s \in Stages /\ Active(x.loaded.stage[s])
      /\ RenewPlanned(x, s) /\ x.at \in Nat
  BY <1>1 DEF Planned
<1>3. stage[s] = x.loaded.stage[s] /\ Active(stage[s])
  <2>1. TaskOf[s] \in Concerns(x) /\ s \in StagesOf(TaskOf[s])
    BY <1>1, <1>2, ConcernsOf DEF StagesOf
  <2> QED BY <1>1, <1>2, <2>1 DEF AsFound
<1>4. e \in Nat /\ e # NoTime
  BY <1>2, LeaseAssumption DEF NoTime
<1>5. stage \in [Stages -> StageRecords] /\ task \in [Tasks -> TaskRecords]
      /\ event \in [Tasks -> Events]
  BY <1>1 DEF RowsInv, RowTypes
<1>6. /\ x.wanted.stage[s] = RenewedRow(stage[s], e)
      /\ \A z \in Stages \ {s} : x.wanted.stage[z] = x.loaded.stage[z]
      /\ x.wanted.task = x.loaded.task
  <2>1. /\ x.wanted.stage = [z \in Stages |->
                               IF z = s THEN RenewedRow(x.loaded.stage[z], e)
                                        ELSE x.loaded.stage[z]]
        /\ x.wanted.task = x.loaded.task
    BY <1>2, Zenon DEF RenewPlanned
  <2>2. \A z \in Stages : x.wanted.stage[z] =
          IF z = s THEN RenewedRow(x.loaded.stage[z], e) ELSE x.loaded.stage[z]
    BY <2>1
  <2>3. x.wanted.stage[s] = RenewedRow(x.loaded.stage[s], e)
    BY <1>2, <2>2
  <2> QED BY <1>3, <2>1, <2>2, <2>3
<1>7. RenewedRow(stage[s], e) \in StageRecords
  BY <1>2, <1>4, <1>5, WrittenRows
<1>8. stage' = [stage EXCEPT ![s] = RenewedRow(stage[s], e)]
  <2>1. stage'[s] = RenewedRow(stage[s], e)
    <3>1. PICK r : r = RenewedRow(stage[s], e)
      OBVIOUS
    <3>2. s \in Stages /\ r \in StageRecords /\ x.wanted.stage[s] = r
          /\ stage[s] = x.loaded.stage[s]
      BY <1>2, <1>3, <1>6, <1>7, <3>1
    <3>3. stage'[s] = r
      BY <1>w, <3>2, StageWritten
    <3> QED BY <3>1, <3>3
  <2>2. /\ \A z \in Stages \ {s} : stage'[z] = stage[z]
        /\ stage' = [z \in Stages |-> stage'[z]]
    BY <1>6, <1>w DEF RowsWritten
  <2> QED BY <1>2, <1>5, <2>1, <2>2, RowWritten
<1>9. task' = task /\ event' = event /\ issued' = issued
  <2>1. /\ \A t \in Tasks : task'[t] = task[t] /\ event'[t] = event[t]
        /\ task' = [t \in Tasks |-> task'[t]]
        /\ event' = [t \in Tasks |-> event'[t]]
        /\ issued' = issued
    BY <1>6, <1>w DEF RowsWritten
  <2> QED BY <1>5, <2>1
<1>10. stage' = [stage EXCEPT ![s].expires = e]
  BY <1>2, <1>5, <1>8 DEF RenewedRow
<1>11. RowsInv'
  BY <1>1, <1>2, <1>3, <1>4, <1>9, <1>10, RenewRows
<1> QED BY <1>2, <1>3, <1>4, <1>8, <1>9, <1>11

LEMMA CommitsStart ==
  ASSUME ChainInv, TransactionInv, NEW c \in Sessions, Commit(c),
         NEW x, x = tx[c], x.call.op = "start",
         NEW s, s = x.call.stage, NEW t, t = TaskOf[s]
  PROVE  /\ RowsInv' /\ s \in Stages /\ t \in Tasks /\ stage[s].status = "leased"
         /\ stage' = [stage EXCEPT ![s] = StartedRow(stage[s])]
         /\ task[t].status = "leased" => t \in x.writes
         /\ task[t].status # "leased" => task' = task
<1> USE StructureAssumption
<1>1. /\ RowsInv /\ Planned(x) /\ AsFound(x) /\ x.call.op \in StageCalls
  BY Committing DEF ChainInv, StageCalls
<1>w. RowsWritten(x)
  BY CommitWrites
<1>2. /\ x.stages = {s} /\ s \in Stages /\ t \in Tasks
      /\ StartPlanned(x, s)
  BY <1>1 DEF Planned
<1>3. stage[s] = x.loaded.stage[s] /\ stage[s].status = "leased"
      /\ task[t] = x.loaded.task[t]
  <2>1. t \in Concerns(x) /\ s \in StagesOf(t)
    BY <1>1, <1>2, ConcernsOf DEF StagesOf
  <2>2. x.loaded.stage[s].status = "leased"
    BY <1>2 DEF StartPlanned
  <2> QED BY <1>1, <1>2, <2>1, <2>2 DEF AsFound
<1>4. stage \in [Stages -> StageRecords] /\ task \in [Tasks -> TaskRecords]
      /\ event \in [Tasks -> Events]
  BY <1>1 DEF RowsInv, RowTypes
<1>5. /\ x.wanted.stage[s] = StartedRow(stage[s])
      /\ \A z \in Stages \ {s} : x.wanted.stage[z] = x.loaded.stage[z]
      /\ x.wanted.task[t] = IF task[t].status = "leased" THEN StartedRow(task[t])
                                                         ELSE task[t]
      /\ \A z \in Tasks \ {t} : x.wanted.task[z] = x.loaded.task[z]
      /\ task[t].status = "leased" => t \in x.writes
  <2> DEFINE first == {z \in {t} : x.loaded.task[z].status = "leased"}
  <2>1. /\ first \subseteq x.writes
        /\ x.wanted.stage = [z \in Stages |->
                               IF z = s THEN StartedRow(x.loaded.stage[z])
                                        ELSE x.loaded.stage[z]]
        /\ x.wanted.task = [z \in Tasks |->
                              IF z \in first THEN StartedRow(x.loaded.task[z])
                                             ELSE x.loaded.task[z]]
    BY <1>2, Zenon DEF StartPlanned
  <2>2. t \in first <=> task[t].status = "leased"
    BY <1>3
  <2>3. \A z \in Tasks \ {t} : z \notin first
    OBVIOUS
  <2> HIDE DEF first
  <2>4. /\ x.wanted.stage[s] = StartedRow(stage[s])
        /\ \A z \in Stages \ {s} : x.wanted.stage[z] = x.loaded.stage[z]
    <3>1. \A z \in Stages : x.wanted.stage[z] =
            IF z = s THEN StartedRow(x.loaded.stage[z]) ELSE x.loaded.stage[z]
      BY <2>1
    <3>2. x.wanted.stage[s] = StartedRow(x.loaded.stage[s])
      BY <1>2, <3>1
    <3> QED BY <1>3, <3>1, <3>2
  <2>5. x.wanted.task[t] = IF task[t].status = "leased" THEN StartedRow(task[t])
                                                        ELSE task[t]
    <3>1. x.wanted.task[t] = IF t \in first THEN StartedRow(x.loaded.task[t])
                                            ELSE x.loaded.task[t]
      <4>1. \A z \in Tasks : x.wanted.task[z] = IF z \in first
                                                  THEN StartedRow(x.loaded.task[z])
                                                  ELSE x.loaded.task[z]
        BY <2>1
      <4> QED BY <1>2, <4>1
    <3> QED BY <1>3, <2>2, <3>1
  <2>6. \A z \in Tasks \ {t} : x.wanted.task[z] = x.loaded.task[z]
    BY <2>1, <2>3
  <2>7. task[t].status = "leased" => t \in x.writes
    BY <2>1, <2>2
  <2> QED BY <2>4, <2>5, <2>6, <2>7
<1>6. /\ StartedRow(stage[s]) \in StageRecords /\ StartedRow(task[t]) \in TaskRecords
      /\ StartedRow(task[t]).status = "running"
  BY <1>2, <1>4, WrittenRows
<1>7. stage' = [stage EXCEPT ![s] = StartedRow(stage[s])]
  <2>1. stage'[s] = StartedRow(stage[s])
    <3>1. PICK r : r = StartedRow(stage[s])
      OBVIOUS
    <3>2. s \in Stages /\ r \in StageRecords /\ x.wanted.stage[s] = r
          /\ stage[s] = x.loaded.stage[s]
      BY <1>2, <1>3, <1>5, <1>6, <3>1
    <3>3. stage'[s] = r
      BY <1>w, <3>2, StageWritten
    <3> QED BY <3>1, <3>3
  <2>2. /\ \A z \in Stages \ {s} : stage'[z] = stage[z]
        /\ stage' = [z \in Stages |-> stage'[z]]
    BY <1>5, <1>w DEF RowsWritten
  <2> QED BY <1>2, <1>4, <2>1, <2>2, RowWritten
<1>8. stage' = [stage EXCEPT ![s].status = "running", ![s].started = TRUE]
  BY <1>2, <1>4, <1>7 DEF StartedRow
<1>9. /\ task' = [z \in Tasks |-> task'[z]] /\ event' = [z \in Tasks |-> event'[z]]
      /\ \A z \in Tasks \ {t} : task'[z] = task[z] /\ event'[z] = event[z]
      /\ issued' = issued
  BY <1>5, <1>w DEF RowsWritten
<1>a. /\ x.wanted.task[t] = x.loaded.task[t] =>
           task'[t] = task[t] /\ event'[t] = event[t]
      /\ (task[t] = x.loaded.task[t] /\ x.wanted.task[t] \in TaskRecords)
           => /\ task'[t] = x.wanted.task[t]
              /\ event'[t] = IF task[t].status # task'[t].status
                               THEN StatusEvent(task[t].status, task'[t].status)
                               ELSE event[t]
  BY <1>2, <1>w DEF RowsWritten
<1>10. ASSUME task[t].status = "leased"
       PROVE  /\ task' = [task EXCEPT ![t].status = "running", ![t].started = TRUE]
              /\ event' = [event EXCEPT ![t] = StatusEvent("leased", "running")]
  <2>1. task'[t] = StartedRow(task[t]) /\ event'[t] = StatusEvent("leased", "running")
    <3>1. PICK r : r = StartedRow(task[t])
      OBVIOUS
    <3>2. /\ task[t] = x.loaded.task[t] /\ r \in TaskRecords /\ x.wanted.task[t] = r
          /\ r.status = "running" /\ task[t].status # r.status
      BY <1>3, <1>5, <1>6, <1>10, <3>1
    <3>3. task'[t] = r
      BY <1>a, <3>2
    <3>4. event'[t] = StatusEvent(task[t].status, task'[t].status)
      <4>1. task[t].status # task'[t].status
        BY <3>2, <3>3
      <4>2. event'[t] = IF task[t].status # task'[t].status
                          THEN StatusEvent(task[t].status, task'[t].status)
                          ELSE event[t]
        BY <1>a, <3>2, Zenon
      <4> QED BY <4>1, <4>2
    <3> QED BY <1>10, <3>1, <3>2, <3>3, <3>4
  <2>2. /\ task' = [task EXCEPT ![t] = StartedRow(task[t])]
        /\ event' = [event EXCEPT ![t] = StatusEvent("leased", "running")]
    BY <1>2, <1>4, <1>9, <2>1, RowWritten
  <2> QED BY <1>2, <1>4, <2>2 DEF StartedRow
<1>11. ASSUME task[t].status # "leased"
       PROVE  task' = task /\ event' = event
  <2>1. task'[t] = task[t] /\ event'[t] = event[t]
    <3>1. x.wanted.task[t] = x.loaded.task[t]
      BY <1>3, <1>5, <1>11
    <3> QED BY <1>a, <3>1
  <2> QED BY <1>2, <1>4, <1>9, <2>1
<1>12. StartEffect(s)
  BY <1>8, <1>9, <1>10, <1>11 DEF StartEffect
<1>13. RowsInv'
  BY <1>1, <1>2, <1>3, <1>12, StartRows
<1> QED BY <1>2, <1>3, <1>5, <1>7, <1>11, <1>13

(* _reconcile_task looks at the stages of its task only. *)
LEMMA ReconciledAlike ==
  ASSUME NEW st, NEW su, NEW t, \A s \in StagesOf(t) : st[s] = su[s], NEW r
  PROVE  /\ HasFailed(st, t) <=> HasFailed(su, t)
         /\ ReconciledTask(st, t, r) = ReconciledTask(su, t, r)
<1> DEFINE res(f) == \E s \in StagesOf(t) : f[s].result
<1>1. HasFailed(st, t) <=> HasFailed(su, t)
  BY DEF HasFailed
<1>2. AllDone(st, t) <=> AllDone(su, t)
  BY DEF AllDone
<1>3. NoneActive(st, t) <=> NoneActive(su, t)
  BY DEF NoneActive
<1>4. res(st) = res(su)
  OBVIOUS
<1>5. CASE HasFailed(st, t)
  <2>1. ReconciledTask(st, t, r)
          = [r EXCEPT !.status = "failed", !.error = TRUE, !.completed = TRUE]
    BY <1>5, Zenon DEF ReconciledTask
  <2>2. ReconciledTask(su, t, r)
          = [r EXCEPT !.status = "failed", !.error = TRUE, !.completed = TRUE]
    BY <1>1, <1>5, Zenon DEF ReconciledTask
  <2> QED BY <1>1, <2>1, <2>2
<1>6. CASE ~HasFailed(st, t) /\ AllDone(st, t)
  <2>1. ReconciledTask(st, t, r)
          = [r EXCEPT !.status = "succeeded", !.completed = TRUE, !.result = res(st)]
    BY <1>6, Zenon DEF ReconciledTask
  <2>2. ReconciledTask(su, t, r)
          = [r EXCEPT !.status = "succeeded", !.completed = TRUE, !.result = res(su)]
    BY <1>1, <1>2, <1>6, Zenon DEF ReconciledTask
  <2> HIDE DEF res
  <2> QED BY <1>1, <1>4, <2>1, <2>2
<1>7. CASE /\ ~HasFailed(st, t) /\ ~AllDone(st, t)
           /\ r.status = "leased" /\ NoneActive(st, t)
  <2>1. ReconciledTask(st, t, r) = [r EXCEPT !.status = "pending"]
    BY <1>7, Zenon DEF ReconciledTask
  <2>2. ReconciledTask(su, t, r) = [r EXCEPT !.status = "pending"]
    BY <1>1, <1>2, <1>3, <1>7, Zenon DEF ReconciledTask
  <2> QED BY <1>1, <2>1, <2>2
<1>8. CASE /\ ~HasFailed(st, t) /\ ~AllDone(st, t)
           /\ ~(r.status = "leased" /\ NoneActive(st, t))
  <2>1. ReconciledTask(st, t, r) = r
    BY <1>8, Zenon DEF ReconciledTask
  <2>2. ReconciledTask(su, t, r) = r
    BY <1>1, <1>2, <1>3, <1>8, Zenon DEF ReconciledTask
  <2> QED BY <1>1, <2>1, <2>2
<1> QED BY <1>5, <1>6, <1>7, <1>8

LEMMA CommitsEnd ==
  ASSUME ChainInv, TransactionInv, NEW c \in Sessions, Commit(c),
         NEW x, x = tx[c], x.call.op \in Requests \cup {"reconcile"}
  PROVE  RowsInv'
<1> USE StructureAssumption
<1>1. /\ RowsInv /\ now \in Nat /\ Planned(x) /\ AsFound(x) /\ x.call.op \in StageCalls
      /\ x.call.op # "cancel" /\ x.call.op # "lease"
  BY Committing DEF ChainInv, StageCalls, Requests
<1>w. RowsWritten(x)
  BY CommitWrites
<1>2. PICK A : A = Concerns(x)
  OBVIOUS
<1>3. PICK ended : ended = x.stages
  OBVIOUS
<1>4. PICK rows : rows = [s \in Stages |-> IF s \in ended THEN EndedRow(x, s)
                                                          ELSE x.loaded.stage[s]]
  OBVIOUS
<1>5. PICK st : st = [s \in Stages |-> IF s \in ended THEN EndedRow(x, s) ELSE stage[s]]
  OBVIOUS
<1>6. /\ A = {TaskOf[s] : s \in ended} /\ x.at \in Nat /\ EndPlanned(x)
      /\ \A s \in ended : s \in Stages /\ Active(x.loaded.stage[s])
      /\ x.loaded.stage \in [Stages -> StageRecords]
  BY <1>1, <1>2, <1>3, ConcernsOf DEF Planned
<1>7. ended \in SUBSET Stages /\ A \subseteq Tasks
  BY <1>6
<1>8. \A t \in A : /\ task[t] = x.loaded.task[t]
                   /\ \A s \in StagesOf(t) : stage[s] = x.loaded.stage[s]
  BY <1>1, <1>2 DEF AsFound
<1>9. /\ x.call.op # "reconcile" => \A s \in ended : x.loaded.stage[s].status = "running"
      /\ x.wanted.stage = ReconciledStages(rows, A)
      /\ x.wanted.task = [t \in Tasks |->
                            IF t \in A THEN ReconciledTask(rows, t, x.loaded.task[t])
                                       ELSE x.loaded.task[t]]
  <2> DEFINE r == [s \in Stages |-> IF s \in x.stages THEN EndedRow(x, s)
                                                      ELSE x.loaded.stage[s]]
  <2>1. r = rows
    BY <1>3, <1>4
  <2>2. /\ x.call.op # "reconcile" =>
             \A s \in x.stages : x.loaded.stage[s].status = "running"
        /\ x.wanted.stage = ReconciledStages(r, Concerns(x))
        /\ x.wanted.task = [t \in Tasks |->
                              IF t \in Concerns(x)
                                THEN ReconciledTask(r, t, x.loaded.task[t])
                                ELSE x.loaded.task[t]]
    BY <1>6, Zenon DEF EndPlanned
  <2> HIDE DEF r
  <2> QED BY <1>2, <1>3, <2>1, <2>2
<1>10. /\ stage \in [Stages -> StageRecords] /\ task \in [Tasks -> TaskRecords]
       /\ event \in [Tasks -> Events] /\ issued \in [Stages -> Seq(Workers)]
       /\ \A s \in Stages : RowInv(s, stage[s], issued[s])
       /\ \A t \in Tasks : TaskRowInv(task[t])
  BY <1>1 DEF RowsInv, RowTypes, Rows, TaskRows
<1>11. ASSUME NEW s \in ended
       PROVE  /\ stage[s] = x.loaded.stage[s] /\ Active(stage[s])
              /\ RowInv(s, st[s], issued[s])
              /\ st[s].status \in {"pending", "skipped", "failed", "succeeded"}
  <2>1. s \in Stages /\ TaskOf[s] \in A /\ s \in StagesOf(TaskOf[s])
    BY <1>6 DEF StagesOf
  <2>2. stage[s] = x.loaded.stage[s] /\ Active(stage[s])
    BY <1>6, <1>8, <2>1
  <2>3. /\ RowInv(s, EndedRow(x, s), issued[s])
        /\ EndedRow(x, s).status \in {"pending", "skipped", "failed", "succeeded"}
    <3>1. \/ x.call.op = "reconcile"
          \/ x.call.op \in Requests /\ x.loaded.stage[s].status = "running"
      BY <1>9
    <3>2. /\ issued[s] \in Seq(Workers) /\ x.loaded.stage[s] \in StageRecords
          /\ RowInv(s, x.loaded.stage[s], issued[s]) /\ Active(x.loaded.stage[s])
      BY <1>10, <2>1, <2>2
    <3> QED BY <1>1, <1>6, <2>1, <3>1, <3>2, EndedAt
  <2>4. st[s] = EndedRow(x, s)
    BY <1>5, <2>1
  <2> QED BY <2>2, <2>3, <2>4
<1>12. \A s \in Stages \ ended : st[s] = stage[s]
  BY <1>5
<1>13. \A s \in Stages : RowInv(s, st[s], issued[s]) /\ st[s] \in StageRecords
  <2>1. \A s \in Stages : RowInv(s, st[s], issued[s])
    BY <1>10, <1>11, <1>12
  <2> QED BY <2>1 DEF RowInv
<1>14. \A t \in A : task[t].status \in {"leased", "running"}
  BY <1>1, <1>6, <1>7, <1>11, ActiveTask
<1>15. ASSUME NEW t \in A
       PROVE  /\ HasFailed(rows, t) <=> HasFailed(st, t)
              /\ ReconciledTask(rows, t, task[t]) = ReconciledTask(st, t, task[t])
              /\ \A s \in StagesOf(t) : s \in Stages /\ rows[s] = st[s]
  <2>1. \A s \in StagesOf(t) : s \in Stages /\ stage[s] = x.loaded.stage[s]
    BY <1>8 DEF StagesOf
  <2>2. \A s \in StagesOf(t) : rows[s] = st[s]
    BY <1>4, <1>5, <2>1
  <2>3. /\ HasFailed(rows, t) <=> HasFailed(st, t)
        /\ ReconciledTask(rows, t, task[t]) = ReconciledTask(st, t, task[t])
    BY <2>2, ReconciledAlike
  <2> QED BY <2>1, <2>2, <2>3
<1>16. ASSUME NEW s \in Stages
       PROVE  stage'[s] = IF /\ TaskOf[s] \in A /\ HasFailed(st, TaskOf[s])
                             /\ st[s].status \in OpenStatuses
                            THEN CancelledSibling(st[s]) ELSE st[s]
  <2>1. CASE TaskOf[s] \in A
    <3>1. s \in StagesOf(TaskOf[s])
      BY DEF StagesOf
    <3>2. rows[s] = st[s] /\ stage[s] = x.loaded.stage[s]
          /\ (HasFailed(rows, TaskOf[s]) <=> HasFailed(st, TaskOf[s]))
      BY <1>8, <1>15, <2>1, <3>1
    <3>3. x.wanted.stage[s] = IF /\ TaskOf[s] \in A /\ HasFailed(rows, TaskOf[s])
                                 /\ rows[s].status \in OpenStatuses
                                THEN CancelledSibling(rows[s]) ELSE rows[s]
      BY <1>9, Zenon DEF ReconciledStages
    <3>4. st[s].status \in OpenStatuses => CancelledSibling(st[s]) \in StageRecords
      <4>1. st[s].status \in OpenStatuses => RowInv(s, CancelledSibling(st[s]), issued[s])
        BY <1>10, <1>13, RowCancelledSibling
      <4> QED BY <4>1 DEF RowInv
    <3>5. x.wanted.stage[s] \in StageRecords
      BY <1>13, <3>2, <3>3, <3>4
    <3>6. stage'[s] = x.wanted.stage[s]
      BY <1>w, <3>2, <3>5 DEF RowsWritten
    <3> QED BY <2>1, <3>2, <3>3, <3>6
  <2>2. CASE TaskOf[s] \notin A
    <3>1. s \in StagesOf(TaskOf[s]) /\ TaskOf[s] \in Tasks /\ s \notin ended
      BY <1>6, <2>2 DEF StagesOf
    <3>2. stage'[s] = stage[s]
      BY <1>2, <2>2, <3>1, CommitApart
    <3> QED BY <1>12, <2>2, <3>1, <3>2
  <2> QED BY <2>1, <2>2
<1>17. ASSUME NEW t \in Tasks
       PROVE  /\ task'[t] = IF t \in A THEN ReconciledTask(st, t, task[t]) ELSE task[t]
              /\ event'[t] = IF t \in A /\ task'[t].status # task[t].status
                               THEN StatusEvent(task[t].status, task'[t].status)
                               ELSE event[t]
  <2>1. CASE t \in A
    <3>1. x.wanted.task[t] = ReconciledTask(st, t, task[t])
          /\ task[t] = x.loaded.task[t]
      BY <1>8, <1>9, <1>15, <2>1
    <3>2. ReconciledTask(st, t, task[t]) \in TaskRecords
      <4>1. task[t] \in TaskRecords /\ TaskRowInv(task[t])
        BY <1>10
      <4> QED BY <1>14, <2>1, <4>1, TaskReconciled
    <3>3. /\ task'[t] = x.wanted.task[t]
          /\ event'[t] = IF task[t].status # task'[t].status
                           THEN StatusEvent(task[t].status, task'[t].status)
                           ELSE event[t]
      BY <1>w, <3>1, <3>2 DEF RowsWritten
    <3> QED BY <2>1, <3>1, <3>3
  <2>2. CASE t \notin A
    BY <1>2, <2>2, CommitApart
  <2> QED BY <2>1, <2>2
<1>18. ReconcileEffect(st, A) /\ issued' = issued
  <2>1. /\ stage' = [s \in Stages |-> stage'[s]]
        /\ task' = [t \in Tasks |-> task'[t]]
        /\ event' = [t \in Tasks |-> event'[t]]
        /\ issued' = issued
    BY <1>1, <1>w DEF RowsWritten
  <2>2. stage' = ReconciledStages(st, A)
    BY <1>16, <2>1 DEF ReconciledStages
  <2>3. task' = [t \in Tasks |-> IF t \in A THEN ReconciledTask(st, t, task[t])
                                            ELSE task[t]]
    BY <1>17, <2>1
  <2>4. event' = [t \in Tasks |->
                    IF t \in A /\ task'[t].status # task[t].status
                      THEN StatusEvent(task[t].status, task'[t].status)
                      ELSE event[t]]
    BY <1>17, <2>1
  <2> QED BY <2>1, <2>2, <2>3, <2>4 DEF ReconcileEffect
<1>19. st = [s \in Stages |-> st[s]]
  BY <1>5
<1> QED BY <1>1, <1>6, <1>7, <1>11, <1>12, <1>18, <1>19, EndRows

(* What a cancel makes of a stage that was renewed or started after it had *)
(* been loaded is what it would make of it now.                            *)
LEMMA CancelOverridesContinued ==
  ASSUME NEW old \in StageRecords, NEW row \in StageRecords, Continued(old, row),
         old.status \in OpenStatuses,
         Active(old) => old.token # NoToken /\ old.expires # NoTime
  PROVE  Updated(row, old, CancelledStage(old)) = CancelledStage(row)
<1> DEFINE columns == {"status", "attempt", "worker", "device", "token", "expires",
                       "available_at", "completion", "started", "completed",
                       "error", "result"}
           new == CancelledStage(old)
           want == CancelledStage(row)
<1>1. /\ row = [f \in columns |-> row[f]] /\ old = [f \in columns |-> old[f]]
      /\ DOMAIN row = columns
  <2>1. row = [f \in columns |-> row[f]] /\ old = [f \in columns |-> old[f]]
    BY StageColumns
  <2> QED BY <2>1
<1>2. /\ new = [f \in columns |-> new[f]]
      /\ new["status"] = "cancelled" /\ new["completed"] = TRUE
      /\ new["token"] = NoToken /\ new["expires"] = NoTime
      /\ new["completion"] = NoCompletion
      /\ \A f \in columns \ {"status", "completed", "token", "expires", "completion"} :
           new[f] = old[f]
  BY <1>1 DEF CancelledStage
<1>3. /\ want = [f \in columns |-> want[f]]
      /\ want["status"] = "cancelled" /\ want["completed"] = TRUE
      /\ want["token"] = NoToken /\ want["expires"] = NoTime
      /\ want["completion"] = NoCompletion
      /\ \A f \in columns \ {"status", "completed", "token", "expires", "completion"} :
           want[f] = row[f]
  BY <1>1 DEF CancelledStage
<1>4. old["status"] # "cancelled" /\ old.status = old["status"]
      /\ old.token = old["token"] /\ old.expires = old["expires"]
  BY DEF OpenStatuses
<1>5. \/ row = old
      \/ /\ old["expires"] # NoTime
         /\ \A f \in columns \ {"status", "started", "expires"} : row[f] = old[f]
  BY <1>1, <1>4 DEF Continued
<1> HIDE DEF new, want
<1>6. ASSUME NEW f \in columns
      PROVE  (IF new[f] # old[f] THEN new[f] ELSE row[f]) = want[f]
  <2>1. CASE f \in {"status", "completed", "token", "expires", "completion"}
    <3>1. new[f] = want[f]
      BY <1>2, <1>3, <2>1
    <3>2. new[f] = old[f] => row[f] = old[f]
      <4>1. CASE f = "status"
        BY <1>2, <1>4, <4>1
      <4>2. CASE f = "expires"
        BY <1>2, <1>5, <4>2
      <4>3. CASE f \in {"completed", "token", "completion"}
        BY <1>5, <1>6, <4>3
      <4> QED BY <2>1, <4>1, <4>2, <4>3
    <3> QED BY <3>1, <3>2
  <2>2. CASE f \notin {"status", "completed", "token", "expires", "completion"}
    BY <1>2, <1>3, <1>6, <2>2
  <2> QED BY <2>1, <2>2
<1> HIDE DEF columns
<1>7. Updated(row, old, new) = [f \in columns |-> want[f]]
  BY <1>1, <1>6 DEF Updated
<1> QED BY <1>3, <1>7 DEF new, want

LEMMA CommitsCancel ==
  ASSUME ChainInv, TransactionInv, NEW c \in Sessions, Commit(c),
         NEW x, x = tx[c], x.call.op = "cancel", NEW t, t = x.call.task
  PROVE  RowsInv'
<1> USE StructureAssumption
<1>1. /\ RowsInv /\ Planned(x) /\ AsFound(x)
  BY Committing DEF ChainInv
<1>w. RowsWritten(x)
  BY CommitWrites
<1>2. CancelPlanned(x, t) /\ Concerns(x) = {t} /\ x.loaded.stage \in [Stages -> StageRecords]
      /\ t \in Tasks
  <2>1. CancelPlanned(x, t) /\ x.loaded.stage \in [Stages -> StageRecords]
    BY <1>1 DEF Planned
  <2>2. Concerns(x) = {t}
    BY ConcernsOf
  <2> QED BY <2>1, <2>2 DEF CancelPlanned
<1>3. /\ task[t] = x.loaded.task[t]
      /\ \A s \in StagesOf(t) : Continued(x.loaded.stage[s], stage[s])
  BY <1>1, <1>2 DEF AsFound
<1>4. /\ stage \in [Stages -> StageRecords] /\ task \in [Tasks -> TaskRecords]
      /\ event \in [Tasks -> Events] /\ issued \in [Stages -> Seq(Workers)]
      /\ \A s \in Stages : RowInv(s, stage[s], issued[s])
  BY <1>1 DEF RowsInv, RowTypes, Rows
<1>5. ASSUME NEW s \in Stages
      PROVE  stage'[s] = IF s \in StagesToCancel(t) THEN CancelledStage(stage[s])
                                                    ELSE stage[s]
  <2>0. x.wanted.stage[s] = IF TaskOf[s] = t /\ x.loaded.stage[s].status \in OpenStatuses
                              THEN CancelledStage(x.loaded.stage[s])
                              ELSE x.loaded.stage[s]
    BY <1>2 DEF CancelPlanned
  <2>1. CASE TaskOf[s] # t
    <3>1. s \in StagesOf(TaskOf[s]) /\ TaskOf[s] \in Tasks /\ TaskOf[s] \notin Concerns(x)
      BY <1>2, <2>1 DEF StagesOf
    <3>2. stage'[s] = stage[s]
      BY <3>1, CommitApart
    <3>3. s \notin StagesToCancel(t)
      BY <2>1 DEF StagesToCancel, StagesOf
    <3> QED BY <3>2, <3>3
  <2>2. CASE TaskOf[s] = t
    <3> DEFINE old == x.loaded.stage[s]
    <3>1. Continued(old, stage[s]) /\ old \in StageRecords /\ stage[s] \in StageRecords
      BY <1>2, <1>3, <1>4, <2>2 DEF StagesOf
    <3>2. /\ old.status \in OpenStatuses <=> stage[s].status \in OpenStatuses
          /\ s \in StagesToCancel(t) <=> stage[s].status \in OpenStatuses
      BY <2>2, <3>1
         DEF Continued, Active, ActiveStatuses, OpenStatuses, StagesToCancel, StagesOf
    <3>3. stage'[s] = Updated(stage[s], old, x.wanted.stage[s])
      BY DEF Commit
    <3>4. CASE old.status \in OpenStatuses
      <4>1. Active(old) => old.token # NoToken /\ old.expires # NoTime
        <5>1. RowInv(s, stage[s], issued[s])
          BY <1>4
        <5>2. "token" \in DOMAIN stage[s] \ {"status", "started", "expires"}
              /\ stage[s].token = stage[s]["token"] /\ old.token = old["token"]
          BY <3>1 DEF StageRecords
        <5>3. Active(old) => Active(stage[s])
          BY <3>1 DEF Continued
        <5>4. old.token = stage[s].token
          BY <3>1, <5>2 DEF Continued
        <5>5. stage[s] = old \/ old.expires # NoTime
          BY <3>1 DEF Continued
        <5> HIDE DEF old
        <5> QED BY <5>1, <5>3, <5>4, <5>5 DEF RowInv
      <4> HIDE DEF old
      <4>2. Updated(stage[s], old, CancelledStage(old)) = CancelledStage(stage[s])
        BY <3>1, <3>4, <4>1, CancelOverridesContinued
      <4> QED BY <2>0, <2>2, <3>2, <3>3, <3>4, <4>2 DEF old
    <3>5. CASE old.status \notin OpenStatuses
      <4>1. x.wanted.stage[s] = x.loaded.stage[s]
        BY <2>0, <3>5
      <4> QED BY <1>w, <3>2, <3>5, <4>1 DEF RowsWritten
    <3> QED BY <3>4, <3>5
  <2> QED BY <2>1, <2>2
<1>6. task[t].status \notin TaskTerminalStatuses
  BY <1>2, <1>3 DEF CancelPlanned
<1>7. /\ x.wanted.task[t] = CancelledTask(task[t])
      /\ \A z \in Tasks \ {t} : x.wanted.task[z] = x.loaded.task[z]
  BY <1>2, <1>3 DEF CancelPlanned
<1>8. CancelledTask(task[t]) \in TaskRecords /\ CancelledTask(task[t]).status = "cancelled"
  BY <1>2, <1>4, WrittenRows
<1>9. /\ task' = [task EXCEPT ![t] = CancelledTask(task[t])]
      /\ event' = [event EXCEPT ![t] = StatusEvent(task[t].status, "cancelled")]
  <2>1. task[t].status # "cancelled"
    BY <1>6 DEF TaskTerminalStatuses
  <2>2. /\ (task[t] = x.loaded.task[t] /\ x.wanted.task[t] \in TaskRecords)
             => /\ task'[t] = x.wanted.task[t]
                /\ event'[t] = IF task[t].status # task'[t].status
                                 THEN StatusEvent(task[t].status, task'[t].status)
                                 ELSE event[t]
        /\ \A z \in Tasks \ {t} : x.wanted.task[z] = x.loaded.task[z] =>
             task'[z] = task[z] /\ event'[z] = event[z]
        /\ task' = [z \in Tasks |-> task'[z]] /\ event' = [z \in Tasks |-> event'[z]]
    BY <1>2, <1>w DEF RowsWritten
  <2>3. /\ task'[t] = CancelledTask(task[t])
        /\ event'[t] = StatusEvent(task[t].status, "cancelled")
    <3>1. PICK r : r = CancelledTask(task[t])
      OBVIOUS
    <3>2. /\ task[t] = x.loaded.task[t] /\ r \in TaskRecords /\ x.wanted.task[t] = r
          /\ r.status = "cancelled" /\ task[t].status # r.status
      BY <1>3, <1>7, <1>8, <2>1, <3>1
    <3>3. task'[t] = r /\ event'[t] = StatusEvent(task[t].status, r.status)
      BY <1>2, <1>w, <3>2, TaskWritten
    <3> QED BY <3>1, <3>2, <3>3
  <2>4. \A z \in Tasks \ {t} : task'[z] = task[z] /\ event'[z] = event[z]
    BY <1>7, <2>2
  <2> QED BY <1>2, <1>4, <2>2, <2>3, <2>4, RowWritten
<1>10. task' = [task EXCEPT ![t].status = "cancelled", ![t].completed = TRUE]
  BY <1>2, <1>4, <1>9 DEF CancelledTask
<1>11. stage' = [s \in Stages |-> IF s \in StagesToCancel(t) THEN CancelledStage(stage[s])
                                                             ELSE stage[s]]
  <2>1. stage' = [s \in Stages |-> stage'[s]]
    BY <1>w DEF RowsWritten
  <2> QED BY <1>5, <2>1
<1>12. issued' = issued
  BY <1>w DEF RowsWritten
<1>13. worker' = worker /\ now' = now
  BY DEF Commit, CommittedWorkers, Requests
<1>14. cancel(t)
  BY <1>6, <1>9, <1>10, <1>11, <1>12, <1>13 DEF cancel
<1> QED BY <1>1, <1>2, <1>14, CancelRows

LEMMA CommitsRetry ==
  ASSUME ChainInv, TransactionInv, NEW c \in Sessions, Commit(c),
         NEW x, x = tx[c], x.call.op = "retry", NEW t, t = x.call.task
  PROVE  RowsInv'
<1> USE StructureAssumption
<1>1. /\ RowsInv /\ Planned(x) /\ AsFound(x)
  BY Committing DEF ChainInv
<1>w. RowsWritten(x)
  BY CommitWrites
<1>2. RetryPlanned(x, t) /\ Concerns(x) = {t} /\ x.loaded.stage \in [Stages -> StageRecords]
      /\ t \in Tasks
  BY <1>1, ConcernsOf DEF Planned, RetryPlanned
<1>3. /\ task[t] = x.loaded.task[t]
      /\ \A s \in StagesOf(t) : stage[s] = x.loaded.stage[s]
  BY <1>1, <1>2 DEF AsFound
<1>4. /\ stage \in [Stages -> StageRecords] /\ task \in [Tasks -> TaskRecords]
      /\ event \in [Tasks -> Events] /\ issued \in [Stages -> Seq(Workers)]
      /\ \A s \in Stages : RowInv(s, stage[s], issued[s])
  BY <1>1 DEF RowsInv, RowTypes, Rows
<1>5. ASSUME NEW s \in Stages
      PROVE  stage'[s] = IF s \in StagesToRetry(t) THEN RetriedStage(stage[s])
                                                   ELSE stage[s]
  <2>0. x.wanted.stage[s] =
          IF TaskOf[s] = t /\ x.loaded.stage[s].status \in {"failed", "cancelled"}
            THEN RetriedStage(x.loaded.stage[s]) ELSE x.loaded.stage[s]
    BY <1>2 DEF RetryPlanned
  <2>1. s \in StagesToRetry(t) <=>
          TaskOf[s] = t /\ x.loaded.stage[s].status \in {"failed", "cancelled"}
    BY <1>3 DEF StagesToRetry, StagesOf
  <2>2. CASE s \in StagesToRetry(t)
    <3>1. stage[s] = x.loaded.stage[s] /\ x.wanted.stage[s] = RetriedStage(stage[s])
          /\ stage[s].status \in {"failed", "cancelled"}
      BY <1>3, <2>0, <2>1, <2>2 DEF StagesOf
    <3>2. RowInv(s, RetriedStage(stage[s]), issued[s])
      BY <1>4, <3>1, RowRetried
    <3>3. RetriedStage(stage[s]) \in StageRecords
      BY <3>2 DEF RowInv
    <3> QED BY <1>w, <2>2, <3>1, <3>3 DEF RowsWritten
  <2>3. CASE s \notin StagesToRetry(t)
    <3>1. x.wanted.stage[s] = x.loaded.stage[s]
      BY <2>0, <2>1, <2>3
    <3> QED BY <1>w, <2>3, <3>1 DEF RowsWritten
  <2> QED BY <2>2, <2>3
<1>6. task[t].status \in {"failed", "cancelled"}
  BY <1>2, <1>3 DEF RetryPlanned
<1>7. /\ x.wanted.task[t] = RetriedTask
      /\ \A z \in Tasks \ {t} : x.wanted.task[z] = x.loaded.task[z]
  <2>1. x.wanted.task = [z \in Tasks |-> IF z = t THEN RetriedTask ELSE x.loaded.task[z]]
    BY <1>2, Zenon DEF RetryPlanned
  <2>2. \A z \in Tasks : x.wanted.task[z] = IF z = t THEN RetriedTask
                                                     ELSE x.loaded.task[z]
    BY <2>1
  <2> QED BY <1>2, <2>2
<1>9. /\ task' = [task EXCEPT ![t] = RetriedTask]
      /\ event' = [event EXCEPT ![t] = StatusEvent(task[t].status, "pending")]
  <2>2. /\ (task[t] = x.loaded.task[t] /\ x.wanted.task[t] \in TaskRecords)
             => /\ task'[t] = x.wanted.task[t]
                /\ event'[t] = IF task[t].status # task'[t].status
                                 THEN StatusEvent(task[t].status, task'[t].status)
                                 ELSE event[t]
        /\ \A z \in Tasks \ {t} : x.wanted.task[z] = x.loaded.task[z] =>
             task'[z] = task[z] /\ event'[z] = event[z]
        /\ task' = [z \in Tasks |-> task'[z]] /\ event' = [z \in Tasks |-> event'[z]]
    BY <1>2, <1>w DEF RowsWritten
  <2>3. task'[t] = RetriedTask /\ event'[t] = StatusEvent(task[t].status, "pending")
    <3>1. x.wanted.task[t] = RetriedTask
      BY <1>7
    <3>2. RetriedTask \in TaskRecords /\ RetriedTask.status = "pending"
      BY WrittenRows
    <3>3. task[t].status # RetriedTask.status
      BY <1>6, <3>2
    <3>4. task'[t] = RetriedTask
          /\ event'[t] = StatusEvent(task[t].status, RetriedTask.status)
      BY <1>2, <1>3, <1>w, <3>1, <3>2, <3>3, TaskWritten
    <3> QED BY <3>2, <3>4
  <2>4. \A z \in Tasks \ {t} : task'[z] = task[z] /\ event'[z] = event[z]
    BY <1>7, <2>2
  <2> QED BY <1>2, <1>4, <2>2, <2>3, <2>4, RowWritten
<1>11. stage' = [s \in Stages |-> IF s \in StagesToRetry(t) THEN RetriedStage(stage[s])
                                                            ELSE stage[s]]
  <2>1. stage' = [s \in Stages |-> stage'[s]]
    BY <1>w DEF RowsWritten
  <2> QED BY <1>5, <2>1
<1>12. issued' = issued
  BY <1>w DEF RowsWritten
<1>13. worker' = worker /\ now' = now
  BY DEF Commit, CommittedWorkers, Requests
<1>14. retry(t)
  BY <1>6, <1>9, <1>11, <1>12, <1>13 DEF retry, RetriedTask
<1> QED BY <1>1, <1>2, <1>14, RetryRows

LEMMA CommitRows ==
  ASSUME ChainInv, TransactionInv, NEW c \in Sessions, Commit(c)
  PROVE  RowsInv'
<1>1. tx[c].call.op \in Handlers
  BY Committing
<1> QED
  BY <1>1, CommitsLease, CommitsRenew, CommitsStart, CommitsEnd, CommitsCancel,
     CommitsRetry DEF Handlers

(* What a transaction that holds locks has found in a task it is about. *)
LEMMA Footing ==
  ASSUME ChainInv, TransactionInv, NEW c \in Sessions, NEW x, x = tx[c],
         HoldsLocks(x), NEW t, t \in Concerns(x)
  PROVE  /\ t \in Tasks
         /\ \/ /\ x.call.op = "lease" /\ t \in x.tasks
               /\ \E s \in StagesOf(t) :
                    stage[s].status = "pending" /\ DependenciesSatisfied(s)
            \/ /\ x.call.op \in StageCalls
               /\ \E s \in StagesOf(t) : s \in x.stages /\ Active(stage[s])
            \/ x.call.op = "cancel" /\ t \in x.tasks
            \/ /\ x.call.op = "retry" /\ t \in x.tasks
               /\ task[t].status \in {"failed", "cancelled"}
<1> USE StructureAssumption
<1>1. /\ Planned(x) /\ AsFound(x) /\ x.call.op \in Handlers
  <2>1. x # Idle
    BY DEF HoldsLocks, Idle
  <2> QED BY <2>1 DEF ChainInv, TransactionInv, SessionsSound, SessionSound, CallSound
<1>2. task[t] = x.loaded.task[t]
      /\ (x.call.op # "cancel" => \A s \in StagesOf(t) : stage[s] = x.loaded.stage[s])
  BY <1>1 DEF AsFound
<1>3. CASE x.call.op = "lease"
  <2>1. PICK s \in WrittenStages(x) : t = TaskOf[s]
    BY <1>3, ConcernsOf
  <2>2. GrantPlanned(x)
    BY <1>1, <1>3 DEF Planned
  <2>3. /\ s \in Stages /\ TaskOf[s] \in x.tasks
        /\ x.loaded.stage[s].status = "pending"
        /\ \A d \in DependsOn[s] : x.loaded.stage[d].status \in DoneStatuses
    BY <2>1, <2>2 DEF GrantPlanned, WrittenStages
  <2>4. \A z \in {s} \cup DependsOn[s] : stage[z] = x.loaded.stage[z]
    BY <1>2, <1>3, <2>1, <2>3 DEF StagesOf
  <2>5. stage[s].status = "pending" /\ DependenciesSatisfied(s) /\ s \in StagesOf(t)
    BY <2>1, <2>3, <2>4 DEF DependenciesSatisfied, StagesOf
  <2> QED BY <1>3, <2>1, <2>3, <2>5
<1>4. CASE x.call.op \in StageCalls
  <2>1. PICK s \in x.stages : t = TaskOf[s]
    BY <1>4, ConcernsOf
  <2>2. s \in Stages /\ Active(x.loaded.stage[s])
    BY <1>1, <1>4 DEF Planned
  <2>3. s \in StagesOf(t) /\ x.call.op # "cancel"
    BY <1>4, <2>1, <2>2 DEF StagesOf, StageCalls, Requests
  <2> QED BY <1>2, <1>4, <2>1, <2>2, <2>3
<1>5. CASE x.call.op = "cancel"
  <2>1. CancelPlanned(x, x.call.task) /\ t = x.call.task
    BY <1>1, <1>5, ConcernsOf DEF Planned
  <2> QED BY <1>5, <2>1 DEF CancelPlanned
<1>6. CASE x.call.op = "retry"
  <2>1. RetryPlanned(x, x.call.task) /\ t = x.call.task
    BY <1>1, <1>6, ConcernsOf DEF Planned
  <2> QED BY <1>2, <1>6, <2>1 DEF RetryPlanned
<1> QED BY <1>1, <1>3, <1>4, <1>5, <1>6 DEF Handlers, StageCalls

(* When two transactions are about one task, the one that commits renews   *)
(* or starts a stage and the other, which holds the row of the task, is a  *)
(* cancel.                                                                 *)
LEMMA OnlyCancelOverlaps ==
  ASSUME Chains, ChainInv, TransactionInv, NEW c \in Sessions, NEW d \in Sessions, c # d,
         Commit(c), NEW x, x = tx[c], NEW y, y = tx[d], HoldsLocks(y),
         NEW t, t \in Concerns(x), t \in Concerns(y)
  PROVE  y.call.op = "cancel" /\ x.call.op \in {"renew", "start"} /\ t \notin x.tasks
<1> USE StructureAssumption
<1>1. /\ HoldsLocks(x) /\ x.phase = "flushed" /\ Planned(x) /\ AsFound(x)
      /\ x.call.op \in Handlers
  BY Committing
<1>2. /\ x.tasks \cap y.tasks = {} /\ x.stages \cap y.stages = {}
  <2>1. TasksApart(x, y)
    BY DEF ChainInv
  <2>2. LocksApart(x, y)
    BY DEF TransactionInv, SessionsSound
  <2> QED BY <1>1, <2>1, <2>2 DEF TasksApart, LocksApart
<1>3. RowsInv /\ x.writes \subseteq x.tasks
  BY <1>1 DEF ChainInv, Planned
<1>4. StageCalls \cap {"lease", "cancel", "retry"} = {}
  BY DEF StageCalls, Requests
<1>5. /\ t \in Tasks
      /\ \/ t \in x.tasks /\ x.call.op \notin StageCalls
         \/ x.call.op \in StageCalls
            /\ \E s \in StagesOf(t) : s \in x.stages /\ Active(stage[s])
  BY <1>1, <1>4, Footing
<1>6. \/ t \in y.tasks /\ y.call.op \notin StageCalls
      \/ y.call.op \in StageCalls
         /\ \E s \in StagesOf(t) : s \in y.stages /\ Active(stage[s])
  BY <1>4, Footing
<1>7. \A s, e \in StagesOf(t) :
        Active(stage[s]) /\ Active(stage[e]) => s = e
  BY <1>3, OneActive DEF StagesOf
<1>8. CASE x.call.op \notin StageCalls
  <2>1. t \in x.tasks /\ y.call.op \in StageCalls
    BY <1>2, <1>5, <1>6, <1>8
  <2>2. PICK e \in StagesOf(t) : e \in y.stages /\ Active(stage[e])
    BY <1>6, <2>1
  <2>3. e \in Stages /\ TaskOf[e] = t
    BY <2>2 DEF StagesOf
  <2>4. x.call.op # "lease"
    <3> SUFFICES ASSUME x.call.op = "lease" PROVE FALSE
      OBVIOUS
    <3>1. PICK s \in StagesOf(t) : stage[s].status = "pending" /\ DependenciesSatisfied(s)
      BY <1>1, <1>4, <1>8, Footing
    <3> QED BY <1>3, <2>2, <2>3, <3>1, OneActive DEF StagesOf
  <2>5. x.call.op # "retry"
    <3> SUFFICES ASSUME x.call.op = "retry" PROVE FALSE
      OBVIOUS
    <3>1. task[t].status \in {"failed", "cancelled"}
      BY <1>1, <1>4, <1>8, Footing
    <3> QED BY <1>3, <2>2, <2>3, <3>1, ActiveTask
  <2>6. x.call.op = "cancel"
    BY <1>1, <1>8, <2>4, <2>5 DEF Handlers, StageCalls
  <2>7. e \in WrittenStages(x)
    <3>1. CancelPlanned(x, t) /\ x.loaded.stage \in [Stages -> StageRecords]
      BY <1>1, <2>6, ConcernsOf DEF Planned
    <3>2. Continued(x.loaded.stage[e], stage[e])
      BY <1>1, <2>2, <2>6 DEF AsFound
    <3>3. Active(x.loaded.stage[e])
      BY <2>2, <3>2 DEF Continued
    <3>4. x.wanted.stage[e] = CancelledStage(x.loaded.stage[e])
      BY <2>3, <3>1, <3>3 DEF CancelPlanned, Active, ActiveStatuses, OpenStatuses
    <3>5. x.loaded.stage[e] \in StageRecords
      BY <2>3, <3>1
    <3>6. CancelledStage(x.loaded.stage[e]).status = "cancelled"
      BY <3>5 DEF CancelledStage, StageRecords
    <3>7. x.wanted.stage[e] # x.loaded.stage[e]
      BY <3>3, <3>4, <3>6 DEF Active, ActiveStatuses
    <3> QED BY <2>3, <3>7 DEF WrittenStages
  <2>8. e \in LockedStages(c)
    <3>1. d \in Others(c)
      BY DEF Others, InTransaction, HoldsLocks
    <3> QED BY <2>2, <3>1 DEF LockedStages
  <2> QED BY <2>7, <2>8 DEF Commit
<1>9. CASE x.call.op \in StageCalls
  <2>1. PICK e \in StagesOf(t) : e \in x.stages /\ Active(stage[e])
    BY <1>5, <1>9
  <2>2. e \in Stages /\ TaskOf[e] = t
    BY <2>1 DEF StagesOf
  <2>3. y.call.op \notin StageCalls /\ t \in y.tasks
    BY <1>2, <1>6, <1>7, <2>1
  <2>4. t \notin x.tasks
    BY <1>2, <2>3
  <2>5. x.call.op \notin Requests \cup {"reconcile"}
    <3> SUFFICES ASSUME x.call.op \in Requests \cup {"reconcile"} PROVE FALSE
      OBVIOUS
    <3>1. EndPlanned(x)
      BY <1>1 DEF Planned
    <3>2. Concerns(x) \subseteq x.writes
      BY <3>1 DEF EndPlanned
    <3> QED BY <1>3, <2>4, <3>2
  <2>6. y.call.op = "cancel"
    <3>1. CASE y.call.op = "lease"
      <4>1. PICK s \in StagesOf(t) : stage[s].status = "pending" /\ DependenciesSatisfied(s)
        BY <1>4, <3>1, Footing
      <4> QED BY <1>3, <2>1, <2>2, <4>1, OneActive DEF StagesOf
    <3>2. CASE y.call.op = "retry"
      <4>1. task[t].status \in {"failed", "cancelled"}
        BY <1>4, <3>2, Footing
      <4> QED BY <1>3, <2>1, <2>2, <4>1, ActiveTask
    <3> QED BY <2>3, <3>1, <3>2, <1>4, Footing
  <2> QED BY <1>9, <2>4, <2>5, <2>6 DEF StageCalls
<1> QED BY <1>8, <1>9

(* A stage that is renewed or started goes on as a cancel has found it. *)
LEMMA StillContinued ==
  ASSUME NEW old, NEW row \in StageRecords, Continued(old, row), Active(row),
         row.expires # NoTime, NEW new,
         \/ \E e \in Nat : e # NoTime /\ new = RenewedRow(row, e)
         \/ new = StartedRow(row)
  PROVE  Continued(old, new)
<1> DEFINE kept == DOMAIN row \ {"status", "started", "expires"}
<1>1. /\ Active(old) /\ old.expires # NoTime
      /\ \A f \in kept : row[f] = old[f]
  BY DEF Continued
<1>2. /\ Active(new) /\ DOMAIN new = DOMAIN row
      /\ \A f \in kept : new[f] = row[f]
  <2>1. CASE \E e \in Nat : e # NoTime /\ new = RenewedRow(row, e)
    BY <2>1 DEF RenewedRow, StageRecords, Active
  <2>2. CASE new = StartedRow(row)
    BY <2>2 DEF StartedRow, StageRecords, Active, ActiveStatuses
  <2> QED BY <2>1, <2>2
<1> QED BY <1>1, <1>2 DEF Continued

(* A commit leaves what the other transactions have found. *)
FoundAfter(y) ==
  \A t \in Concerns(y) :
    /\ task'[t] = y.loaded.task[t]
    /\ \A s \in StagesOf(t) :
         IF y.call.op = "cancel" THEN Continued(y.loaded.stage[s], stage'[s])
                                 ELSE stage'[s] = y.loaded.stage[s]

LEMMA CommitLeavesFound ==
  ASSUME Chains, ChainInv, TransactionInv, NEW c \in Sessions, NEW d \in Sessions, c # d,
         Commit(c), NEW y, y = tx[d], HoldsLocks(y)
  PROVE  FoundAfter(y)
<1> USE StructureAssumption
<1>0. PICK x : x = tx[c]
  OBVIOUS
<1>1. AsFound(y) /\ RowsInv /\ Planned(x) /\ x.phase = "flushed"
  BY <1>0, Committing DEF ChainInv
<1> SUFFICES ASSUME NEW t \in Concerns(y)
             PROVE  /\ task'[t] = y.loaded.task[t]
                    /\ \A s \in StagesOf(t) :
                         IF y.call.op = "cancel"
                           THEN Continued(y.loaded.stage[s], stage'[s])
                           ELSE stage'[s] = y.loaded.stage[s]
  BY DEF FoundAfter
<1>2. /\ task[t] = y.loaded.task[t]
      /\ \A s \in StagesOf(t) :
           IF y.call.op = "cancel" THEN Continued(y.loaded.stage[s], stage[s])
                                   ELSE stage[s] = y.loaded.stage[s]
  BY <1>1 DEF AsFound
<1>3. t \in Tasks
  BY Footing
<1>4. CASE t \notin Concerns(x)
  <2>1. task'[t] = task[t] /\ \A s \in StagesOf(t) : stage'[s] = stage[s]
    BY <1>0, <1>3, <1>4, CommitApart
  <2> QED BY <1>2, <2>1
<1>5. CASE t \in Concerns(x)
  <2>1. y.call.op = "cancel" /\ x.call.op \in {"renew", "start"} /\ t \notin x.tasks
    BY <1>0, <1>5, OnlyCancelOverlaps
  <2>2. PICK e : e = x.call.stage
    OBVIOUS
  <2>3. TaskOf[e] = t /\ x.writes \subseteq x.tasks
    BY <1>1, <1>5, <2>1, <2>2, ConcernsOf DEF Planned, StageCalls
  <2>4. /\ e \in Stages /\ task'[t] = task[t] /\ Active(stage[e])
        /\ \/ \E n \in Nat : n # NoTime
                /\ stage' = [stage EXCEPT ![e] = RenewedRow(stage[e], n)]
           \/ stage' = [stage EXCEPT ![e] = StartedRow(stage[e])]
    <3>1. CASE x.call.op = "renew"
      <4>1. PICK n : n = x.at + LeaseDuration
        OBVIOUS
      <4> QED BY <1>0, <2>2, <3>1, <4>1, CommitsRenew
    <3>2. CASE x.call.op = "start"
      <4>1. /\ e \in Stages /\ stage[e].status = "leased"
            /\ stage' = [stage EXCEPT ![e] = StartedRow(stage[e])]
            /\ task[t].status = "leased" => t \in x.writes
            /\ task[t].status # "leased" => task' = task
        BY <1>0, <2>2, <2>3, <3>2, CommitsStart
      <4>2. task' = task
        BY <2>1, <2>3, <4>1
      <4> QED BY <4>1, <4>2 DEF Active, ActiveStatuses
    <3> QED BY <2>1, <3>1, <3>2
  <2>5. stage \in [Stages -> StageRecords] /\ RowInv(e, stage[e], issued[e])
    BY <1>1, <2>4 DEF RowsInv, RowTypes, Rows
  <2>6. ASSUME NEW s \in StagesOf(t) PROVE Continued(y.loaded.stage[s], stage'[s])
    <3>1. s \in Stages /\ Continued(y.loaded.stage[s], stage[s])
      BY <1>2, <2>1 DEF StagesOf
    <3>2. CASE s # e
      BY <2>4, <2>5, <3>1, <3>2
    <3>3. CASE s = e
      <4>1. stage[s].expires # NoTime /\ Active(stage[s]) /\ stage[s] \in StageRecords
        BY <2>4, <2>5, <3>3 DEF RowInv
      <4>2. \/ \E n \in Nat : n # NoTime /\ stage'[s] = RenewedRow(stage[s], n)
            \/ stage'[s] = StartedRow(stage[s])
        BY <2>4, <2>5, <3>3
      <4> QED BY <3>1, <4>1, <4>2, StillContinued
    <3> QED BY <3>2, <3>3
  <2> QED BY <1>2, <2>1, <2>4, <2>6
<1> QED BY <1>4, <1>5

-----------------------------------------------------------------------------
LEMMA RowsStay ==
  ASSUME RowsInv, stage' = stage, task' = task, issued' = issued, event' = event
  PROVE  RowsInv'
BY DEF RowsInv, RowTypes, Rows, TaskRows, TaskStageAgreement, DependenciesRespected,
       DependenciesSatisfied, EventsReportStatus

(* What a session is left with. *)
SessionFits(x) ==
  /\ x # Idle => x.at \in Nat /\ CallTyped(x.call)
  /\ HoldsLocks(x) => Planned(x) /\ AsFound(x)

(* A step of one session that leaves the rows. *)
LEMMA ChainMoves ==
  ASSUME ChainInv, TransactionInv, UNCHANGED vars, NEW c \in Sessions, NEW x,
         tx' = [tx EXCEPT ![c] = x], SessionFits(x),
         \A d \in Sessions \ {c} : TasksApart(x, tx[d])
  PROVE  ChainInv'
<1>1. /\ tx'[c] = x
      /\ \A d \in Sessions \ {c} : tx'[d] = tx[d]
  BY DEF TransactionInv, RowsSound
<1>2. /\ stage' = stage /\ task' = task /\ issued' = issued /\ event' = event
      /\ now' = now
  BY DEF vars
<1>3. RowsInv' /\ now' \in Nat
  BY <1>2, RowsStay DEF ChainInv
<1>4. ASSUME NEW d \in Sessions
      PROVE  /\ tx'[d] # Idle => tx'[d].at \in Nat /\ CallTyped(tx'[d].call)
             /\ HoldsLocks(tx'[d]) => Planned(tx[d])' /\ AsFound(tx[d])'
  <2>0. PICK y : y = tx'[d]
    OBVIOUS
  <2>1. SessionFits(y)
    <3>1. d # c => SessionFits(tx[d])
      BY DEF ChainInv, SessionFits
    <3> QED BY <1>1, <2>0, <3>1
  <2>2. AsFound(y) => AsFound(tx[d])'
    BY <1>2, <2>0 DEF AsFound
  <2> QED BY <2>0, <2>1, <2>2 DEF SessionFits
<1>5. ASSUME NEW d \in Sessions, NEW e \in Sessions, d # e
      PROVE  TasksApart(tx'[d], tx'[e])
  <2>1. TasksApart(tx[d], tx[e])
    BY <1>5 DEF ChainInv
  <2>2. CASE d = c
    BY <1>1, <1>5, <2>2
  <2>3. CASE e = c
    <3>1. TasksApart(tx'[e], tx'[d])
      BY <1>1, <1>5, <2>3
    <3> QED BY <3>1 DEF TasksApart
  <2>4. CASE d # c /\ e # c
    BY <1>1, <2>1, <2>4
  <2> QED BY <2>2, <2>3, <2>4
<1> QED BY <1>3, <1>4, <1>5 DEF ChainInv

LEMMA TypedCall ==
  ASSUME NEW call \in Calls
  PROVE  CallTyped(call)
<1>1. CASE call \in TokenCalls
  BY <1>1 DEF TokenCalls, CallTyped, Requests
<1>2. CASE call \in [op : {"cancel", "retry"}, task : Tasks]
  BY <1>2 DEF CallTyped, Requests
<1>3. CASE call \in [op : {"lease"}, worker : Workers] \cup [op : {"reconcile"}]
  BY <1>3 DEF CallTyped, Requests
<1> QED BY <1>1, <1>2, <1>3 DEF Calls

LEMMA ArriveChain ==
  ASSUME ChainInv, TransactionInv, NEW c \in Sessions, Arrive(c)
  PROVE  ChainInv'
<1>1. PICK call \in Calls :
        tx' = [tx EXCEPT ![c] = [phase |-> "waiting", call |-> call, at |-> now]]
  BY DEF Arrive
<1> DEFINE x == [phase |-> "waiting", call |-> call, at |-> now]
<1>2. x.phase = "waiting" /\ x.call = call /\ x.at = now
  OBVIOUS
<1>3. tx' = [tx EXCEPT ![c] = x] /\ UNCHANGED vars
  BY <1>1 DEF Arrive
<1> HIDE DEF x
<1>4. SessionFits(x)
  BY <1>2, TypedCall DEF SessionFits, HoldsLocks, ChainInv
<1>5. \A d \in Sessions \ {c} : TasksApart(x, tx[d])
  BY <1>2 DEF TasksApart, HoldsLocks
<1> QED BY <1>3, <1>4, <1>5, ChainMoves

LEMMA RollbackChain ==
  ASSUME ChainInv, TransactionInv, NEW c \in Sessions, Rollback(c)
  PROVE  ChainInv'
<1>1. SessionFits(Idle) /\ \A d \in Sessions \ {c} : TasksApart(Idle, tx[d])
  BY DEF SessionFits, TasksApart, HoldsLocks, Idle
<1>2. tx' = [tx EXCEPT ![c] = Idle] /\ UNCHANGED vars
  BY DEF Rollback
<1> QED BY <1>1, <1>2, ChainMoves

LEMMA CommitChain ==
  ASSUME Chains, ChainInv, TransactionInv, NEW c \in Sessions, Commit(c)
  PROVE  ChainInv'
<1>1. /\ tx'[c] = Idle /\ \A d \in Sessions \ {c} : tx'[d] = tx[d]
      /\ now' = now
  BY DEF Commit, TransactionInv, RowsSound
<1>2. ~HoldsLocks(Idle)
  BY DEF HoldsLocks, Idle
<1>3. RowsInv' /\ now' \in Nat
  BY <1>1, CommitRows DEF ChainInv
<1>4. ASSUME NEW d \in Sessions
      PROVE  /\ tx'[d] # Idle => tx'[d].at \in Nat /\ CallTyped(tx'[d].call)
             /\ HoldsLocks(tx'[d]) => Planned(tx[d])' /\ AsFound(tx[d])'
  <2>1. CASE d = c
    BY <1>1, <1>2, <2>1
  <2>2. CASE d # c
    <3>1. /\ tx[d] # Idle => tx[d].at \in Nat /\ CallTyped(tx[d].call)
          /\ HoldsLocks(tx[d]) => Planned(tx[d])
      BY DEF ChainInv
    <3>2. ASSUME HoldsLocks(tx[d]) PROVE AsFound(tx[d])'
      <4>1. PICK y : y = tx[d] /\ y = tx'[d]
        BY <1>1, <2>2
      <4>2. FoundAfter(y)
        BY <2>2, <3>2, <4>1, CommitLeavesFound
      <4> QED BY <4>1, <4>2 DEF AsFound, FoundAfter
    <3> QED BY <1>1, <2>2, <3>1, <3>2
  <2> QED BY <2>1, <2>2
<1>5. ASSUME NEW d \in Sessions, NEW e \in Sessions, d # e
      PROVE  TasksApart(tx'[d], tx'[e])
  <2>1. TasksApart(tx[d], tx[e])
    BY <1>5 DEF ChainInv
  <2>2. CASE d = c \/ e = c
    BY <1>1, <1>2, <2>2 DEF TasksApart
  <2>3. CASE d # c /\ e # c
    BY <1>1, <2>1, <2>3
  <2> QED BY <2>2, <2>3
<1> QED BY <1>3, <1>4, <1>5 DEF ChainInv

(* A flush adds the tasks it writes to those it holds. *)
LEMMA PlannedFlushed ==
  ASSUME NEW x, NEW y, Planned(x), y.call = x.call, y.at = x.at,
         y.stages = x.stages, y.writes = x.writes, y.loaded = x.loaded,
         y.wanted = x.wanted, y.tasks = x.tasks \cup x.writes
  PROVE  Planned(y) /\ Concerns(y) = Concerns(x)
<1>1. WrittenStages(y) = WrittenStages(x)
  BY DEF WrittenStages
<1>2. Concerns(y) = Concerns(x)
  BY <1>1 DEF Concerns
<1>3. GrantPlanned(x) => GrantPlanned(y)
  BY <1>1, <1>2 DEF GrantPlanned
<1>4. \A s : /\ RenewPlanned(x, s) => RenewPlanned(y, s)
             /\ StartPlanned(x, s) => StartPlanned(y, s)
             /\ EndedRow(y, s) = EndedRow(x, s)
  BY DEF RenewPlanned, StartPlanned, EndedRow
<1>5. EndPlanned(x) => EndPlanned(y)
  BY <1>2, <1>4 DEF EndPlanned
<1>6. \A t : /\ CancelPlanned(x, t) => CancelPlanned(y, t)
             /\ RetryPlanned(x, t) => RetryPlanned(y, t)
  BY DEF CancelPlanned, RetryPlanned
<1> QED BY <1>2, <1>3, <1>4, <1>5, <1>6 DEF Planned

LEMMA FlushChain ==
  ASSUME ChainInv, TransactionInv, NEW c \in Sessions, FlushTasks(c)
  PROVE  ChainInv'
<1>0. PICK old : old = tx[c]
  OBVIOUS
<1> DEFINE x == [old EXCEPT !.phase = "flushed",
                            !.tasks = old.tasks \cup old.writes]
<1>1. /\ HoldsLocks(old) /\ old # Idle /\ SessionFits(old) /\ SessionSound(old)
      /\ old.writes \cap LockedTasks(c) = {}
      /\ \A d \in Sessions \ {c} : TasksApart(old, tx[d])
  BY <1>0 DEF FlushTasks, HoldsLocks, TransactionInv, SessionsSound, Idle, ChainInv,
              SessionFits
<1>2. DOMAIN old = TransactionFields
  BY <1>1 DEF SessionSound, PlanSound
<1>3. tx' = [tx EXCEPT ![c] = x] /\ UNCHANGED vars
  BY <1>0 DEF FlushTasks, TransactionInv, RowsSound
<1>4. /\ HoldsLocks(x) /\ x.call = old.call /\ x.at = old.at
      /\ x.stages = old.stages /\ x.writes = old.writes
      /\ x.loaded = old.loaded /\ x.wanted = old.wanted
      /\ x.tasks = old.tasks \cup old.writes
  BY <1>2 DEF TransactionFields, HoldsLocks
<1> HIDE DEF x
<1>5. SessionFits(x)
  <2>1. Planned(x) /\ Concerns(x) = Concerns(old)
    BY <1>1, <1>4, PlannedFlushed DEF SessionFits
  <2>2. AsFound(x)
    BY <1>1, <1>4, <2>1 DEF SessionFits, AsFound
  <2> QED BY <1>1, <1>4, <2>1, <2>2 DEF SessionFits
<1>6. \A d \in Sessions \ {c} : TasksApart(x, tx[d])
  <2> SUFFICES ASSUME NEW d \in Sessions \ {c}, HoldsLocks(tx[d])
               PROVE  x.tasks \cap tx[d].tasks = {}
    BY DEF TasksApart
  <2>1. tx[d].tasks \subseteq LockedTasks(c)
    BY DEF LockedTasks, Others, InTransaction, HoldsLocks
  <2>2. old.tasks \cap tx[d].tasks = {}
    BY <1>1 DEF TasksApart
  <2> QED BY <1>1, <1>4, <2>1, <2>2
<1> QED BY <1>3, <1>5, <1>6, ChainMoves

(* The transaction that a load leaves in session c. *)
LoadedAs(x, c, st, ts, locks, writes) ==
  /\ x.phase = "open" /\ x.call = tx[c].call /\ x.at = tx[c].at
  /\ x.stages = locks.stages /\ x.tasks = locks.tasks /\ x.writes = writes
  /\ x.loaded.stage = stage /\ x.loaded.task = task
  /\ x.wanted.stage = st /\ x.wanted.task = ts

LEMMA LoadChain ==
  ASSUME ChainInv, TransactionInv, NEW c \in Sessions, tx[c].phase = "waiting",
         UNCHANGED vars, NEW st, NEW ts, NEW locks, NEW writes,
         Load(c, st, ts, locks, writes),
         \A x : LoadedAs(x, c, st, ts, locks, writes) => Planned(x)
  PROVE  ChainInv'
<1> DEFINE x == [phase |-> "open", call |-> tx[c].call, at |-> tx[c].at,
                 stages |-> locks.stages, tasks |-> locks.tasks,
                 workers |-> locks.workers, writes |-> writes,
                 loaded |-> [stage |-> stage, task |-> task],
                 wanted |-> [stage |-> st, task |-> ts]]
<1>1. tx' = [tx EXCEPT ![c] = x]
  BY DEF Load
<1>2. LoadedAs(x, c, st, ts, locks, writes)
  BY DEF LoadedAs
<1> HIDE DEF x
<1>3. Planned(x)
  BY <1>2
<1>4. AsFound(x)
  BY <1>2 DEF AsFound, LoadedAs, Continued
<1>5. SessionFits(x)
  <2>1. tx[c].at \in Nat /\ CallTyped(tx[c].call)
    BY DEF ChainInv, Idle
  <2> QED BY <1>2, <1>3, <1>4, <2>1 DEF SessionFits, LoadedAs
<1>6. \A d \in Sessions \ {c} : TasksApart(x, tx[d])
  <2> SUFFICES ASSUME NEW d \in Sessions \ {c}, HoldsLocks(tx[d])
               PROVE  locks.tasks \cap tx[d].tasks = {}
    BY <1>2 DEF TasksApart, LoadedAs
  <2>1. tx[d].tasks \subseteq LockedTasks(c)
    BY DEF LockedTasks, Others, InTransaction, HoldsLocks
  <2> QED BY <2>1 DEF Load
<1> QED BY <1>1, <1>5, <1>6, ChainMoves

(* What every load has in common. *)
LEMMA LoadedWell ==
  ASSUME ChainInv, NEW c \in Sessions, tx[c].phase = "waiting", NEW x, NEW st, NEW ts,
         NEW locks, NEW writes, LoadedAs(x, c, st, ts, locks, writes)
  PROVE  /\ x.at \in Nat /\ CallTyped(x.call)
         /\ stage \in [Stages -> StageRecords] /\ x.loaded.stage \in [Stages -> StageRecords]
         /\ task \in [Tasks -> TaskRecords] /\ x.loaded.task \in [Tasks -> TaskRecords]
         /\ x.phase = "open"
<1>1. tx[c].at \in Nat /\ CallTyped(tx[c].call)
  BY DEF ChainInv, Idle
<1>2. stage \in [Stages -> StageRecords] /\ task \in [Tasks -> TaskRecords]
  BY DEF ChainInv, RowsInv, RowTypes
<1> QED BY <1>1, <1>2 DEF LoadedAs

LEMMA RenewPlans ==
  ASSUME ChainInv, TransactionInv, NEW c \in Sessions, tx[c].phase = "waiting",
         UNCHANGED vars, NEW s, NEW w, NEW k, NEW at, LoadRenew(c, s, w, k, at),
         tx[c].call.op = "renew", s = tx[c].call.stage, at = tx[c].at
  PROVE  ChainInv'
<1> DEFINE st == [stage EXCEPT ![s].expires = at + LeaseDuration]
           locks == Locks({s}, {}, {})
           none == {}
<1>1. Load(c, st, task, locks, none) /\ Active(stage[s])
  BY DEF LoadRenew
<1>2. ASSUME NEW x, LoadedAs(x, c, st, task, locks, none) PROVE Planned(x)
  <2>1. /\ x.at \in Nat /\ CallTyped(x.call) /\ x.phase = "open"
        /\ stage \in [Stages -> StageRecords] /\ x.loaded.stage \in [Stages -> StageRecords]
        /\ x.loaded.task \in [Tasks -> TaskRecords]
    <3> HIDE DEF st, locks, none
    <3> QED BY <1>2, LoadedWell
  <2>2. /\ x.call.op = "renew" /\ x.call.stage = s /\ x.at = at /\ x.stages = {s}
        /\ x.loaded.stage = stage /\ x.wanted.stage = st
        /\ x.wanted.task = x.loaded.task
    <3> HIDE DEF st
    <3> QED BY <1>2 DEF LoadedAs, Locks
  <2>3. s \in Stages
    BY <2>1, <2>2 DEF CallTyped
  <2>4. RenewPlanned(x, s)
    <3>1. st = [z \in Stages |-> IF z = s THEN RenewedRow(stage[z], at + LeaseDuration)
                                          ELSE stage[z]]
      BY <2>1, <2>3 DEF RenewedRow
    <3> HIDE DEF st
    <3> QED BY <2>2, <3>1 DEF RenewPlanned
  <2> HIDE DEF st, locks, none
  <2> QED BY <1>1, <2>1, <2>2, <2>3, <2>4 DEF Planned, Requests
<1> HIDE DEF st, locks, none
<1> QED BY <1>1, <1>2, LoadChain

LEMMA StartPlans ==
  ASSUME ChainInv, TransactionInv, NEW c \in Sessions, tx[c].phase = "waiting",
         UNCHANGED vars, NEW s, NEW w, NEW k, NEW at, LoadStart(c, s, w, k, at),
         tx[c].call.op = "start", s = tx[c].call.stage
  PROVE  ChainInv'
<1> DEFINE st == [stage EXCEPT ![s].status = "running", ![s].started = TRUE]
           first == {x \in {TaskOf[s]} : task[x].status = "leased"}
           ts == [x \in Tasks |-> IF x \in first
                                    THEN [task[x] EXCEPT !.status = "running",
                                                         !.started = TRUE]
                                    ELSE task[x]]
           locks == Locks({s}, {}, {})
<1>1. Load(c, st, ts, locks, first) /\ stage[s].status = "leased"
  BY DEF LoadStart
<1>2. ASSUME NEW x, LoadedAs(x, c, st, ts, locks, first) PROVE Planned(x)
  <2>1. /\ x.at \in Nat /\ CallTyped(x.call) /\ x.phase = "open"
        /\ stage \in [Stages -> StageRecords] /\ x.loaded.stage \in [Stages -> StageRecords]
        /\ x.loaded.task \in [Tasks -> TaskRecords]
    <3> HIDE DEF st, ts, locks, first
    <3> QED BY <1>2, LoadedWell
  <2>2. /\ x.call.op = "start" /\ x.call.stage = s /\ x.stages = {s}
        /\ x.loaded.stage = stage /\ x.wanted.stage = st
        /\ x.loaded.task = task /\ x.wanted.task = ts /\ x.writes = first
    <3> HIDE DEF st, ts, first
    <3> QED BY <1>2 DEF LoadedAs, Locks
  <2>3. s \in Stages
    BY <2>1, <2>2 DEF CallTyped
  <2>4. StartPlanned(x, s)
    <3>1. st = [z \in Stages |-> IF z = s THEN StartedRow(stage[z]) ELSE stage[z]]
      BY <2>1, <2>3 DEF StartedRow
    <3>2. ts = [t \in Tasks |-> IF t \in first THEN StartedRow(task[t]) ELSE task[t]]
      <4> HIDE DEF first
      <4> QED BY DEF StartedRow
    <3>3. first = {t \in {TaskOf[s]} : x.loaded.task[t].status = "leased"}
      BY <2>2
    <3> HIDE DEF st, ts, first
    <3> QED BY <1>1, <2>2, <3>1, <3>2, <3>3 DEF StartPlanned
  <2>5. Active(stage[s])
    BY <1>1 DEF Active, ActiveStatuses
  <2> HIDE DEF st, ts, locks, first
  <2> QED BY <2>1, <2>2, <2>3, <2>4, <2>5 DEF Planned, Requests
<1> HIDE DEF st, ts, locks, first
<1> QED BY <1>1, <1>2, LoadChain

LEMMA CancelPlans ==
  ASSUME ChainInv, TransactionInv, NEW c \in Sessions, tx[c].phase = "waiting",
         UNCHANGED vars, NEW t, LoadCancel(c, t),
         tx[c].call.op = "cancel", t = tx[c].call.task
  PROVE  ChainInv'
<1> DEFINE st == [s \in Stages |-> IF s \in StagesToCancel(t)
                                     THEN CancelledStage(stage[s]) ELSE stage[s]]
           ts == [task EXCEPT ![t].status = "cancelled", ![t].completed = TRUE]
           locks == Locks({}, {t}, {})
           writes == {t}
<1>1. Load(c, st, ts, locks, writes) /\ task[t].status \notin TaskTerminalStatuses
  BY DEF LoadCancel
<1>2. ASSUME NEW x, LoadedAs(x, c, st, ts, locks, writes) PROVE Planned(x)
  <2>1. /\ x.at \in Nat /\ CallTyped(x.call) /\ x.phase = "open"
        /\ x.loaded.stage \in [Stages -> StageRecords]
        /\ task \in [Tasks -> TaskRecords] /\ x.loaded.task \in [Tasks -> TaskRecords]
    <3> HIDE DEF st, ts, locks, writes
    <3> QED BY <1>2, LoadedWell
  <2>2. /\ x.call.op = "cancel" /\ x.call.task = t /\ x.tasks = {t}
        /\ x.loaded.stage = stage /\ x.wanted.stage = st
        /\ x.loaded.task = task /\ x.wanted.task = ts
    <3> HIDE DEF st, ts, writes
    <3> QED BY <1>2 DEF LoadedAs, Locks
  <2>3. t \in Tasks
    BY <2>1, <2>2 DEF CallTyped
  <2>4. CancelPlanned(x, t)
    <3>1. st = [s \in Stages |->
                  IF TaskOf[s] = t /\ stage[s].status \in OpenStatuses
                    THEN CancelledStage(stage[s]) ELSE stage[s]]
      BY DEF StagesToCancel, StagesOf
    <3>2. ts = [z \in Tasks |-> IF z = t THEN CancelledTask(task[z]) ELSE task[z]]
      BY <2>1, <2>3 DEF CancelledTask
    <3> HIDE DEF st, ts
    <3> QED BY <1>1, <2>2, <2>3, <3>1, <3>2 DEF CancelPlanned
  <2> HIDE DEF st, ts, locks, writes
  <2> QED BY <2>1, <2>2, <2>4 DEF Planned, Requests, StageCalls
<1> HIDE DEF st, ts, locks, writes
<1> QED BY <1>1, <1>2, LoadChain

LEMMA RetryPlans ==
  ASSUME ChainInv, TransactionInv, NEW c \in Sessions, tx[c].phase = "waiting",
         UNCHANGED vars, NEW t, LoadRetry(c, t),
         tx[c].call.op = "retry", t = tx[c].call.task
  PROVE  ChainInv'
<1> DEFINE st == [s \in Stages |-> IF s \in StagesToRetry(t)
                                     THEN RetriedStage(stage[s]) ELSE stage[s]]
           ts == [task EXCEPT ![t] = RetriedTask]
           locks == Locks({}, {t}, {})
           writes == {t}
<1>1. Load(c, st, ts, locks, writes) /\ task[t].status \in {"failed", "cancelled"}
  BY DEF LoadRetry, RetriedTask
<1>2. ASSUME NEW x, LoadedAs(x, c, st, ts, locks, writes) PROVE Planned(x)
  <2>1. /\ x.at \in Nat /\ CallTyped(x.call) /\ x.phase = "open"
        /\ x.loaded.stage \in [Stages -> StageRecords]
        /\ task \in [Tasks -> TaskRecords] /\ x.loaded.task \in [Tasks -> TaskRecords]
    <3> HIDE DEF st, ts, locks, writes
    <3> QED BY <1>2, LoadedWell
  <2>2. /\ x.call.op = "retry" /\ x.call.task = t /\ x.tasks = {t}
        /\ x.loaded.stage = stage /\ x.wanted.stage = st
        /\ x.loaded.task = task /\ x.wanted.task = ts
    <3> HIDE DEF st, ts, writes
    <3> QED BY <1>2 DEF LoadedAs, Locks
  <2>3. t \in Tasks
    BY <2>1, <2>2 DEF CallTyped
  <2>4. RetryPlanned(x, t)
    <3>1. st = [s \in Stages |->
                  IF TaskOf[s] = t /\ stage[s].status \in {"failed", "cancelled"}
                    THEN RetriedStage(stage[s]) ELSE stage[s]]
      BY DEF StagesToRetry, StagesOf
    <3>2. ts = [z \in Tasks |-> IF z = t THEN RetriedTask ELSE task[z]]
      BY <2>1, <2>3
    <3> HIDE DEF st, ts
    <3> QED BY <1>1, <2>2, <2>3, <3>1, <3>2 DEF RetryPlanned
  <2> HIDE DEF st, ts, locks, writes
  <2> QED BY <2>1, <2>2, <2>4 DEF Planned, Requests, StageCalls
<1> HIDE DEF st, ts, locks, writes
<1> QED BY <1>1, <1>2, LoadChain

(* The handlers that end attempts: rows is what they have written before   *)
(* _reconcile_task.                                                        *)
LEMMA EndPlans ==
  ASSUME ChainInv, TransactionInv, NEW c \in Sessions, tx[c].phase = "waiting",
         UNCHANGED vars, NEW rows, NEW affected, NEW locked,
         LoadReconciled(c, rows, affected, locked),
         tx[c].call.op \in Requests \cup {"reconcile"},
         locked \subseteq Stages, affected = {TaskOf[s] : s \in locked},
         \A s \in locked : Active(stage[s]),
         tx[c].call.op # "reconcile" => \A s \in locked : stage[s].status = "running",
         \A x : (x.call = tx[c].call /\ x.at = tx[c].at /\ x.loaded.stage = stage) =>
           rows = [s \in Stages |-> IF s \in locked THEN EndedRow(x, s) ELSE stage[s]]
  PROVE  ChainInv'
<1> DEFINE st == ReconciledStages(rows, affected)
           ts == [t \in Tasks |-> IF t \in affected THEN ReconciledTask(rows, t, task[t])
                                                    ELSE task[t]]
           locks == Locks(locked, {}, {})
<1>1. Load(c, st, ts, locks, affected)
  BY DEF LoadReconciled
<1>2. ASSUME NEW x, LoadedAs(x, c, st, ts, locks, affected) PROVE Planned(x)
  <2>1. /\ x.at \in Nat /\ x.phase = "open"
        /\ x.loaded.stage \in [Stages -> StageRecords]
        /\ x.loaded.task \in [Tasks -> TaskRecords]
    <3> HIDE DEF st, ts, locks
    <3> QED BY <1>2, LoadedWell
  <2>2. /\ x.call = tx[c].call /\ x.at = tx[c].at /\ x.stages = locked
        /\ x.loaded.stage = stage /\ x.wanted.stage = st
        /\ x.loaded.task = task /\ x.wanted.task = ts /\ x.writes = affected
    <3> HIDE DEF st, ts
    <3> QED BY <1>2 DEF LoadedAs, Locks
  <2>3. x.call.op \in StageCalls /\ x.call.op \notin {"renew", "start", "lease", "cancel", "retry"}
    BY <2>2 DEF StageCalls, Requests
  <2>4. Concerns(x) = affected
    <3> HIDE DEF st, ts
    <3> QED BY <2>2, <2>3, ConcernsOf
  <2>5. EndPlanned(x)
    <3> DEFINE r == [s \in Stages |-> IF s \in x.stages THEN EndedRow(x, s)
                                                        ELSE x.loaded.stage[s]]
    <3>1. rows = [s \in Stages |-> IF s \in locked THEN EndedRow(x, s) ELSE stage[s]]
      <4> HIDE DEF st, ts
      <4> QED BY <2>2
    <3>2. r = rows
      <4> HIDE DEF st, ts
      <4> QED BY <2>2, <3>1
    <3>3. /\ x.wanted.stage = ReconciledStages(r, Concerns(x))
          /\ x.wanted.task = [t \in Tasks |->
                                IF t \in Concerns(x)
                                  THEN ReconciledTask(r, t, x.loaded.task[t])
                                  ELSE x.loaded.task[t]]
      <4> HIDE DEF r
      <4> QED BY <2>2, <2>4, <3>2
    <3>4. /\ x.call.op # "reconcile" => \A s \in x.stages : x.loaded.stage[s].status = "running"
          /\ Concerns(x) \subseteq x.writes
      <4> HIDE DEF st, ts, r
      <4> QED BY <2>2, <2>4
    <3> HIDE DEF st, ts
    <3> QED BY <3>3, <3>4, Zenon DEF EndPlanned
  <2> HIDE DEF st, ts, locks
  <2>6. \A s \in x.stages : s \in Stages /\ Active(x.loaded.stage[s])
    BY <2>2
  <2> QED BY <2>1, <2>3, <2>5, <2>6 DEF Planned
<1> HIDE DEF st, ts, locks
<1> QED BY <1>1, <1>2, LoadChain

LEMMA CompletePlans ==
  ASSUME ChainInv, TransactionInv, NEW c \in Sessions, tx[c].phase = "waiting",
         UNCHANGED vars, NEW s, NEW w, NEW k, NEW at, NEW request,
         LoadComplete(c, s, w, k, at, request), request \in Requests,
         tx[c].call.op = request, s = tx[c].call.stage, at = tx[c].at
  PROVE  ChainInv'
<1> DEFINE r == [stage[s] EXCEPT
                   !.completion = [worker |-> w, device |-> stage[s].device,
                                   token |-> k, request |-> request]]
           ended == IF request = "failed" THEN At(at)!FailOrRetryStage(s, r)
                                          ELSE SucceedStage(r, request)
           rows == [stage EXCEPT ![s] = ended]
           affected == {TaskOf[s]}
           locked == {s}
<1>1. LoadReconciled(c, rows, affected, locked) /\ stage[s].status = "running"
      /\ stage[s].worker = w /\ stage[s].token = k
  BY DEF LoadComplete, At!RequireValidLease
<1>2. s \in Stages /\ stage \in [Stages -> StageRecords]
  BY DEF ChainInv, CallTyped, Idle, RowsInv, RowTypes
<1>3. ASSUME NEW x, x.call = tx[c].call, x.at = tx[c].at, x.loaded.stage = stage
      PROVE  rows = [z \in Stages |-> IF z \in locked THEN EndedRow(x, z) ELSE stage[z]]
  <2>1. EndedRow(x, s) = ended
    <3>1. r = [x.loaded.stage[s] EXCEPT
                 !.completion = [worker |-> x.loaded.stage[s].worker,
                                 device |-> x.loaded.stage[s].device,
                                 token |-> x.loaded.stage[s].token,
                                 request |-> x.call.op]]
      BY <1>1, <1>3
    <3>2. x.call.op = request /\ x.at = at /\ request # "reconcile"
      BY <1>3 DEF Requests
    <3> HIDE DEF r
    <3> QED BY <3>1, <3>2 DEF EndedRow
  <2> HIDE DEF ended
  <2> QED BY <1>2, <2>1
<1>4. Active(stage[s])
  BY <1>1 DEF Active, ActiveStatuses
<1>5. /\ locked \subseteq Stages /\ affected = {TaskOf[z] : z \in locked}
      /\ \A z \in locked : Active(stage[z]) /\ stage[z].status = "running"
  BY <1>1, <1>2, <1>4
<1> HIDE DEF rows, affected, locked
<1> QED BY <1>1, <1>3, <1>5, EndPlans

LEMMA ReconcilePlans ==
  ASSUME ChainInv, TransactionInv, NEW c \in Sessions, tx[c].phase = "waiting",
         UNCHANGED vars, NEW at, LoadReconcile(c, at),
         tx[c].call.op = "reconcile", at = tx[c].at
  PROVE  ChainInv'
<1> DEFINE found == At(at)!Expired \ LockedStages(c)
           rows == [s \in Stages |-> IF s \in found
                                       THEN At(at)!FailOrRetryStage(s, stage[s])
                                       ELSE stage[s]]
           affected == {TaskOf[s] : s \in found}
<1>1. LoadReconciled(c, rows, affected, found)
  BY DEF LoadReconcile
<1>2. found \subseteq Stages /\ \A s \in found : Active(stage[s])
  BY DEF At!Expired, At!Active, Active, At!ActiveStatuses, ActiveStatuses
<1> HIDE DEF found
<1>3. ASSUME NEW x, x.call = tx[c].call, x.at = tx[c].at, x.loaded.stage = stage
      PROVE  rows = [s \in Stages |-> IF s \in found THEN EndedRow(x, s) ELSE stage[s]]
  <2>1. \A s \in Stages : EndedRow(x, s) = At(at)!FailOrRetryStage(s, stage[s])
    BY <1>3 DEF EndedRow
  <2> QED BY <2>1
<1>4. affected = {TaskOf[s] : s \in found}
  OBVIOUS
<1> HIDE DEF rows, affected
<1> QED BY <1>1, <1>2, <1>3, <1>4, EndPlans

LEMMA LeasePlans ==
  ASSUME ChainInv, TransactionInv, NEW c \in Sessions, tx[c].phase = "waiting",
         UNCHANGED vars, NEW w, NEW at, LoadLease(c, w, at),
         tx[c].call.op = "lease", tx[c].call.worker = w, at = tx[c].at
  PROVE  ChainInv'
<1> USE StructureAssumption
<1> DEFINE found == Unlocked(c, at)
           claimed(granted) == {t \in Tasks : /\ task[t].status = "pending"
                                              /\ \E s \in granted : TaskOf[s] = t}
           rows(granted, d) ==
             [s \in Stages |-> IF s \in granted
                                 THEN At(at)!LeasedStage(stage[s], w, d,
                                                         Len(issued[s]) + 1)
                                 ELSE stage[s]]
           tasks(granted) ==
             [t \in Tasks |-> IF t \in claimed(granted)
                                THEN [task[t] EXCEPT !.status = "leased"]
                                ELSE task[t]]
           locks == Locks(found, {TaskOf[s] : s \in found}, {w})
<1>1. PICK granted \in (SUBSET found) \ {{}}, d \in Devices :
        /\ \A s \in granted : DependenciesSatisfied(s)
        /\ Load(c, rows(granted, d), tasks(granted), locks, claimed(granted))
  BY DEF LoadLease
<1> DEFINE st == rows(granted, d)
           ts == tasks(granted)
           writes == claimed(granted)
<1>2. Load(c, st, ts, locks, writes)
  BY <1>1
<1>3. \A s \in granted :
        /\ s \in found /\ s \in Stages /\ stage[s].status = "pending"
        /\ task[TaskOf[s]].status \in OpenStatuses /\ DependenciesSatisfied(s)
  BY <1>1 DEF Unlocked
<1>4. stage \in [Stages -> StageRecords]
  BY DEF ChainInv, RowsInv, RowTypes
<1>5. ASSUME NEW s \in granted
      PROVE  /\ st[s] = At(at)!LeasedStage(stage[s], w, d, st[s].token)
             /\ st[s] # stage[s]
  <2> DEFINE k == Len(issued[s]) + 1
  <2>1. st[s] = At(at)!LeasedStage(stage[s], w, d, k) /\ stage[s] \in StageRecords
    BY <1>3, <1>4
  <2> HIDE DEF st, k
  <2>2. st[s].token = k /\ st[s].status = "leased"
    BY <2>1 DEF At!LeasedStage, StageRecords
  <2>3. st[s] # stage[s]
    BY <1>3, <2>2
  <2> QED BY <2>1, <2>2, <2>3
<1>6. \A s \in Stages \ granted : st[s] = stage[s]
  OBVIOUS
<1>7. ASSUME NEW x, LoadedAs(x, c, st, ts, locks, writes) PROVE Planned(x)
  <2>1. /\ x.at \in Nat /\ x.phase = "open"
        /\ x.loaded.stage \in [Stages -> StageRecords]
        /\ x.loaded.task \in [Tasks -> TaskRecords]
    <3> HIDE DEF st, ts, locks, writes
    <3> QED BY <1>7, LoadedWell
  <2>2. /\ x.call.op = "lease" /\ x.call.worker = w /\ x.at = at
        /\ x.stages = found /\ x.tasks = {TaskOf[s] : s \in found}
        /\ x.loaded.stage = stage /\ x.wanted.stage = st
        /\ x.loaded.task = task /\ x.wanted.task = ts
    <3> HIDE DEF st, ts, writes, found
    <3> QED BY <1>7 DEF LoadedAs, Locks
  <2>3. WrittenStages(x) = granted
    <3> HIDE DEF st, ts, found
    <3> QED BY <1>3, <1>5, <1>6, <2>2 DEF WrittenStages
  <2>4. Concerns(x) = {TaskOf[s] : s \in granted}
    BY <2>2, <2>3, ConcernsOf
  <2>5. writes = {t \in Concerns(x) : x.loaded.task[t].status = "pending"}
    <3> HIDE DEF st, ts, found
    <3> QED BY <1>3, <2>2, <2>4
  <2>6. x.wanted.task = [t \in Tasks |->
                           IF t \in writes
                             THEN [x.loaded.task[t] EXCEPT !.status = "leased"]
                             ELSE x.loaded.task[t]]
    <3>1. ts = [t \in Tasks |-> IF t \in writes
                               THEN [task[t] EXCEPT !.status = "leased"]
                               ELSE task[t]]
      <4> HIDE DEF st, found
      <4> QED OBVIOUS
    <3> HIDE DEF ts, writes, st, found
    <3> QED BY <2>2, <3>1
  <2>7. ASSUME NEW s \in WrittenStages(x)
        PROVE  /\ s \in x.stages /\ TaskOf[s] \in x.tasks
               /\ x.loaded.stage[s].status = "pending"
               /\ x.loaded.task[TaskOf[s]].status \in OpenStatuses
               /\ \A e \in DependsOn[s] : x.loaded.stage[e].status \in DoneStatuses
               /\ x.wanted.stage[s] =
                    At(x.at)!LeasedStage(x.loaded.stage[s], x.call.worker, d,
                                         x.wanted.stage[s].token)
    <3> HIDE DEF st, ts, found
    <3> QED BY <1>3, <1>5, <2>2, <2>3 DEF DependenciesSatisfied
  <2> HIDE DEF st, ts, locks, writes, found
  <2>8. GrantPlanned(x)
    BY <2>5, <2>6, <2>7 DEF GrantPlanned
  <2> QED BY <2>1, <2>2, <2>8 DEF Planned, Requests, StageCalls
<1> HIDE DEF st, ts, locks, writes
<1> QED BY <1>2, <1>7, LoadChain

LEMMA BeginChain ==
  ASSUME ChainInv, TransactionInv, NEW c \in Sessions, Begin(c)
  PROVE  ChainInv'
<1>0. PICK call : call = tx[c].call
  OBVIOUS
<1> DEFINE at == tx[c].at
<1>1. /\ tx[c].phase = "waiting" /\ UNCHANGED vars
      /\ LoadCall(c, call, at)
  BY <1>0 DEF Begin
<1>2. call.op \in Handlers
  BY <1>0, <1>1 DEF TransactionInv, SessionsSound, SessionSound, CallSound, Idle
<1>3. CASE call.op = "lease"
  <2>1. LoadLease(c, call.worker, at)
    BY <1>1, <1>3 DEF LoadCall, Requests
  <2> QED BY <1>0, <1>1, <1>3, <2>1, LeasePlans
<1>4. CASE call.op = "reconcile"
  <2>1. LoadReconcile(c, at)
    BY <1>1, <1>4 DEF LoadCall, Requests
  <2> QED BY <1>0, <1>1, <1>4, <2>1, ReconcilePlans
<1>5. CASE call.op = "cancel"
  <2>1. LoadCancel(c, call.task)
    BY <1>1, <1>5 DEF LoadCall, Requests
  <2> QED BY <1>0, <1>1, <1>5, <2>1, CancelPlans
<1>6. CASE call.op = "retry"
  <2>1. LoadRetry(c, call.task)
    BY <1>1, <1>6 DEF LoadCall, Requests
  <2> QED BY <1>0, <1>1, <1>6, <2>1, RetryPlans
<1> DEFINE s == call.stage
           k == call.token
           w == issued[s][k]
<1>7. CASE call.op = "renew"
  <2>1. LoadRenew(c, s, w, k, at)
    BY <1>1, <1>7 DEF LoadCall
  <2> QED BY <1>0, <1>1, <1>7, <2>1, RenewPlans
<1>8. CASE call.op = "start"
  <2>1. LoadStart(c, s, w, k, at)
    BY <1>1, <1>8 DEF LoadCall
  <2> QED BY <1>0, <1>1, <1>8, <2>1, StartPlans
<1>9. CASE call.op \in Requests
  <2>1. LoadComplete(c, s, w, k, at, call.op)
    BY <1>1, <1>9 DEF LoadCall, Requests
  <2> QED BY <1>0, <1>1, <1>9, <2>1, CompletePlans
<1> QED BY <1>2, <1>3, <1>4, <1>5, <1>6, <1>7, <1>8, <1>9 DEF Handlers

LEMMA ChainInit == TxInit => ChainInv
<1> SUFFICES ASSUME TxInit PROVE ChainInv
  OBVIOUS
<1>1. now \in Nat /\ RowsInv /\ \A c \in Sessions : tx[c] = Idle
  BY InitRows DEF TxInit
<1>2. ~HoldsLocks(Idle)
  BY DEF HoldsLocks, Idle
<1> QED BY <1>1, <1>2 DEF ChainInv, TasksApart

LEMMA ChainStep ==
  ASSUME Chains, ChainInv, TransactionInv, [TxNext]_txVars
  PROVE  ChainInv'
<1>1. CASE UNCHANGED txVars \/ (Tick /\ UNCHANGED <<stage, task, issued, event, tx>>)
  <2>1. /\ stage' = stage /\ task' = task /\ issued' = issued /\ event' = event
        /\ tx' = tx /\ now' \in Nat
    BY <1>1 DEF txVars, Tick, ChainInv
  <2>2. RowsInv'
    BY <2>1, RowsStay DEF ChainInv
  <2>3. \A c \in Sessions : AsFound(tx[c]) => AsFound(tx[c])'
    BY <2>1 DEF AsFound
  <2> QED BY <2>1, <2>2, <2>3 DEF ChainInv
<1>2. ASSUME NEW c \in Sessions,
             Arrive(c) \/ Begin(c) \/ FlushTasks(c) \/ Commit(c) \/ Rollback(c)
      PROVE  ChainInv'
  BY <1>2, ArriveChain, BeginChain, FlushChain, CommitChain, RollbackChain
<1> QED BY <1>1, <1>2 DEF TxNext

(* In pipelines whose stages follow one another, overlapping handlers      *)
(* never undo one another: what a transaction is about to write still fits *)
(* the rows when it commits, so that every commit does what the handler    *)
(* would do in one step.                                                   *)
THEOREM ChainInvariance ==
  ASSUME Chains
  PROVE  TxSpec => []ChainInv
<1>1. TxInit => ChainInv /\ TransactionInv
  BY ChainInit, TransactionInit
<1>2. ChainInv /\ TransactionInv /\ [TxNext]_txVars => ChainInv' /\ TransactionInv'
  BY ChainStep, TransactionStep
<1> QED BY <1>1, <1>2, PTL DEF TxSpec

(* There the status of a task and those of its stages agree under READ     *)
(* COMMITTED, too: no overlap of cancel, complete, reconcile and the polls *)
(* leaves a stage open under an ended task or a finished pipeline under an *)
(* open one.                                                               *)
THEOREM ChainsAgree ==
  ASSUME Chains
  PROVE  TxSpec => []TaskStageAgreement
<1>1. ChainInv => TaskStageAgreement
  BY DEF ChainInv, RowsInv
<1> QED BY <1>1, ChainInvariance, PTL

(* There a task whose stages have all succeeded or been skipped has        *)
(* succeeded, which stages that run side by side do not secure.            *)
THEOREM ChainsEnd ==
  ASSUME Chains
  PROVE  TxSpec => []FinishedTasksEnd
<1>1. ASSUME ChainInv PROVE FinishedTasksEnd
  <2> SUFFICES ASSUME NEW t \in Tasks, AllDone(stage, t)
               PROVE  task[t].status = "succeeded"
    BY DEF FinishedTasksEnd
  <2>1. PICK s \in StagesOf(t) : stage[s].status \in RequiredUnder(task[t].status)
    BY <1>1 DEF ChainInv, RowsInv, TaskStageAgreement
  <2>2. stage[s].status \in {"succeeded", "skipped"}
    BY DEF AllDone, DoneStatuses
  <2>3. task[t].status \in TaskStatuses
    BY <1>1 DEF ChainInv, RowsInv, RowTypes, TaskRecords
  <2> QED
    BY <2>1, <2>2, <2>3 DEF RequiredUnder, OpenStatuses, DoneStatuses, TaskStatuses
<1> QED BY <1>1, ChainInvariance, PTL

(* There no poll hands out a stage on the strength of a dependency that an *)
(* overlapping handler takes back.                                         *)
THEOREM ChainsRespectDependencies ==
  ASSUME Chains
  PROVE  TxSpec => []DependenciesRespected
<1>1. ChainInv => DependenciesRespected
  BY DEF ChainInv, RowsInv
<1> QED BY <1>1, ChainInvariance, PTL

(* There no two commits mix their columns into a row that the validators   *)
(* of StageDetail and TaskDetail refuse.                                   *)
THEOREM ChainsReadable ==
  ASSUME Chains
  PROVE  TxSpec => []DetailsValid
<1>1. ChainInv => DetailsValid
  BY DEF ChainInv, RowsInv, Rows, RowInv, TaskRows, TaskRowInv, DetailsValid,
         StageDetailValid, TaskDetailValid
<1> QED BY <1>1, ChainInvariance, PTL

(* There the end of an attempt can always be recorded: the task of a       *)
(* running stage is running in every committed state.                      *)
THEOREM ChainsComplete ==
  ASSUME Chains
  PROVE  TxSpec => []CompletionNeverRaises
<1>1. ASSUME ChainInv PROVE CompletionNeverRaises
  <2>1. /\ can_transition_task("running", "failed")
        /\ can_transition_task("running", "succeeded")
    BY DEF can_transition_task, TASK_TRANSITIONS, TaskStatuses
  <2>2. ASSUME NEW s \in Stages, stage[s].status = "running", NEW st
        PROVE  TransitionsAllowed(st, {TaskOf[s]})
    <3>1. task[TaskOf[s]].status = "running"
      BY <1>1, <2>2, ActiveTask DEF ChainInv
    <3> QED BY <2>1, <3>1 DEF TransitionsAllowed
  <2> QED BY <2>2 DEF CompletionNeverRaises
<1> QED BY <1>1, ChainInvariance, PTL
=============================================================================

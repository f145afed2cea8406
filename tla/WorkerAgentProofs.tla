-------------------------- MODULE WorkerAgentProofs --------------------------
(***************************************************************************)
(* Proofs about WorkerAgent: the worker processes are callers of the       *)
(* control plane of StageScheduler, so that its theorems hold with them,   *)
(* and a live process executes every active stage it was given.            *)
(***************************************************************************)
EXTENDS WorkerAgent, StageSchedulerProofs

-----------------------------------------------------------------------------
(* The calls of a process are calls of StageScheduler. *)

(* The token of an active stage is one that was issued to its worker. *)
LEMMA HolderWasIssued ==
  ASSUME Inv, NEW s \in Stages, NEW w \in Workers, NEW k,
         RequireValidLease(s, w, k), Active(stage[s])
  PROVE  k \in DOMAIN issued[s] /\ issued[s][k] = w /\ k = Len(issued[s])
<1>1. RowInv(s, stage[s], issued[s]) /\ issued[s] \in Seq(Workers)
  BY DEF Inv, TypeOK, Rows
<1>2. k = Len(issued[s]) /\ k # NoToken /\ w = issued[s][k]
  BY <1>1 DEF RowInv, RequireValidLease
<1>3. k \in 1..Len(issued[s])
  BY <1>1, <1>2 DEF NoToken
<1> QED BY <1>1, <1>2, <1>3

(* What a process may call about a stage, whatever it presents. *)
LEMMA CallIsStep ==
  ASSUME Inv, NEW s \in Stages, NEW w \in Workers, NEW k,
         \/ renew(s, w, k)
         \/ start(s, w, k)
         \/ \E request \in Requests : complete(s, w, k, request)
  PROVE  Next
<1>1. RequireValidLease(s, w, k) /\ Active(stage[s])
  BY DEF renew, start, complete, Active, ActiveStatuses
<1>2. k \in DOMAIN issued[s] /\ issued[s][k] = w
  BY <1>1, HolderWasIssued
<1>3. WorkerCall(s)
  BY <1>2 DEF WorkerCall
<1> QED BY <1>3 DEF Next

(* The calls of WorkerService to the registry. *)
LEMMA RegistryCallIsStep ==
  ASSUME NEW w \in Workers, UNCHANGED schedulerVars,
         \/ \E slots \in Concurrencies : register(w, slots)
         \/ update(w, DrainRequest)
         \/ \E n \in Nat, status \in {"online", "busy", "unhealthy"} :
              n <= MaxSequence /\ heartbeat(w, n, status)
  PROVE  Next
<1>1. CASE \E slots \in Concurrencies : register(w, slots)
  BY <1>1 DEF Next, RegistryNext
<1>2. CASE update(w, DrainRequest)
  BY <1>2, RequestsAssumption DEF Next, RegistryNext, DrainRequest
<1>3. ASSUME NEW n \in Nat, NEW status \in {"online", "busy", "unhealthy"},
             n <= MaxSequence, heartbeat(w, n, status)
      PROVE  Next
  <2>1. n \in 0..MaxSequence /\ status \in ReportedStatuses
    BY <1>3, RequestsAssumption, WorkerTimesAssumption
  <2> QED BY <1>3, <2>1 DEF Next, RegistryNext
<1> QED BY <1>1, <1>2, <1>3

-----------------------------------------------------------------------------
(* The inductive invariant: what holds of the process p of worker w and of *)
(* what it executes, x, when the stage rows are st and the leases issued   *)
(* iss.  A process that executes nothing can have forgotten a lease only   *)
(* in the phases in which it may poll or end; the leases it was given are  *)
(* no younger than the last one issued, so that a stage handed out again   *)
(* is none of them.                                                        *)
ProcessOK(w, p, x, st, iss) ==
  /\ p \in Processes /\ x \in [Stages -> Executions]
  /\ p.late <= MaxSequence
  /\ p.phase \in {"down", "idle", "asking"} =>
       \A s \in Stages : x[s].phase = "none"
  /\ p.phase = "down" => \A s \in Stages : p.given[s] = NoToken
  /\ \A s \in Stages : p.given[s] <= Len(iss[s])
  /\ \A s \in Stages :
       /\ p.phase \in {"idle", "asking", "executing"}
       /\ Active(st[s]) /\ st[s].worker = w /\ st[s].token = p.given[s]
       => x[s].phase # "none" /\ x[s].token = st[s].token

AgentInv ==
  /\ Inv
  /\ agent \in [Workers -> Processes]
  /\ exec \in [Workers -> [Stages -> Executions]]
  /\ \A w \in Workers : ProcessOK(w, agent[w], exec[w], stage, issued)

LEMMA AgentInitInv ==
  ASSUME AgentInit
  PROVE  AgentInv
<1>1. Inv
  BY InitInv DEF AgentInit
<1>2. Down(-1, FALSE) \in Processes
  BY DEF Down, Processes, ProcessPhases, NoToken
<1>3. NoExecution \in Executions
  BY DEF NoExecution, Executions, ExecutionPhases, NoToken
<1>4. ASSUME NEW w \in Workers
      PROVE  ProcessOK(w, agent[w], exec[w], stage, issued)
  <2>1. agent[w] = Down(-1, FALSE) /\ exec[w] = [s \in Stages |-> NoExecution]
    BY DEF AgentInit
  <2>2. \A s \in Stages : Len(issued[s]) \in Nat
    BY <1>1 DEF Inv, TypeOK
  <2>3. -1 <= MaxSequence
    BY WorkerTimesAssumption
  <2> QED BY <1>2, <1>3, <2>1, <2>2, <2>3
          DEF ProcessOK, Down, NoExecution, NoToken
<1> QED BY <1>1, <1>2, <1>3, <1>4 DEF AgentInv, AgentInit

-----------------------------------------------------------------------------
(* What a step of the control plane may do to the lease of a stage: row r  *)
(* becomes q, when iss were the leases issued.  It is inactive, keeps its  *)
(* lease or has a new one.                                                 *)
LeaseKept(r, q, iss) ==
  Active(q) => \/ Active(r) /\ q.token = r.token /\ q.worker = r.worker
               \/ q.token = Len(iss) + 1

(* ... and it succeeds only by a completion. *)
NotSucceeding(r, q) == q.status = "succeeded" => r.status = "succeeded"

(* A row without a token is inactive in every state of the control plane.  *)
LEMMA NoTokenInactive ==
  ASSUME Inv', NEW s \in Stages, stage'[s].token = NoToken
  PROVE  ~Active(stage'[s])
BY DEF Inv, Rows, RowInv

(* _reconcile_task leaves a row as it is or cancels it. *)
LEMMA ReconcileKeeps ==
  ASSUME NEW st \in [Stages -> StageRecords], NEW affected,
         Reconcile(st, affected), Inv', NEW s \in Stages
  PROVE  /\ Active(stage'[s]) => stage'[s] = st[s]
         /\ st[s].token = NoToken => ~Active(stage'[s])
         /\ stage'[s].status = "succeeded" => st[s].status = "succeeded"
<1>1. stage'[s] = st[s] \/ stage'[s] = CancelledSibling(st[s])
  BY DEF Reconcile, ReconciledStages
<1>2. /\ CancelledSibling(st[s]).token = NoToken
      /\ CancelledSibling(st[s]).status = "cancelled"
  BY DEF CancelledSibling, ClearLease, StageRecords
<1> QED BY <1>1, <1>2, NoTokenInactive

(* The end of an attempt clears the lease. *)
LEMMA AttemptEnds ==
  ASSUME NEW s \in Stages, NEW r \in StageRecords
  PROVE  /\ FailOrRetryStage(s, r).token = NoToken
         /\ \A request \in Requests : SucceedStage(r, request).token = NoToken
BY DEF FailOrRetryStage, SucceedStage, Requeued, ClearLease, StageRecords

(* A completed stage is inactive, and succeeds only when no failure was    *)
(* reported; the others keep their leases or lose them.                    *)
LEMMA CompleteKeeps ==
  ASSUME Inv, Inv', NEW s \in Stages, NEW w \in Workers, NEW k \in Nat,
         NEW request \in Requests, complete(s, w, k, request)
  PROVE  /\ ~Active(stage'[s])
         /\ request = "failed" => stage'[s].status # "succeeded"
         /\ \A z \in Stages : LeaseKept(stage[z], stage'[z], issued[z])
         /\ \A z \in Stages \ {s} : NotSucceeding(stage[z], stage'[z])
<1> DEFINE r == [stage[s] EXCEPT
              !.completion = [worker |-> w, device |-> stage[s].device,
                              token |-> k, request |-> request]]
           q == IF request = "failed" THEN FailOrRetryStage(s, r)
                                      ELSE SucceedStage(r, request)
           st == [stage EXCEPT ![s] = q]
<1>1. /\ stage \in [Stages -> StageRecords] /\ issued[s] \in Seq(Workers)
      /\ RowInv(s, stage[s], issued[s]) /\ now \in Nat
  BY DEF Inv, TypeOK, RegistryTypeOK, Rows
<1>2. stage[s].status = "running" /\ Reconcile(st, {TaskOf[s]})
  BY DEF complete
<1>3. r \in StageRecords /\ RowInv(s, r, issued[s]) /\ r.status = "running"
  BY <1>1, <1>2, RowCompletion
<1> HIDE DEF r
<1>4. /\ q \in StageRecords /\ q.token = NoToken
      /\ request = "failed" => q.status # "succeeded"
  <2>1. CASE request = "failed"
    <3>1. Active(r)
      BY <1>3 DEF Active, ActiveStatuses
    <3> QED BY <1>1, <1>3, <2>1, <3>1, RowFailOrRetry, AttemptEnds
  <2>2. CASE request # "failed"
    BY <1>1, <1>3, <2>2, RowSucceeded, AttemptEnds
  <2> QED BY <2>1, <2>2
<1> HIDE DEF q
<1>5. /\ st \in [Stages -> StageRecords] /\ st[s] = q
      /\ \A z \in Stages \ {s} : st[z] = stage[z]
  BY <1>1, <1>4
<1> HIDE DEF st
<1>6. ASSUME NEW z \in Stages
      PROVE  /\ Active(stage'[z]) => stage'[z] = st[z]
             /\ st[z].token = NoToken => ~Active(stage'[z])
             /\ stage'[z].status = "succeeded" => st[z].status = "succeeded"
  BY <1>2, <1>5, ReconcileKeeps
<1> QED BY <1>4, <1>5, <1>6 DEF LeaseKept, NotSucceeding

(* Nor does the reconcile endpoint give or prolong a lease. *)
LEMMA ReconcileEndpointKeeps ==
  ASSUME Inv, Inv', ReconcileEndpoint, NEW z \in Stages
  PROVE  /\ LeaseKept(stage[z], stage'[z], issued[z])
         /\ NotSucceeding(stage[z], stage'[z])
<1> DEFINE st == [s \in Stages |-> IF s \in Expired
                                     THEN FailOrRetryStage(s, stage[s])
                                     ELSE stage[s]]
<1>1. Reconcile(st, {TaskOf[s] : s \in Expired})
  BY DEF ReconcileEndpoint, reconcile_workers
<1>2. ASSUME NEW s \in Stages
      PROVE  /\ st[s] \in StageRecords
             /\ \/ st[s] = stage[s]
                \/ st[s].token = NoToken /\ st[s].status # "succeeded"
  <2>1. /\ stage[s] \in StageRecords /\ issued[s] \in Seq(Workers)
        /\ RowInv(s, stage[s], issued[s]) /\ now \in Nat
    BY DEF Inv, TypeOK, RegistryTypeOK, Rows
  <2>2. s \in Expired => Active(stage[s])
    BY DEF Expired
  <2> QED BY <2>1, <2>2, RowFailOrRetry, AttemptEnds
<1>3. st \in [Stages -> StageRecords]
  BY <1>2
<1> HIDE DEF st
<1>4. /\ Active(stage'[z]) => stage'[z] = st[z]
      /\ st[z].token = NoToken => ~Active(stage'[z])
      /\ stage'[z].status = "succeeded" => st[z].status = "succeeded"
  BY <1>1, <1>3, ReconcileKeeps
<1> QED BY <1>2, <1>4 DEF LeaseKept, NotSucceeding

(* Cancelling and retrying a task gives no lease. *)
LEMMA TaskOperationKeeps ==
  ASSUME Inv, NEW t \in Tasks, cancel(t) \/ retry(t), NEW z \in Stages
  PROVE  /\ LeaseKept(stage[z], stage'[z], issued[z])
         /\ NotSucceeding(stage[z], stage'[z])
<1>1. stage[z] \in StageRecords
  BY DEF Inv, TypeOK
<1>2. \/ stage'[z] = stage[z]
      \/ stage'[z] = CancelledStage(stage[z])
      \/ stage'[z] = RetriedStage(stage[z])
  BY DEF cancel, retry
<1>3. /\ CancelledStage(stage[z]).status = "cancelled"
      /\ RetriedStage(stage[z]).status = "pending"
  BY <1>1 DEF CancelledStage, RetriedStage, StageRecords
<1> QED
  BY <1>2, <1>3 DEF LeaseKept, NotSucceeding, Active, ActiveStatuses

(* A poll gives new leases, above all that were issued. *)
LEMMA PollGives ==
  ASSUME Inv, NEW w \in Workers, NEW granted \in SUBSET Stages,
         NEW device \in [granted -> Devices], lease(w, granted, device),
         NEW z \in Stages
  PROVE  /\ z \in granted => /\ stage'[z].status = "leased"
                             /\ stage'[z].token = Len(issued[z]) + 1
                             /\ stage'[z].worker = w
                             /\ Len(issued'[z]) = Len(issued[z]) + 1
         /\ z \notin granted => stage'[z] = stage[z] /\ issued'[z] = issued[z]
<1>1. stage[z] \in StageRecords /\ issued[z] \in Seq(Workers)
  BY DEF Inv, TypeOK
<1>2. CASE z \in granted
  <2>1. /\ stage'[z] = LeasedStage(stage[z], w, device[z], Len(issued[z]) + 1)
        /\ issued'[z] = Append(issued[z], w)
    BY <1>2 DEF lease
  <2> QED BY <1>1, <1>2, <2>1 DEF LeasedStage, StageRecords
<1>3. CASE z \notin granted
  BY <1>3 DEF lease
<1> QED BY <1>2, <1>3

(* Every step of the control plane keeps, ends or renews the lease of a    *)
(* stage, and takes back none that was issued.                             *)
LEMMA StepKeeps ==
  ASSUME Inv, [Next]_vars, NEW z \in Stages
  PROVE  /\ LeaseKept(stage[z], stage'[z], issued[z])
         /\ Len(issued[z]) <= Len(issued'[z])
<1>1. Inv'
  BY NextInv
<1>2. issued[z] \in Seq(Workers) /\ Len(issued[z]) \in Nat
  BY DEF Inv, TypeOK
<1>3. CASE (RegistryNext /\ UNCHANGED schedulerVars) \/ UNCHANGED vars
  BY <1>2, <1>3 DEF schedulerVars, vars, LeaseKept
<1>4. ASSUME NEW w \in Workers, Poll(w)
      PROVE  /\ LeaseKept(stage[z], stage'[z], issued[z])
             /\ Len(issued[z]) <= Len(issued'[z])
  <2>0. PICK granted \in SUBSET Stages : \E device \in [granted -> Devices] :
          lease(w, granted, device)
    BY <1>4 DEF Poll
  <2>1. PICK device \in [granted -> Devices] : lease(w, granted, device)
    BY <2>0
  <2>2. /\ z \in granted => /\ stage'[z].token = Len(issued[z]) + 1
                            /\ Len(issued'[z]) = Len(issued[z]) + 1
        /\ z \notin granted => stage'[z] = stage[z] /\ issued'[z] = issued[z]
    BY <2>1, PollGives
  <2> QED BY <1>2, <2>2 DEF LeaseKept
<1>5. ASSUME NEW s \in Stages, WorkerCall(s)
      PROVE  /\ LeaseKept(stage[z], stage'[z], issued[z])
             /\ issued' = issued
  <2>1. PICK k \in DOMAIN issued[s] :
          \/ renew(s, issued[s][k], k)
          \/ start(s, issued[s][k], k)
          \/ \E request \in Requests : complete(s, issued[s][k], k, request)
    BY <1>5 DEF WorkerCall
  <2>2. k \in Nat /\ issued[s][k] \in Workers
    BY DEF Inv, TypeOK
  <2>3. stage \in [Stages -> StageRecords]
    BY DEF Inv, TypeOK
  <2>4. CASE renew(s, issued[s][k], k)
    BY <2>3, <2>4 DEF renew, LeaseKept, StageRecords, Active
  <2>5. CASE start(s, issued[s][k], k)
    BY <2>3, <2>5 DEF start, LeaseKept, StageRecords, Active, ActiveStatuses
  <2>6. CASE \E request \in Requests : complete(s, issued[s][k], k, request)
    <3>1. PICK request \in Requests : complete(s, issued[s][k], k, request)
      BY <2>6
    <3>2. issued' = issued
      BY <3>1 DEF complete
    <3> QED BY <1>1, <2>2, <3>1, <3>2, CompleteKeeps
  <2> QED BY <2>1, <2>4, <2>5, <2>6
<1>6. CASE ReconcileEndpoint
  <2>1. issued' = issued
    BY <1>6 DEF ReconcileEndpoint, reconcile_workers
  <2> QED BY <1>1, <1>2, <1>6, <2>1, ReconcileEndpointKeeps
<1>7. ASSUME NEW t \in Tasks, cancel(t) \/ retry(t)
      PROVE  /\ LeaseKept(stage[z], stage'[z], issued[z])
             /\ issued' = issued
  <2>1. issued' = issued
    BY <1>7 DEF cancel, retry
  <2> QED BY <1>7, <2>1, TaskOperationKeeps
<1> QED BY <1>2, <1>3, <1>4, <1>5, <1>6, <1>7 DEF Next

(* A process that does nothing stays sound while the control plane takes a *)
(* step.                                                                   *)
LEMMA Bystander ==
  ASSUME Inv, [Next]_vars, NEW w \in Workers, NEW p, NEW x,
         ProcessOK(w, p, x, stage, issued)
  PROVE  ProcessOK(w, p, x, stage', issued')
<1>1. ASSUME NEW s \in Stages
      PROVE  /\ LeaseKept(stage[s], stage'[s], issued[s])
             /\ Len(issued[s]) <= Len(issued'[s])
             /\ Len(issued[s]) \in Nat /\ Len(issued'[s]) \in Nat
             /\ p.given[s] \in Nat /\ p.given[s] <= Len(issued[s])
  <2>1. Inv'
    BY NextInv
  <2>2. Len(issued[s]) \in Nat /\ Len(issued'[s]) \in Nat
    BY <2>1 DEF Inv, TypeOK
  <2> QED BY <2>2, StepKeeps DEF ProcessOK, Processes
<1> QED BY <1>1 DEF ProcessOK, LeaseKept

-----------------------------------------------------------------------------
(* What becomes of a process and of its executions, in the rows st and     *)
(* with the leases iss that its step leaves.                               *)

(* A process that has ended is sound. *)
LEMMA DownOK ==
  ASSUME NEW w \in Workers, NEW late \in Nat \cup {-1}, late <= MaxSequence,
         NEW waiting \in BOOLEAN, NEW st, NEW iss,
         \A s \in Stages : Len(iss[s]) \in Nat
  PROVE  ProcessOK(w, Down(late, waiting), [s \in Stages |-> NoExecution],
                   st, iss)
<1>1. Down(late, waiting) \in Processes
  BY DEF Down, Processes, ProcessPhases, NoToken
<1>2. NoExecution \in Executions
  BY DEF NoExecution, Executions, ExecutionPhases, NoToken
<1> QED BY <1>1, <1>2 DEF ProcessOK, Down, NoExecution, NoToken

(* When every process is sound, whether it took part in the step or not,   *)
(* so is the system.                                                       *)
LEMMA AgentStep ==
  ASSUME AgentInv, [Next]_vars, NEW w \in Workers, NEW p, NEW x,
         agent' = [agent EXCEPT ![w] = p], exec' = [exec EXCEPT ![w] = x],
         ProcessOK(w, p, x, stage', issued')
  PROVE  AgentInv'
<1>1. Inv'
  BY NextInv DEF AgentInv
<1>2. p \in Processes /\ x \in [Stages -> Executions]
  BY DEF ProcessOK
<1>3. ASSUME NEW v \in Workers
      PROVE  ProcessOK(v, agent'[v], exec'[v], stage', issued')
  <2>1. CASE v = w
    BY <2>1 DEF AgentInv
  <2>2. CASE v # w
    <3>1. agent'[v] = agent[v] /\ exec'[v] = exec[v]
      BY <2>2 DEF AgentInv
    <3>2. ProcessOK(v, agent[v], exec[v], stage, issued)
      BY DEF AgentInv
    <3> QED BY <3>1, <3>2, Bystander DEF AgentInv
  <2> QED BY <2>1, <2>2
<1> QED BY <1>1, <1>2, <1>3 DEF AgentInv

(* What is known of the process of w after the step of the control plane,  *)
(* before the process itself changes.                                      *)
LEMMA Before ==
  ASSUME AgentInv, [Next]_vars, NEW w \in Workers
  PROVE  /\ ProcessOK(w, agent[w], exec[w], stage', issued')
         /\ agent[w] \in Processes /\ exec[w] \in [Stages -> Executions]
         /\ agent[w].late \in Nat \cup {-1} /\ agent[w].late <= MaxSequence
         /\ \A s \in Stages : Len(issued[s]) \in Nat /\ Len(issued'[s]) \in Nat
         /\ \A s \in Stages : Active(stage'[s]) => stage'[s].token # NoToken
<1>1. Inv /\ Inv'
  BY NextInv DEF AgentInv
<1>2. ProcessOK(w, agent[w], exec[w], stage, issued)
  BY DEF AgentInv
<1>3. ProcessOK(w, agent[w], exec[w], stage', issued')
  BY <1>1, <1>2, Bystander
<1>4. \A s \in Stages : Len(issued[s]) \in Nat /\ Len(issued'[s]) \in Nat
  BY <1>1 DEF Inv, TypeOK
<1>5. \A s \in Stages : Active(stage'[s]) => stage'[s].token # NoToken
  BY <1>1 DEF Inv, Rows, RowInv
<1> QED BY <1>2, <1>3, <1>4, <1>5 DEF ProcessOK, Processes

(* The process of w changes and goes on executing what it executes. *)
LEMMA ProcessStep ==
  ASSUME AgentInv, [Next]_vars, NEW w \in Workers, NEW p,
         agent' = [agent EXCEPT ![w] = p], exec' = exec,
         ProcessOK(w, p, exec[w], stage', issued')
  PROVE  AgentInv'
<1>1. exec' = [exec EXCEPT ![w] = exec[w]]
  BY DEF AgentInv
<1> HIDE DEF AgentInv
<1> QED BY <1>1, AgentStep

(* The process of w ends, in whatever state it is. *)
LEMMA DiesStep ==
  ASSUME AgentInv, [Next]_vars, NEW w \in Workers,
         NEW late \in Nat \cup {-1}, late <= MaxSequence,
         NEW waiting \in BOOLEAN, Dies(w, late, waiting)
  PROVE  AgentInv'
<1>1. ProcessOK(w, Down(late, waiting), [s \in Stages |-> NoExecution],
                stage', issued')
  BY DownOK, Before
<1> QED BY <1>1, AgentStep DEF Dies

LEMMA AbandonsStep ==
  ASSUME AgentInv, [Next]_vars, NEW w \in Workers,
         NEW late \in Nat \cup {-1}, late <= MaxSequence, Abandons(w, late)
  PROVE  AgentInv'
<1>1. (agent[w].waiting \/ agent[w].phase = "asking") \in BOOLEAN
  OBVIOUS
<1> QED BY <1>1, DiesStep DEF Abandons

LEMMA QuitsStep ==
  ASSUME AgentInv, [Next]_vars, NEW w \in Workers, Quits(w)
  PROVE  AgentInv'
<1>1. agent[w].waiting \in BOOLEAN
  BY Before DEF Processes
<1> QED BY <1>1, Before, DiesStep DEF Quits

-----------------------------------------------------------------------------
(* One lemma per action of the loops of WorkerService. *)

LEMMA BootOK ==
  ASSUME AgentInv, NEW w \in Workers, Boot(w)
  PROVE  [Next]_vars /\ AgentInv'
<1>1. PICK slots \in Concurrencies :
        /\ register(w, slots)
        /\ \/ agent' = [agent EXCEPT ![w].phase = "idle", ![w].slots = slots]
           \/ UNCHANGED agent
  BY DEF Boot
<1>2. agent[w].phase = "down" /\ UNCHANGED schedulerVars /\ exec' = exec
  BY DEF Boot
<1>3. Next
  BY <1>1, <1>2, RegistryCallIsStep
<1> USE <1>3, Before
<1>4. CASE agent' = [agent EXCEPT ![w].phase = "idle", ![w].slots = slots]
  <2> DEFINE p == [agent[w] EXCEPT !.phase = "idle", !.slots = slots]
  <2>1. p \in Processes
    BY <1>1, ConcurrenciesAssumption DEF Processes, ProcessPhases
  <2>2. /\ p.phase = "idle" /\ p.late = agent[w].late
        /\ p.given = agent[w].given
    BY DEF Processes
  <2>3. agent' = [agent EXCEPT ![w] = p]
    BY <1>4
  <2> HIDE DEF p
  <2>4. ProcessOK(w, p, exec[w], stage', issued')
    BY <1>2, <2>1, <2>2 DEF ProcessOK
  <2> QED BY <1>2, <2>3, <2>4, ProcessStep
<1>5. CASE UNCHANGED agent
  <2>1. agent' = [agent EXCEPT ![w] = agent[w]]
    BY <1>5 DEF AgentInv
  <2> QED BY <1>2, <2>1, ProcessStep
<1> QED BY <1>1, <1>4, <1>5

(* The steps in which a process changes nothing but its flags and counters *)
(* or the phase between polls.                                             *)
LEMMA FlagsOK ==
  ASSUME AgentInv, [Next]_vars, NEW w \in Workers, NEW p \in Processes,
         agent' = [agent EXCEPT ![w] = p], exec' = exec,
         p.given = agent[w].given, p.late \in {agent[w].late, -1},
         \/ p.phase = agent[w].phase
         \/ /\ agent[w].phase \in {"idle", "asking", "executing"}
            /\ p.phase \in {"idle", "asking"} /\ ~Executing(w)
  PROVE  AgentInv'
<1> USE Before
<1>1. p.late <= MaxSequence
  BY WorkerTimesAssumption
<1>2. CASE p.phase = agent[w].phase
  <2>1. ProcessOK(w, p, exec[w], stage', issued')
    BY <1>1, <1>2 DEF ProcessOK
  <2> QED BY <2>1, ProcessStep
<1>3. CASE /\ agent[w].phase \in {"idle", "asking", "executing"}
           /\ p.phase \in {"idle", "asking"} /\ ~Executing(w)
  <2>1. \A s \in Stages : exec[w][s].phase = "none"
    BY <1>3 DEF Executing
  <2>2. ProcessOK(w, p, exec[w], stage', issued')
    BY <1>1, <1>3, <2>1 DEF ProcessOK
  <2> QED BY <2>2, ProcessStep
<1> QED BY <1>2, <1>3

LEMMA SignalOK ==
  ASSUME AgentInv, NEW w \in Workers, Signal(w)
  PROVE  [Next]_vars /\ AgentInv'
<1> DEFINE p == [agent[w] EXCEPT !.stop = TRUE]
<1>1. UNCHANGED vars /\ exec' = exec /\ agent' = [agent EXCEPT ![w] = p]
  BY DEF Signal
<1>2. /\ p \in Processes /\ p.given = agent[w].given
      /\ p.late = agent[w].late /\ p.phase = agent[w].phase
  BY <1>1, Before DEF Processes
<1> HIDE DEF p
<1> QED BY <1>1, <1>2, FlagsOK

LEMMA DrainOK ==
  ASSUME AgentInv, NEW w \in Workers, Drain(w)
  PROVE  [Next]_vars /\ AgentInv'
<1> DEFINE p == [agent[w] EXCEPT !.drained = TRUE]
<1>1. exec' = exec /\ agent' = [agent EXCEPT ![w] = p]
  BY DEF Drain
<1>2. [Next]_vars
  BY RegistryCallIsStep DEF Drain
<1>3. /\ p \in Processes /\ p.given = agent[w].given
      /\ p.late = agent[w].late /\ p.phase = agent[w].phase
  BY <1>2, Before DEF Processes
<1> HIDE DEF p
<1> QED BY <1>1, <1>2, <1>3, FlagsOK

LEMMA BeatOK ==
  ASSUME AgentInv, NEW w \in Workers, Beat(w)
  PROVE  [Next]_vars /\ AgentInv'
<1> DEFINE n == agent[w].sequence
           send(healthy) == /\ heartbeat(w, n, BeatStatus(w, healthy))
                            /\ UNCHANGED schedulerVars
<1>1. PICK healthy \in BOOLEAN :
        /\ n <= MaxSequence
        /\ \/ /\ send(healthy)
              /\ agent' = [agent EXCEPT ![w] = AfterBeat(w, healthy)]
              /\ exec' = exec
           \/ send(healthy) /\ Abandons(w, agent[w].late)
           \/ UNCHANGED vars /\ (Abandons(w, n) \/ Abandons(w, agent[w].late))
  BY DEF Beat
<1>2. agent[w] \in Processes /\ n \in Nat
  BY DEF AgentInv, Processes
<1>3. BeatStatus(w, healthy) \in {"online", "busy", "unhealthy"}
  BY DEF BeatStatus
<1>4. [Next]_vars
  BY <1>1, <1>2, <1>3, RegistryCallIsStep
<1>5. CASE agent' = [agent EXCEPT ![w] = AfterBeat(w, healthy)] /\ exec' = exec
  <2> DEFINE p == AfterBeat(w, healthy)
  <2>1. /\ p \in Processes /\ p.given = agent[w].given
        /\ p.late = agent[w].late /\ p.phase = agent[w].phase
    <3>1. \/ p = [agent[w] EXCEPT !.stop = TRUE]
          \/ p = [agent[w] EXCEPT !.sequence = n + 1]
      BY DEF AfterBeat
    <3>2. n + 1 \in Nat
      BY <1>2
    <3> HIDE DEF p, n
    <3> QED BY <1>2, <3>1, <3>2 DEF Processes
  <2> HIDE DEF p
  <2> QED BY <1>4, <1>5, <2>1, FlagsOK DEF p
<1>6. CASE Abandons(w, agent[w].late)
  BY <1>4, <1>6, Before, AbandonsStep
<1>7. CASE Abandons(w, n)
  BY <1>1, <1>2, <1>4, <1>7, AbandonsStep
<1> QED BY <1>1, <1>4, <1>5, <1>6, <1>7

LEMMA LateBeatOK ==
  ASSUME AgentInv, NEW w \in Workers, LateBeat(w)
  PROVE  [Next]_vars /\ AgentInv'
<1> DEFINE p == [agent[w] EXCEPT !.late = -1]
<1>1. exec' = exec /\ agent' = [agent EXCEPT ![w] = p]
  BY DEF LateBeat
<1>2. /\ agent[w] \in Processes /\ agent[w].late \in Nat \cup {-1}
      /\ agent[w].late <= MaxSequence
  BY DEF AgentInv, ProcessOK, Processes
<1>3. [Next]_vars
  BY <1>2, RegistryCallIsStep DEF LateBeat
<1>4. /\ p \in Processes /\ p.given = agent[w].given
      /\ p.late = -1 /\ p.phase = agent[w].phase
  BY <1>2 DEF Processes
<1> HIDE DEF p
<1> QED BY <1>1, <1>3, <1>4, FlagsOK

(* The steps of the poll loop between which nothing is executed. *)
LEMMA BetweenPollsOK ==
  ASSUME AgentInv, NEW w \in Workers, Ask(w) \/ NothingGranted(w) \/ BatchEnds(w)
  PROVE  [Next]_vars /\ AgentInv'
<1>1. PICK phase \in {"idle", "asking"} :
        /\ agent' = [agent EXCEPT ![w].phase = phase]
        /\ exec' = exec /\ UNCHANGED vars
        /\ agent[w].phase \in {"idle", "asking", "executing"}
        /\ agent[w].phase = "executing" => ~Executing(w)
  BY DEF Ask, NothingGranted, BatchEnds
<1> DEFINE p == [agent[w] EXCEPT !.phase = phase]
<1>2. ~Executing(w)
  BY <1>1 DEF AgentInv, ProcessOK, Executing
<1>3. /\ p \in Processes /\ p.given = agent[w].given
      /\ p.late = agent[w].late /\ p.phase = phase
  BY <1>1, Before DEF Processes, ProcessPhases
<1>4. agent' = [agent EXCEPT ![w] = p]
  BY <1>1
<1> HIDE DEF p
<1> QED BY <1>1, <1>2, <1>3, <1>4, FlagsOK

LEMMA EndsOK ==
  ASSUME AgentInv, NEW w \in Workers, AskFails(w) \/ Exit(w) \/ Crash(w)
  PROVE  [Next]_vars /\ AgentInv'
<1>1. /\ UNCHANGED vars
      /\ Abandons(w, agent[w].late) \/ Quits(w)
  BY DEF AskFails, Exit, Crash
<1> QED BY <1>1, Before, AbandonsStep, QuitsStep

(* A batch: what the process executed before is nothing, and what it is    *)
(* given now it executes.                                                  *)
LEMMA GrantedOK ==
  ASSUME AgentInv, NEW w \in Workers, Granted(w)
  PROVE  [Next]_vars /\ AgentInv'
<1>1. PICK granted \in SUBSET Stages : \E device \in [granted -> Devices] :
        /\ lease(w, granted, device)
        /\ \/ /\ agent' = [agent EXCEPT ![w].phase = "executing",
                                        ![w].given = Given(w, granted)]
              /\ exec' = [exec EXCEPT ![w] = Batch(granted)]
           \/ Quits(w)
  BY DEF Granted
<1>2. PICK device \in [granted -> Devices] : lease(w, granted, device)
  BY <1>1
<1>3. Next
  BY <1>2 DEF Next, Poll
<1>4. CASE Quits(w)
  BY <1>3, <1>4, QuitsStep
<1>5. CASE /\ agent' = [agent EXCEPT ![w].phase = "executing",
                                     ![w].given = Given(w, granted)]
           /\ exec' = [exec EXCEPT ![w] = Batch(granted)]
  <2> DEFINE g == Given(w, granted)
             x == Batch(granted)
             p == [agent[w] EXCEPT !.phase = "executing", !.given = g]
  <2>1. /\ agent[w] \in Processes /\ ProcessOK(w, agent[w], exec[w], stage, issued)
        /\ agent[w].phase = "asking"
    BY DEF AgentInv, Granted
  <2>2. \A s \in Stages : Len(issued[s]) \in Nat /\ Len(issued'[s]) \in Nat
    BY <1>3, Before
  <2>3. ASSUME NEW s \in Stages
        PROVE  /\ s \in granted =>
                    /\ stage'[s].token = Len(issued[s]) + 1
                    /\ Len(issued'[s]) = Len(issued[s]) + 1
               /\ s \notin granted => stage'[s] = stage[s] /\ issued'[s] = issued[s]
    BY <1>2, PollGives DEF AgentInv
  <2>4. /\ g \in [Stages -> Nat]
        /\ \A s \in Stages : g[s] = IF s \in granted THEN Len(issued[s]) + 1
                                                     ELSE agent[w].given[s]
    BY <2>1, <2>2 DEF Given, Processes
  <2>5. /\ x \in [Stages -> Executions]
        /\ \A s \in granted : x[s].phase = "leased" /\ x[s].token = Len(issued[s]) + 1
    BY <2>2 DEF Batch, Executions, ExecutionPhases, NoExecution, NoToken
  <2> HIDE DEF g, x
  <2>6. /\ p \in Processes /\ p.phase = "executing" /\ p.given = g
        /\ p.late = agent[w].late
    BY <2>1, <2>4 DEF Processes, ProcessPhases
  <2>7. agent' = [agent EXCEPT ![w] = p] /\ exec' = [exec EXCEPT ![w] = x]
    BY <1>5 DEF g, x
  <2> HIDE DEF p
  <2>8. ProcessOK(w, p, x, stage', issued')
    <3>1. ASSUME NEW s \in Stages
          PROVE  g[s] <= Len(issued'[s])
      BY <2>1, <2>2, <2>3, <2>4 DEF ProcessOK
    <3>2. ASSUME NEW s \in Stages, Active(stage'[s]), stage'[s].worker = w,
                 stage'[s].token = g[s]
          PROVE  x[s].phase # "none" /\ x[s].token = stage'[s].token
      <4>1. CASE s \in granted
        BY <2>3, <2>5, <4>1
      <4>2. CASE s \notin granted
        BY <2>1, <2>3, <2>4, <3>2, <4>2 DEF ProcessOK
      <4> QED BY <4>1, <4>2
    <3> QED BY <2>1, <2>5, <2>6, <3>1, <3>2 DEF ProcessOK
  <2> QED BY <1>3, <2>7, <2>8, AgentStep
<1> QED BY <1>1, <1>3, <1>4, <1>5

LEMMA LateGrantOK ==
  ASSUME AgentInv, NEW w \in Workers, LateGrant(w)
  PROVE  [Next]_vars /\ AgentInv'
<1> DEFINE p == [agent[w] EXCEPT !.waiting = FALSE]
<1>1. exec' = exec /\ agent' = [agent EXCEPT ![w] = p]
  BY DEF LateGrant
<1>2. Next
  BY DEF LateGrant, Next
<1>3. /\ p \in Processes /\ p.given = agent[w].given
      /\ p.late = agent[w].late /\ p.phase = agent[w].phase
  BY <1>2, Before DEF Processes
<1> HIDE DEF p
<1> QED BY <1>1, <1>2, <1>3, FlagsOK

-----------------------------------------------------------------------------
(* One lemma per step of an execution. *)

(* An execution goes from one phase to another. *)
LEMMA GoesStep ==
  ASSUME AgentInv, [Next]_vars, NEW w \in Workers, NEW s \in Stages,
         NEW phase \in ExecutionPhases \ {"none"},
         In(w, s, ExecutionPhases), Goes(w, s, phase)
  PROVE  AgentInv'
<1> DEFINE x == [exec[w] EXCEPT ![s].phase = phase]
<1> USE Before
<1>1. /\ x \in [Stages -> Executions]
      /\ \A z \in Stages : x[z].token = exec[w][z].token
      /\ \A z \in Stages : exec[w][z].phase # "none" => x[z].phase # "none"
  BY DEF Executions
<1>2. exec' = [exec EXCEPT ![w] = x] /\ agent' = [agent EXCEPT ![w] = agent[w]]
  BY DEF Goes, AgentInv
<1> HIDE DEF x
<1>3. ProcessOK(w, agent[w], x, stage', issued')
  BY <1>1 DEF ProcessOK, In
<1> QED BY <1>2, <1>3, AgentStep

(* An execution ends when its stage is no longer active. *)
LEMMA EndsStep ==
  ASSUME AgentInv, [Next]_vars, NEW w \in Workers, NEW s \in Stages,
         ~Active(stage'[s]), In(w, s, ExecutionPhases), Ends(w, s)
  PROVE  AgentInv'
<1> DEFINE x == [exec[w] EXCEPT ![s] = NoExecution]
<1> USE Before
<1>1. /\ x \in [Stages -> Executions]
      /\ \A z \in Stages \ {s} : x[z] = exec[w][z]
  BY DEF NoExecution, Executions, ExecutionPhases, NoToken
<1>2. exec' = [exec EXCEPT ![w] = x] /\ agent' = [agent EXCEPT ![w] = agent[w]]
  BY DEF Ends, AgentInv
<1> HIDE DEF x
<1>3. ProcessOK(w, agent[w], x, stage', issued')
  BY <1>1 DEF ProcessOK, In
<1> QED BY <1>2, <1>3, AgentStep

(* An execution raises: its process polls no more. *)
LEMMA RaisesStep ==
  ASSUME AgentInv, [Next]_vars, NEW w \in Workers, NEW s \in Stages,
         In(w, s, ExecutionPhases), Raises(w, s)
  PROVE  AgentInv'
<1> DEFINE x == [exec[w] EXCEPT ![s] = NoExecution]
           p == [agent[w] EXCEPT !.phase = "raising"]
<1> USE Before
<1>1. x \in [Stages -> Executions]
  BY DEF NoExecution, Executions, ExecutionPhases, NoToken
<1>2. /\ p \in Processes /\ p.phase = "raising" /\ p.given = agent[w].given
      /\ p.late = agent[w].late
  BY DEF Processes, ProcessPhases
<1>3. exec' = [exec EXCEPT ![w] = x] /\ agent' = [agent EXCEPT ![w] = p]
  BY DEF Raises, AgentInv
<1> HIDE DEF x, p
<1>4. ProcessOK(w, p, x, stage', issued')
  BY <1>1, <1>2 DEF ProcessOK
<1> QED BY <1>3, <1>4, AgentStep

(* The phases that the steps of an execution test and set. *)
LEMMA InPhases ==
  ASSUME NEW w, NEW s, NEW phases, In(w, s, phases),
         phases \subseteq ExecutionPhases
  PROVE  In(w, s, ExecutionPhases)
BY DEF In

LEMMA StartOK ==
  ASSUME AgentInv, NEW w \in Workers, NEW s \in Stages, Start(w, s)
  PROVE  [Next]_vars /\ AgentInv'
<1>1. In(w, s, ExecutionPhases)
  BY InPhases DEF Start, ExecutionPhases
<1>2. start(s, w, exec[w][s].token) \/ UNCHANGED vars
  BY DEF Start, CallFails
<1>3. [Next]_vars
  BY <1>2, CallIsStep DEF AgentInv
<1>4. Goes(w, s, "working") \/ Raises(w, s)
  BY DEF Start
<1>5. "working" \in ExecutionPhases \ {"none"}
  BY DEF ExecutionPhases
<1> QED BY <1>1, <1>3, <1>4, <1>5, GoesStep, RaisesStep

LEMMA WorkEndsOK ==
  ASSUME AgentInv, NEW w \in Workers, NEW s \in Stages, WorkEnds(w, s)
  PROVE  [Next]_vars /\ AgentInv'
<1>1. In(w, s, ExecutionPhases)
  BY InPhases DEF WorkEnds, ExecutionPhases
<1>2. PICK phase \in ExecutionPhases \ {"none"} : Goes(w, s, phase)
  BY DEF WorkEnds, ExecutionPhases
<1>3. [Next]_vars
  BY DEF WorkEnds
<1> QED BY <1>1, <1>2, <1>3, GoesStep

LEMMA RenewOK ==
  ASSUME AgentInv, NEW w \in Workers, NEW s \in Stages, Renew(w, s)
  PROVE  [Next]_vars /\ AgentInv'
<1>1. In(w, s, ExecutionPhases)
  BY InPhases DEF Renew, ExecutionPhases
<1>2. renew(s, w, exec[w][s].token) \/ UNCHANGED vars
  BY DEF Renew, CallFails
<1>3. [Next]_vars
  BY <1>2, CallIsStep DEF AgentInv
<1>4. (agent' = agent /\ exec' = exec) \/ Goes(w, s, "failing")
  BY DEF Renew
<1>5. CASE agent' = agent /\ exec' = exec
  <2>1. agent' = [agent EXCEPT ![w] = agent[w]]
    BY <1>5 DEF AgentInv
  <2> QED BY <1>3, <1>5, <2>1, Before, ProcessStep
<1>6. CASE Goes(w, s, "failing")
  <2>1. "failing" \in ExecutionPhases \ {"none"}
    BY DEF ExecutionPhases
  <2> QED BY <1>1, <1>3, <1>6, <2>1, GoesStep
<1> QED BY <1>3, <1>4, <1>5, <1>6

(* A report, of either kind. *)
LEMMA ReportedOK ==
  ASSUME AgentInv, NEW w \in Workers, NEW s \in Stages, NEW request \in Requests,
         In(w, s, ExecutionPhases),
         \/ complete(s, w, exec[w][s].token, request) /\ Ends(w, s)
         \/ /\ \/ complete(s, w, exec[w][s].token, request)
               \/ UNCHANGED vars
            /\ Goes(w, s, "failing") \/ Raises(w, s)
  PROVE  [Next]_vars /\ AgentInv'
<1>1. complete(s, w, exec[w][s].token, request) \/ UNCHANGED vars
  OBVIOUS
<1>2. [Next]_vars
  BY <1>1, CallIsStep DEF AgentInv
<1>3. CASE complete(s, w, exec[w][s].token, request) /\ Ends(w, s)
  <2>1. exec[w][s].token \in Nat /\ Inv /\ Inv'
    BY <1>2, NextInv DEF AgentInv, Executions
  <2>2. ~Active(stage'[s])
    BY <1>3, <2>1, CompleteKeeps
  <2> QED BY <1>2, <1>3, <2>2, EndsStep
<1>4. CASE Goes(w, s, "failing")
  <2>1. "failing" \in ExecutionPhases \ {"none"}
    BY DEF ExecutionPhases
  <2> QED BY <1>2, <1>4, <2>1, GoesStep
<1>5. CASE Raises(w, s)
  BY <1>2, <1>5, RaisesStep
<1> QED BY <1>2, <1>3, <1>4, <1>5

LEMMA ReportOK ==
  ASSUME AgentInv, NEW w \in Workers, NEW s \in Stages, Report(w, s)
  PROVE  [Next]_vars /\ AgentInv'
<1>1. In(w, s, ExecutionPhases)
  BY InPhases DEF Report, ExecutionPhases
<1>2. "result" \in Requests
  BY DEF Requests
<1>3. \/ complete(s, w, exec[w][s].token, "result") /\ Ends(w, s)
      \/ /\ complete(s, w, exec[w][s].token, "result") \/ UNCHANGED vars
         /\ Goes(w, s, "failing")
  BY DEF Report, CallFails
<1> QED BY <1>1, <1>2, <1>3, ReportedOK

LEMMA ReportFailureOK ==
  ASSUME AgentInv, NEW w \in Workers, NEW s \in Stages, ReportFailure(w, s)
  PROVE  [Next]_vars /\ AgentInv'
<1>1. In(w, s, ExecutionPhases)
  BY InPhases DEF ReportFailure, ExecutionPhases
<1>2. "failed" \in Requests
  BY DEF Requests
<1>3. \/ complete(s, w, exec[w][s].token, "failed") /\ Ends(w, s)
      \/ /\ complete(s, w, exec[w][s].token, "failed") \/ UNCHANGED vars
         /\ Raises(w, s)
  BY DEF ReportFailure, CallFails
<1> QED BY <1>1, <1>2, <1>3, ReportedOK

LEMMA EnvironmentOK ==
  ASSUME AgentInv, Environment
  PROVE  Next /\ AgentInv'
<1>1. Next
  BY DEF Environment, Next, RegistryNext
<1>2. agent' = agent /\ exec' = exec
  BY DEF Environment
<1>3. Inv'
  BY <1>1, NextInv DEF AgentInv
<1>4. ASSUME NEW w \in Workers
      PROVE  ProcessOK(w, agent[w], exec[w], stage', issued')
  BY <1>1, Before
<1> QED BY <1>1, <1>2, <1>3, <1>4 DEF AgentInv

(* Every step of the composed system is a step of the control plane or     *)
(* none, and keeps the invariant.                                          *)
LEMMA AgentNextOK ==
  ASSUME AgentInv, [AgentNext]_agentVars
  PROVE  [Next]_vars /\ AgentInv'
<1>1. ASSUME NEW w \in Workers,
             \/ Boot(w) \/ Signal(w) \/ Crash(w) \/ Loop(w)
             \/ Beat(w) \/ LateBeat(w) \/ LateGrant(w)
      PROVE  [Next]_vars /\ AgentInv'
  BY <1>1, BootOK, SignalOK, EndsOK, BeatOK, LateBeatOK, LateGrantOK,
     BetweenPollsOK, GrantedOK, DrainOK DEF Loop
<1>2. ASSUME NEW w \in Workers, NEW s \in Stages, Execute(w, s) \/ Renew(w, s)
      PROVE  [Next]_vars /\ AgentInv'
  BY <1>2, StartOK, WorkEndsOK, RenewOK, ReportOK, ReportFailureOK DEF Execute
<1>3. CASE Environment
  BY <1>3, EnvironmentOK
<1>4. CASE UNCHANGED agentVars
  <2>1. UNCHANGED vars /\ agent' = agent /\ exec' = exec
    BY <1>4 DEF agentVars, vars
  <2>2. Inv'
    BY <2>1, NextInv DEF AgentInv
  <2>3. stage' = stage /\ issued' = issued
    BY <2>1 DEF vars
  <2> QED BY <2>1, <2>2, <2>3 DEF AgentInv
<1> QED BY <1>1, <1>2, <1>3, <1>4 DEF AgentNext

-----------------------------------------------------------------------------
(* The invariant holds in every state of the composed system. *)
THEOREM AgentInvariance == AgentSpec => []AgentInv
<1>1. AgentInit => AgentInv
  BY AgentInitInv
<1>2. AgentInv /\ [AgentNext]_agentVars => AgentInv'
  BY AgentNextOK
<1> QED BY <1>1, <1>2, PTL DEF AgentSpec

(* The worker processes, with the calls they lose and the deaths they die, *)
(* take only steps of StageScheduler: what is proved of it holds of the    *)
(* whole system.                                                           *)
THEOREM Refinement == AgentSpec => Spec /\ SchedulerSteps
<1>1. AgentInit => Init
  BY DEF AgentInit
<1>2. AgentInv /\ [AgentNext]_agentVars => [Next]_vars
  BY AgentNextOK
<1> QED BY <1>1, <1>2, AgentInvariance, PTL DEF AgentSpec, Spec, SchedulerSteps

(* A process of WorkerService that is alive executes every active stage    *)
(* that it was given, with the lease it was given, for any number of       *)
(* processes and stages and whatever is lost.                              *)
THEOREM Held == AgentSpec => []LeasesAreHeld
<1>1. AgentInv => LeasesAreHeld
  BY DEF AgentInv, ProcessOK, LeasesAreHeld, Live
<1> QED BY <1>1, AgentInvariance, PTL

-----------------------------------------------------------------------------
(* Steps by which no stage succeeds. *)
LEMMA QuietSteps ==
  ASSUME Inv, Inv', NEW z \in Stages,
         \/ UNCHANGED stage
         \/ \E w \in Workers : Poll(w)
         \/ \E w \in Workers, s \in Stages, k \in Nat :
              renew(s, w, k) \/ start(s, w, k) \/ complete(s, w, k, "failed")
         \/ ReconcileEndpoint
         \/ \E t \in Tasks : cancel(t) \/ retry(t)
  PROVE  NotSucceeding(stage[z], stage'[z])
<1>1. stage \in [Stages -> StageRecords]
  BY DEF Inv, TypeOK
<1>2. CASE UNCHANGED stage
  BY <1>2 DEF NotSucceeding
<1>3. ASSUME NEW w \in Workers, Poll(w)
      PROVE  NotSucceeding(stage[z], stage'[z])
  <2>1. PICK granted \in SUBSET Stages : \E device \in [granted -> Devices] :
          lease(w, granted, device)
    BY <1>3 DEF Poll
  <2>2. PICK device \in [granted -> Devices] : lease(w, granted, device)
    BY <2>1
  <2>3. stage'[z].status = "leased" \/ stage'[z] = stage[z]
    BY <2>2, PollGives
  <2> QED BY <2>3 DEF NotSucceeding
<1>4. ASSUME NEW w \in Workers, NEW s \in Stages, NEW k \in Nat,
             renew(s, w, k) \/ start(s, w, k)
      PROVE  NotSucceeding(stage[z], stage'[z])
  BY <1>1, <1>4 DEF renew, start, NotSucceeding, StageRecords
<1>5. ASSUME NEW w \in Workers, NEW s \in Stages, NEW k \in Nat,
             complete(s, w, k, "failed")
      PROVE  NotSucceeding(stage[z], stage'[z])
  <2>1. "failed" \in Requests
    BY DEF Requests
  <2> QED BY <1>5, <2>1, CompleteKeeps DEF NotSucceeding
<1> QED
  BY <1>2, <1>3, <1>4, <1>5, ReconcileEndpointKeeps, TaskOperationKeeps

(* A stage succeeds only by the report of a process that has produced its  *)
(* result, and under the last lease given for the stage: neither a process *)
(* that was restarted nor one whose lease has passed on makes it succeed.  *)
THEOREM Produced == AgentSpec => SuccessIsProduced
<1> DEFINE A == \A s \in Stages :
                  stage[s].status # "succeeded" /\ stage'[s].status = "succeeded" =>
                    \E w \in Workers : /\ exec[w][s].phase = "produced"
                                       /\ exec[w][s].token = Len(issued[s])
<1>1. ASSUME AgentInv, [AgentNext]_agentVars, NEW z \in Stages,
             stage[z].status # "succeeded", stage'[z].status = "succeeded"
      PROVE  \E w \in Workers : /\ exec[w][z].phase = "produced"
                                /\ exec[w][z].token = Len(issued[z])
  <2>1. Inv /\ Inv'
    BY <1>1, AgentNextOK DEF AgentInv
  <2>2. \A w \in Workers, s \in Stages : exec[w][s].token \in Nat
    BY <1>1 DEF AgentInv, Executions
  <2>3. ~NotSucceeding(stage[z], stage'[z])
    BY <1>1 DEF NotSucceeding
  <2>4. PICK w \in Workers, s \in Stages : Report(w, s)
    <3>1. ASSUME NEW w \in Workers,
                 \/ Boot(w) \/ Signal(w) \/ Crash(w) \/ Loop(w)
                 \/ Beat(w) \/ LateBeat(w) \/ LateGrant(w)
          PROVE  UNCHANGED stage \/ Poll(w)
      BY <3>1 DEF Boot, Signal, Crash, Loop, Beat, LateBeat, LateGrant, Ask,
                  Granted, NothingGranted, AskFails, BatchEnds, Drain, Exit,
                  Poll, vars, schedulerVars
    <3>2. ASSUME NEW w \in Workers, NEW s \in Stages,
                 \/ Start(w, s) \/ WorkEnds(w, s)
                 \/ Renew(w, s) \/ ReportFailure(w, s)
          PROVE  \/ UNCHANGED stage
                 \/ renew(s, w, exec[w][s].token)
                 \/ start(s, w, exec[w][s].token)
                 \/ complete(s, w, exec[w][s].token, "failed")
      BY <3>2 DEF Start, WorkEnds, Renew, ReportFailure, CallFails, vars
    <3>3. Environment => \/ UNCHANGED stage \/ ReconcileEndpoint
                         \/ \E t \in Tasks : cancel(t) \/ retry(t)
      BY DEF Environment, schedulerVars
    <3>4. UNCHANGED agentVars => UNCHANGED stage
      BY DEF agentVars
    <3> QED BY <1>1, <2>1, <2>2, <2>3, <3>1, <3>2, <3>3, <3>4, QuietSteps
            DEF AgentNext, Execute
  <2>5. exec[w][s].phase = "produced"
    BY <2>4 DEF Report, In
  <2>6. complete(s, w, exec[w][s].token, "result") \/ UNCHANGED stage
    BY <2>4 DEF Report, CallFails, vars
  <2>7. complete(s, w, exec[w][s].token, "result")
    BY <2>3, <2>6 DEF NotSucceeding
  <2>8. "result" \in Requests
    BY DEF Requests
  <2>9. z = s
    BY <2>1, <2>2, <2>3, <2>7, <2>8, CompleteKeeps
  <2>10. exec[w][s].token = Len(issued[s])
    BY <2>1, <2>7, HolderWasIssued DEF complete, Active, ActiveStatuses
  <2> QED BY <2>5, <2>9, <2>10
<1>2. AgentInv /\ [AgentNext]_agentVars => [A]_agentVars
  BY <1>1
<1> QED BY <1>2, AgentInvariance, PTL DEF AgentSpec, SuccessIsProduced
=============================================================================

----------------------------- MODULE WorkerAgent -----------------------------
(***************************************************************************)
(* The worker process: WorkerService (parser_serve/worker/service.py) with *)
(* its poll, heartbeat and drain loops, and WorkerAgent                    *)
(* (parser_serve/worker/agent.py), which executes a batch of leased stages *)
(* side by side, composed with the control plane of StageScheduler.        *)
(*                                                                         *)
(* A call over HTTP is answered, refused, or fails without an answer,      *)
(* whether or not it has been handled.  An exception that a loop does not  *)
(* catch ends the process: its TaskGroup cancels the other loops.  What a  *)
(* process was executing is then left to the expiry of its leases.         *)
(* Two calls may reach the control plane after their process has ended: a  *)
(* heartbeat, and a poll that the server still keeps waiting for work.     *)
(***************************************************************************)
EXTENDS StageScheduler

CONSTANTS
  Faults    \* what may go wrong: "crash", "lost" calls, "unhealthy" probes

ASSUME FaultsAssumption == Faults \subseteq {"crash", "lost", "unhealthy"}

(* The requests of WorkerService are among those of WorkerRegistry. *)
ASSUME RequestsAssumption ==
  /\ [enabled |-> "keep", draining |-> "yes", maximum_concurrency |-> 0] \in Updates
  /\ {"online", "busy", "unhealthy"} \subseteq ReportedStatuses

VARIABLES
  agent,    \* the process of each worker
  exec      \* exec[w][s]: what the process of w does with stage s

agentVars == <<worker, now, stage, task, issued, event, agent, exec>>

(* idle: between two polls; asking: a poll is out; executing: a batch is;  *)
(* raising: run_once has raised, the loop of events still runs.            *)
ProcessPhases == {"down", "idle", "asking", "executing", "raising"}

ExecutionPhases == {"none", "leased", "working", "produced", "failing"}

(* given: the last lease of each stage that the process was given; late:   *)
(* the sequence of a heartbeat of an earlier process that is still under   *)
(* way, or -1; waiting: a poll of an earlier process is.                   *)
Processes ==
  [phase : ProcessPhases, slots : Nat, stop : BOOLEAN, drained : BOOLEAN,
   sequence : Nat, given : [Stages -> Nat],
   late : Nat \cup {-1}, waiting : BOOLEAN]

Executions == [phase : ExecutionPhases, token : Nat]

Down(late, waiting) ==
  [phase |-> "down", slots |-> 0, stop |-> FALSE, drained |-> FALSE,
   sequence |-> 0, given |-> [s \in Stages |-> NoToken],
   late |-> late, waiting |-> waiting]

NoExecution == [phase |-> "none", token |-> NoToken]

Live(w) == agent[w].phase \in {"idle", "asking", "executing"}

Executing(w) == \E s \in Stages : exec[w][s].phase # "none"

-----------------------------------------------------------------------------
(* What becomes of an execution and of the process. *)

Goes(w, s, phase) ==
  exec' = [exec EXCEPT ![w][s].phase = phase] /\ UNCHANGED agent

Ends(w, s) == exec' = [exec EXCEPT ![w][s] = NoExecution] /\ UNCHANGED agent

(* gather passes on the first exception and leaves the other executions of *)
(* the batch to themselves.                                                *)
Raises(w, s) ==
  /\ exec' = [exec EXCEPT ![w][s] = NoExecution]
  /\ agent' = [agent EXCEPT ![w].phase = "raising"]

Dies(w, late, waiting) ==
  /\ agent' = [agent EXCEPT ![w] = Down(late, waiting)]
  /\ exec' = [exec EXCEPT ![w] = [s \in Stages |-> NoExecution]]

(* The process ends and leaves its poll behind, if one is out. *)
Abandons(w, late) ==
  Dies(w, late, agent[w].waiting \/ agent[w].phase = "asking")

(* It ends and no poll of it is out. *)
Quits(w) == Dies(w, agent[w].late, agent[w].waiting)

Lost == "lost" \in Faults

(* A call that ends in an exception: refused, or without an answer. *)
CallFails(call, accepted) ==
  \/ Lost /\ call
  \/ (Lost \/ ~accepted) /\ UNCHANGED vars

-----------------------------------------------------------------------------
(* The loops of WorkerService. *)

(* run: a process starts and registers; a disabled worker is rejected. *)
Boot(w) ==
  /\ agent[w].phase = "down"
  /\ \E slots \in Concurrencies :
       /\ register(w, slots)
       /\ \/ /\ worker'[w].enabled
             /\ agent' = [agent EXCEPT ![w].phase = "idle", ![w].slots = slots]
          \/ /\ Lost \/ ~worker'[w].enabled
             /\ UNCHANGED agent
  /\ UNCHANGED <<schedulerVars, exec>>

(* SIGTERM or SIGINT sets the stop event. *)
Signal(w) ==
  /\ Live(w) /\ ~agent[w].stop
  /\ agent' = [agent EXCEPT ![w].stop = TRUE]
  /\ UNCHANGED <<vars, exec>>

(* Definitions named X_... are faulty variants of X: the mutants that show *)
(* each property can fail.                                                 *)
DrainRequest_disables ==
  [enabled |-> "no", draining |-> "yes", maximum_concurrency |-> 0]

DrainRequest ==
  [enabled |-> "keep", draining |-> "yes", maximum_concurrency |-> 0]

(* _drain_on_stop: the process goes on when the notification fails. *)
Drain(w) ==
  /\ Live(w) /\ agent[w].stop /\ ~agent[w].drained
  /\ \/ update(w, DrainRequest) /\ UNCHANGED schedulerVars
     \/ Lost /\ UNCHANGED vars
  /\ agent' = [agent EXCEPT ![w].drained = TRUE]
  /\ UNCHANGED exec

(* The reply to an accepted heartbeat is made from the row that it has     *)
(* just written.                                                           *)
AfterBeat(w, healthy) ==
  LET row == worker'[w]
  IN IF ~healthy \/ row.status = "draining" \/ ~row.enabled
       THEN [agent[w] EXCEPT !.stop = TRUE]
       ELSE [agent[w] EXCEPT !.sequence = @ + 1]

BeatStatus(w, healthy) ==
  IF ~healthy THEN "unhealthy" ELSE IF Executing(w) THEN "busy" ELSE "online"

(* One round of _heartbeat_loop.  A heartbeat that fails ends the process  *)
(* and may still arrive.                                                   *)
Beat(w) ==
  \E healthy \in {TRUE} \cup {"unhealthy" \notin Faults} :
    LET n    == agent[w].sequence
        send == /\ heartbeat(w, n, BeatStatus(w, healthy))
                /\ UNCHANGED schedulerVars
    IN /\ Live(w) /\ ~agent[w].stop /\ n <= MaxSequence
       /\ \/ /\ send
             /\ agent' = [agent EXCEPT ![w] = AfterBeat(w, healthy)]
             /\ UNCHANGED exec
          \/ Lost /\ send /\ Abandons(w, agent[w].late)
          \/ Lost /\ UNCHANGED vars /\ Abandons(w, n)
          \/ /\ n <= worker[w].sequence /\ UNCHANGED vars
             /\ Abandons(w, agent[w].late)

(* The heartbeat of an earlier process arrives; it is refused if it is not *)
(* newer than the last one.                                                *)
LateBeat(w) ==
  /\ agent[w].late # -1
  /\ agent' = [agent EXCEPT ![w].late = -1]
  /\ \/ \E status \in {"online", "busy", "unhealthy"} :
          heartbeat(w, agent[w].late, status) /\ UNCHANGED schedulerVars
     \/ agent[w].late <= worker[w].sequence /\ UNCHANGED vars
  /\ UNCHANGED exec

(* _poll_loop and run_once. *)
Ask_ignores_stop(w) ==
  /\ agent[w].phase = "idle"
  /\ agent' = [agent EXCEPT ![w].phase = "asking"]
  /\ UNCHANGED <<vars, exec>>

Ask(w) ==
  /\ agent[w].phase = "idle" /\ ~agent[w].stop
  /\ agent' = [agent EXCEPT ![w].phase = "asking"]
  /\ UNCHANGED <<vars, exec>>

Given(w, granted) ==
  [s \in Stages |-> IF s \in granted THEN Len(issued[s]) + 1
                                     ELSE agent[w].given[s]]

Batch(granted) ==
  [s \in Stages |-> IF s \in granted
                      THEN [phase |-> "leased", token |-> Len(issued[s]) + 1]
                      ELSE NoExecution]

Granted(w) ==
  /\ agent[w].phase = "asking"
  /\ \E granted \in SUBSET Stages : \E device \in [granted -> Devices] :
       /\ Cardinality(granted) <= agent[w].slots
       /\ lease(w, granted, device)
       /\ \/ /\ agent' = [agent EXCEPT ![w].phase = "executing",
                                       ![w].given = Given(w, granted)]
             /\ exec' = [exec EXCEPT ![w] = Batch(granted)]
          \/ Lost /\ Quits(w)

(* The poll of an earlier process is given stages nobody will execute. *)
LateGrant(w) ==
  /\ agent[w].waiting
  /\ Poll(w)
  /\ agent' = [agent EXCEPT ![w].waiting = FALSE]
  /\ UNCHANGED exec

NothingGranted(w) ==
  /\ agent[w].phase = "asking" /\ AcceptsLeases(worker[w])
  /\ agent' = [agent EXCEPT ![w].phase = "idle"]
  /\ UNCHANGED <<vars, exec>>

(* A worker that is draining, offline or unhealthy is refused. *)
AskFails(w) ==
  /\ agent[w].phase = "asking"
  /\ \/ Lost /\ Abandons(w, agent[w].late)
     \/ ~AcceptsLeases(worker[w]) /\ Quits(w)
  /\ UNCHANGED vars

BatchEnds(w) ==
  /\ agent[w].phase = "executing" /\ ~Executing(w)
  /\ agent' = [agent EXCEPT ![w].phase = "idle"]
  /\ UNCHANGED <<vars, exec>>

(* All loops have ended, or the process ends after an exception. *)
Exit(w) ==
  /\ \/ agent[w].phase = "idle" /\ agent[w].stop /\ agent[w].drained
     \/ agent[w].phase = "raising"
  /\ Quits(w)
  /\ UNCHANGED vars

Crash(w) ==
  /\ "crash" \in Faults /\ agent[w].phase # "down"
  /\ Abandons(w, agent[w].late)
  /\ UNCHANGED vars

-----------------------------------------------------------------------------
(* _execute: the execution of stage s under the token it was leased with.  *)

In(w, s, phases) ==
  agent[w].phase \in {"executing", "raising"} /\ exec[w][s].phase \in phases

Holds(w, s) == RequireValidLease(s, w, exec[w][s].token)

Start(w, s) ==
  LET call == start(s, w, exec[w][s].token)
  IN /\ In(w, s, {"leased"})
     /\ \/ call /\ Goes(w, s, "working")
        \/ /\ CallFails(call, Holds(w, s) /\ stage[s].status = "leased")
           /\ Raises(w, s)

(* authorize_artifact_upload *)
MayUpload(w, s) == Holds(w, s) /\ Active(stage[s])

(* _produce_result_uri: a result has been uploaded, under a valid lease;   *)
(* or the source, the backend, its timeout, a report of the progress or    *)
(* the upload has failed.                                                  *)
WorkEnds(w, s) ==
  /\ In(w, s, {"working"})
  /\ \/ MayUpload(w, s) /\ Goes(w, s, "produced")
     \/ Goes(w, s, "failing")
  /\ UNCHANGED vars

(* _renew_loop runs until the report, and the last renewal may be handled  *)
(* though it has been cancelled; one that fails cancels the work, and is   *)
(* overlooked once the work has ended.                                     *)
Renew(w, s) ==
  LET call == renew(s, w, exec[w][s].token)
  IN \/ /\ In(w, s, {"working", "produced", "failing"})
        /\ call /\ UNCHANGED <<agent, exec>>
     \/ /\ In(w, s, {"working"})
        /\ CallFails(call, Holds(w, s) /\ Active(stage[s]))
        /\ Goes(w, s, "failing")

CanComplete(w, s) ==
  /\ stage[s].completion = NoCompletion
  /\ Holds(w, s) /\ stage[s].status = "running"

Report_before_work(w, s) ==
  LET call == complete(s, w, exec[w][s].token, "result")
  IN /\ In(w, s, {"working", "produced"})
     /\ \/ call /\ Ends(w, s)
        \/ CallFails(call, CanComplete(w, s)) /\ Goes(w, s, "failing")

Report_swallows(w, s) ==
  LET call == complete(s, w, exec[w][s].token, "result")
  IN /\ In(w, s, {"produced"})
     /\ \/ call /\ Ends(w, s)
        \/ CallFails(call, CanComplete(w, s)) /\ Ends(w, s)

(* The result is reported; when that fails the stage is to be reported as  *)
(* failed ...                                                              *)
Report(w, s) ==
  LET call == complete(s, w, exec[w][s].token, "result")
  IN /\ In(w, s, {"produced"})
     /\ \/ call /\ Ends(w, s)
        \/ CallFails(call, CanComplete(w, s)) /\ Goes(w, s, "failing")

(* ... and when this fails as well, execute raises. *)
ReportFailure(w, s) ==
  LET call == complete(s, w, exec[w][s].token, "failed")
  IN /\ In(w, s, {"failing"})
     /\ \/ call /\ Ends(w, s)
        \/ CallFails(call, CanComplete(w, s)) /\ Raises(w, s)

-----------------------------------------------------------------------------
AgentInit ==
  /\ Init
  /\ agent = [w \in Workers |-> Down(-1, FALSE)]
  /\ exec = [w \in Workers |-> [s \in Stages |-> NoExecution]]

Loop(w) ==
  \/ Ask(w) \/ Granted(w) \/ NothingGranted(w) \/ AskFails(w)
  \/ BatchEnds(w) \/ Drain(w) \/ Exit(w)

Execute(w, s) == Start(w, s) \/ WorkEnds(w, s) \/ Report(w, s) \/ ReportFailure(w, s)

(* Administrators, users, the reconcile endpoint and the clock. *)
Environment ==
  /\ \/ \E w \in Workers, u \in Updates : update(w, u) /\ UNCHANGED schedulerVars
     \/ Tick /\ UNCHANGED schedulerVars
     \/ ReconcileEndpoint
     \/ \E t \in Tasks : cancel(t) \/ retry(t)
  /\ UNCHANGED <<agent, exec>>

AgentNext ==
  \/ \E w \in Workers :
       Boot(w) \/ Signal(w) \/ Crash(w) \/ Loop(w)
       \/ Beat(w) \/ LateBeat(w) \/ LateGrant(w)
  \/ \E w \in Workers, s \in Stages : Execute(w, s) \/ Renew(w, s)
  \/ Environment

AgentSpec == AgentInit /\ [][AgentNext]_agentVars

(* A process that has something to do does something: requests and         *)
(* backends are under timeouts.                                            *)
Proceed(w) == Loop(w) \/ \E s \in Stages : Execute(w, s)

AgentFairSpec ==
  AgentSpec /\ \A w \in Workers : WF_agentVars(Proceed(w))

-----------------------------------------------------------------------------
(* The worker processes are among the callers of StageScheduler, which may *)
(* present any lease at any time: every step of theirs is a step of it or  *)
(* none, so that what it guarantees holds with them.                       *)
SchedulerSteps == [][Next]_vars

(* A process that is alive forgets no lease: every stage that the control  *)
(* plane holds active under the lease that this process was given last is  *)
(* being executed, with that lease.  In particular none is left when it    *)
(* polls again or ends after a drain, though calls are lost.               *)
LeasesAreHeld ==
  \A w \in Workers, s \in Stages :
    Live(w) /\ Active(stage[s]) /\ stage[s].worker = w
      /\ stage[s].token = agent[w].given[s]
      => exec[w][s].phase # "none" /\ exec[w][s].token = stage[s].token

(* A stage succeeds only by an execution that has produced its result      *)
(* under the last lease given for the stage.                               *)
SuccessIsProduced ==
  [][\A s \in Stages :
       stage[s].status # "succeeded" /\ stage'[s].status = "succeeded" =>
         \E w \in Workers : /\ exec[w][s].phase = "produced"
                            /\ exec[w][s].token = Len(issued[s])]_agentVars

(* A process that is told to stop ends: its batch comes to an end, whether *)
(* or not the control plane learns of the drain.                           *)
StoppedProcessesEnd ==
  \A w \in Workers : agent[w].stop ~> agent[w].phase = "down"

(* A process that is told to stop ends only when the executions and        *)
(* reports of its current batch have ended, when nothing is lost.  The     *)
(* code does not keep to it: a call about one stage that is refused ends   *)
(* the process.                                                            *)
BatchesAreFinished ==
  [][\A w \in Workers :
       agent[w].stop /\ agent'[w].phase = "down" => ~Executing(w)]_agentVars
=============================================================================

----------------------------- MODULE LeasePolling -----------------------------
(***************************************************************************)
(* How a stage that has become available finds a worker: the long poll of  *)
(* lease_stages (parser_serve/api/routes/workers.py), the notices that end *)
(* its wait (parser_serve/queue) and the ranking that leaves a stage to    *)
(* the worker it prefers (LeaseRanking).                                   *)
(*                                                                         *)
(* A worker polls, executes all it was given and polls again.  It is known *)
(* by its row: a process that has died is taken for alive, and may be the  *)
(* preferred one, until it is marked offline.  Notices go through a stream *)
(* that may be out of reach; the handler publishes after its commit.       *)
(***************************************************************************)
EXTENDS LeaseRanking

CONSTANTS
  Priority,     \* the stages in the order in which lease takes them
  Loads,        \* what a heartbeat may bring: cpu, and the usage of each device
  FirstLoad,    \* the load that a worker registers with
  MaxUpsets     \* bound: heartbeats that bring another load, processes that
                \* die and calls to the stream of notices that fail

ASSUME PollingAssumption ==
  /\ Loads \subseteq [cpu : 0..100, usage : [Devices -> Usages]]
  /\ FirstLoad \in Loads /\ MaxUpsets \in Nat

VARIABLES
  stage,    \* status, worker, device;  due: its notice is still to be sent;
            \* notice: the position of its last notice, 0 if it has none
  worker,   \* accepting, load: the row;  alive: the process;  phase, cursor,
            \* seen: its poll, and the stages that were pending at its first try
  stream,   \* notices published so far
  upsets

vars == <<stage, worker, stream, upsets>>

NoWorker == 0
NoDevice == 0
NoCursor == -1

StageRows ==
  [status : {"none", "pending", "leased", "done"},
   worker : Workers \cup {NoWorker}, device : Devices \cup {NoDevice},
   due : BOOLEAN, notice : Nat]

WorkerRows ==
  [accepting : BOOLEAN, load : Loads, alive : BOOLEAN,
   phase : {"idle", "asked", "tried", "waiting", "again", "working"},
   cursor : Nat \cup {NoCursor}, seen : SUBSET Stages]

Pending == {s \in Stages : stage[s].status = "pending"}
Leased(w) == {s \in Stages : stage[s].status = "leased" /\ stage[s].worker = w}

Fleet ==
  [accepting |-> {w \in Workers : worker[w].accepting},
   active |-> [w \in Workers |-> Cardinality(Leased(w))],
   cpu |-> [w \in Workers |-> worker[w].load.cpu],
   usage |-> [d \in Devices |->
     worker[CHOOSE w \in Workers : d \in DevicesOf[w]].load.usage[d]],
   reserved |-> [d \in Devices |->
     Cardinality({s \in Stages : stage[s].status = "leased" /\ stage[s].device = d})]]

Upset == upsets < MaxUpsets /\ upsets' = upsets + 1

-----------------------------------------------------------------------------
(* A task is created or routed, or the stages before it are done: the      *)
(* transaction that makes a stage available is committed ...               *)
MakeAvailable(s) ==
  /\ stage[s].status = "none"
  /\ stage' = [stage EXCEPT ![s].status = "pending", ![s].due = TRUE]
  /\ UNCHANGED <<worker, stream, upsets>>

(* ... and its notice follows, or is lost.                                 *)
Publish(s) ==
  /\ stage[s].due
  /\ stream' = stream + 1
  /\ stage' = [stage EXCEPT ![s].due = FALSE, ![s].notice = stream + 1]
  /\ UNCHANGED <<worker, upsets>>

PublishFails(s) ==
  /\ stage[s].due
  /\ Upset
  /\ stage' = [stage EXCEPT ![s].due = FALSE]
  /\ UNCHANGED <<worker, stream>>

-----------------------------------------------------------------------------
(* A poll: first the position of the stream ...                            *)
Snapshot(w) ==
  /\ worker[w].alive /\ worker[w].accepting /\ worker[w].phase = "idle"
  /\ worker' = [worker EXCEPT ![w].phase = "asked", ![w].cursor = stream]
  /\ UNCHANGED <<stage, stream, upsets>>

SnapshotFails(w) ==
  /\ worker[w].alive /\ worker[w].accepting /\ worker[w].phase = "idle"
  /\ Upset
  /\ worker' = [worker EXCEPT ![w].phase = "asked", ![w].cursor = NoCursor]
  /\ UNCHANGED <<stage, stream>>

(* What one transaction of lease hands out, stage after stage: each lease  *)
(* counts when the next stage is judged.                                   *)
lease(w) ==
  LET given[n \in 0..Len(Priority)] ==
        IF n = 0 THEN [fleet |-> Fleet, leases |-> {}]
        ELSE LET before == given[n - 1]
                 s == Priority[n]
                 offers == IF s \in Pending THEN Admission(before.fleet, s, w) ELSE {}
             IN IF offers = {} THEN before
                ELSE LET offer == CHOOSE o \in offers : TRUE
                     IN [fleet |-> [before.fleet EXCEPT !.active[w] = @ + 1,
                                                        !.reserved[offer[3]] = @ + 1],
                         leases |-> before.leases \cup {<<s, offer[3]>>}]
  IN IF worker[w].accepting THEN given[Len(Priority)].leases ELSE {}

HandedOut(w, leases) ==
  [s \in Stages |->
     IF \E d \in Devices : <<s, d>> \in leases
     THEN [stage[s] EXCEPT !.status = "leased", !.worker = w,
             !.device = CHOOSE d \in Devices : <<s, d>> \in leases]
     ELSE stage[s]]

Answered(w, leases) ==
  [worker EXCEPT ![w].phase = IF leases # {} THEN "working" ELSE "idle",
                 ![w].seen = {}, ![w].cursor = NoCursor]

(* ... then the first try; a poll that got nothing and knows the position  *)
(* is going to wait ...                                                    *)
TryLease(w) ==
  /\ worker[w].phase = "asked"
  /\ \E leases \in {lease(w)} :
       /\ stage' = HandedOut(w, leases)
       /\ worker' =
            IF leases = {} /\ worker[w].cursor # NoCursor
            THEN [worker EXCEPT ![w].phase = "tried", ![w].seen = Pending]
            ELSE Answered(w, leases)
  /\ UNCHANGED <<stream, upsets>>

Wait_snapshots_late(w) ==
  /\ worker[w].phase = "tried"
  /\ worker' = [worker EXCEPT ![w].phase = "waiting", ![w].cursor = stream]
  /\ UNCHANGED <<stage, stream, upsets>>
Wait(w) ==
  /\ worker[w].phase = "tried"
  /\ worker' = [worker EXCEPT ![w].phase = "waiting"]
  /\ UNCHANGED <<stage, stream, upsets>>

(* ... until there is a newer notice, the time is up or the stream fails:  *)
(* the position is not read after that;                                    *)
Wake(w) ==
  /\ worker[w].phase = "waiting" /\ stream > worker[w].cursor
  /\ worker' = [worker EXCEPT ![w].phase = "again", ![w].seen = {},
                             ![w].cursor = NoCursor]
  /\ UNCHANGED <<stage, stream, upsets>>

WaitEnds(w) ==
  /\ worker[w].phase = "waiting" /\ stream <= worker[w].cursor
  /\ worker' = [worker EXCEPT ![w].phase = "again", ![w].seen = {},
                             ![w].cursor = NoCursor]
  /\ UNCHANGED <<stage, stream, upsets>>

(* and a second and last try.                                              *)
TryAgain(w) ==
  /\ worker[w].phase = "again"
  /\ \E leases \in {lease(w)} :
       /\ stage' = HandedOut(w, leases)
       /\ worker' = Answered(w, leases)
  /\ UNCHANGED <<stream, upsets>>

-----------------------------------------------------------------------------
(* The process executes its batch and polls again when all of it is done.  *)
Finish(w, s) ==
  /\ worker[w].alive /\ worker[w].phase = "working" /\ s \in Leased(w)
  /\ stage' = [stage EXCEPT ![s].status = "done"]
  /\ worker' = IF Leased(w) = {s}
               THEN [worker EXCEPT ![w].phase = "idle"] ELSE worker
  /\ UNCHANGED <<stream, upsets>>

(* A heartbeat with another load.                                          *)
Report(w) ==
  /\ worker[w].alive
  /\ Upset
  /\ \E load \in Loads \ {worker[w].load} : worker' = [worker EXCEPT ![w].load = load]
  /\ UNCHANGED <<stage, stream>>

(* A process dies; the poll that it has sent goes on without it.           *)
Die(w) ==
  /\ worker[w].alive
  /\ Upset
  /\ worker' = [worker EXCEPT ![w].alive = FALSE]
  /\ UNCHANGED <<stage, stream>>

(* Its heartbeat is overdue ...                                            *)
MarkOffline(w) ==
  /\ ~worker[w].alive /\ worker[w].accepting
  /\ worker' = [worker EXCEPT ![w].accepting = FALSE]
  /\ UNCHANGED <<stage, stream, upsets>>

(* ... and its leases run out: requeue_expired, which publishes a notice.  *)
Requeue(s) ==
  /\ stage[s].status = "leased" /\ ~worker[stage[s].worker].alive
  /\ stage' = [stage EXCEPT ![s].status = "pending", ![s].worker = NoWorker,
                            ![s].device = NoDevice, ![s].due = TRUE,
                            ![s].notice = 0]
  /\ UNCHANGED <<worker, stream, upsets>>

-----------------------------------------------------------------------------
Init ==
  /\ stage = [s \in Stages |-> [status |-> "none", worker |-> NoWorker,
                device |-> NoDevice, due |-> FALSE, notice |-> 0]]
  /\ worker = [w \in Workers |-> [accepting |-> TRUE, load |-> FirstLoad,
                 alive |-> TRUE, phase |-> "idle", cursor |-> NoCursor,
                 seen |-> {}]]
  /\ stream = 0 /\ upsets = 0

Next ==
  \/ \E s \in Stages : MakeAvailable(s) \/ Publish(s) \/ PublishFails(s) \/ Requeue(s)
  \/ \E w \in Workers :
       \/ Snapshot(w) \/ SnapshotFails(w) \/ TryLease(w) \/ Wait(w)
       \/ Wake(w) \/ WaitEnds(w) \/ TryAgain(w)
       \/ Report(w) \/ Die(w) \/ MarkOffline(w)
       \/ \E s \in Stages : Finish(w, s)

(* Worker processes poll for ever, a wait ends, a batch comes to its end   *)
(* and the reconcile endpoint is called.  Both tries of a poll come to     *)
(* their answer: they are possible until they are taken, so that this is   *)
(* their weak fairness (TLC need not rank the fleet to find them enabled). *)
PollStep(w) == Snapshot(w) \/ Wait(w) \/ Wake(w) \/ WaitEnds(w)

PollsAreAnswered(w) == []<>(worker[w].phase \notin {"asked", "again"})

Spec == Init /\ [][Next]_vars

FairSpec ==
  /\ Spec
  /\ \A w \in Workers : /\ WF_vars(PollStep(w)) /\ PollsAreAnswered(w)
                        /\ WF_vars(MarkOffline(w))
                        /\ WF_vars(\E s \in Stages : Finish(w, s))
  /\ \A s \in Stages : WF_vars(Requeue(s))

-----------------------------------------------------------------------------
TypeOK ==
  /\ stage \in [Stages -> StageRows]
  /\ worker \in [Workers -> WorkerRows]
  /\ Fleet \in Fleets
  /\ {stream, upsets} \subseteq Nat

(* Nobody waits for everybody: a pending stage that some worker could take *)
(* is admitted to one of them, and to one only, and that worker has a      *)
(* device for it.  The ranking, the choice of a backend and the choice of  *)
(* a device judge the same devices in three places of scheduler.py.        *)
SomeoneIsAdmitted ==
  \A s \in Pending :
    Ranked(Fleet, s) # {} =>
      Cardinality({w \in Workers : Admission(Fleet, s, w) # {}}) = 1

(* No lost wake-up: a stage that became available after the first try of a *)
(* poll, and whose notice has reached the stream, ends the poll's wait.    *)
NoSleepOverWork ==
  \A w \in Workers, s \in Pending :
    worker[w].phase \in {"tried", "waiting"} /\ s \notin worker[w].seen
      /\ stage[s].notice > 0
    => stage[s].notice > worker[w].cursor

(* A stage that is available is done in the end, as long as a live process *)
(* could take it, though notices are lost, the preferred worker dies and   *)
(* polls outlive their processes.                                          *)
Takers(s) ==
  {w \in Workers : /\ worker[w].alive /\ HasLabels(s, w)
                   /\ _select_backend(Fleet, s, w) # {}}

AvailableStagesAreDone ==
  \A s \in Stages :
    stage[s].status = "pending" ~> stage[s].status = "done" \/ Takers(s) = {}
=============================================================================

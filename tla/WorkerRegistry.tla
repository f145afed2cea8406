--------------------------- MODULE WorkerRegistry ---------------------------
(***************************************************************************)
(* The worker rows of the database and the operations of WorkerRepository  *)
(* (parser_serve/persistence/workers.py): registration, heartbeats, the    *)
(* administrator's updates, and the sweep that marks silent workers        *)
(* offline.  Devices, backends, labels, resources and the scheduling       *)
(* weight are data no rule of this module reads and are left out.          *)
(***************************************************************************)
EXTENDS Integers, FiniteSets

CONSTANTS
  Workers,            \* worker identifiers
  Concurrencies,      \* values of maximum_concurrency a request may carry
  ReportedStatuses,   \* statuses a heartbeat may carry
  Updates,            \* management updates (UpdateWorkerRequest)
  OfflineAfter,       \* worker_offline_after_seconds
  MaxSequence,        \* bound: highest heartbeat sequence number
  MaxTime             \* bound: last value of the clock

WorkerStatuses == {"online", "busy", "draining", "offline", "unhealthy"}

(* "unregistered" stands for the absence of the row. *)
WorkerRecords ==
  [status : WorkerStatuses \cup {"unregistered"}, enabled : BOOLEAN,
   maximum_concurrency : Nat, sequence : Nat \cup {-1}, last_heartbeat : Nat]

(* A field that a management update leaves alone is "keep" (0 for a number). *)
Choices == {"keep", "yes", "no"}

ASSUME ConcurrenciesAssumption == Concurrencies \subseteq Nat \ {0}
ASSUME ReportedAssumption == ReportedStatuses \subseteq WorkerStatuses
ASSUME UpdatesAssumption ==
  Updates \subseteq [enabled : Choices, draining : Choices,
                     maximum_concurrency : Concurrencies \cup {0}]
ASSUME WorkerTimesAssumption ==
  OfflineAfter \in Nat /\ MaxSequence \in Nat \cup {-1} /\ MaxTime \in Nat

VARIABLES
  worker,   \* worker row of each worker identifier
  now       \* the clock of the control plane

registryVars == <<worker, now>>

Registered(w) == worker[w].status # "unregistered"

-----------------------------------------------------------------------------
(* What each operation makes of a worker row. *)

RegisteredRecord(r, concurrency) ==
  LET enabled == r.status = "unregistered" \/ r.enabled
  IN [status |-> IF enabled THEN "online" ELSE "offline",
      enabled |-> enabled,
      maximum_concurrency |-> concurrency,
      sequence |-> -1,
      last_heartbeat |-> now]

(* Definitions named X_... are faulty variants of X: the mutants that show *)
(* each property can fail.                                                 *)
HeartbeatRecord_reenables(r, sequence, status) ==
  [r EXCEPT !.status = status, !.sequence = sequence, !.last_heartbeat = now]

HeartbeatRecord(r, sequence, status) ==
  [r EXCEPT !.status = IF r.enabled THEN status ELSE "offline",
            !.sequence = sequence,
            !.last_heartbeat = now]

(* update.enabled is applied before update.draining: the status that the   *)
(* first leaves is the one that the second tests.                          *)
EnabledStatus(r, u) ==
  CASE u.enabled = "no"                             -> "offline"
    [] u.enabled = "yes" /\ r.status = "offline"    -> "online"
    [] OTHER                                        -> r.status

UpdatedRecord(r, u) ==
  LET enabled == IF u.enabled = "keep" THEN r.enabled ELSE u.enabled = "yes"
      status  == EnabledStatus(r, u)
  IN [r EXCEPT
        !.enabled = enabled,
        !.status = CASE u.draining = "yes" -> "draining"
                     [] u.draining = "no" /\ enabled /\ status = "draining"
                                             -> "online"
                     [] OTHER                -> status,
        !.maximum_concurrency = IF u.maximum_concurrency = 0
                                  THEN r.maximum_concurrency
                                  ELSE u.maximum_concurrency]

Late(r) ==
  r.status \in {"online", "busy"} /\ r.last_heartbeat < now - OfflineAfter

(* Every worker row after the sweep. *)
OfflineSweep ==
  [w \in Workers |-> IF Late(worker[w])
                       THEN [worker[w] EXCEPT !.status = "offline"]
                       ELSE worker[w]]

-----------------------------------------------------------------------------
RegistryInit ==
  /\ worker = [w \in Workers |->
                 [status |-> "unregistered", enabled |-> FALSE,
                  maximum_concurrency |-> 0, sequence |-> -1,
                  last_heartbeat |-> 0]]
  /\ now = 0

register(w, concurrency) ==
  /\ worker' = [worker EXCEPT ![w] = RegisteredRecord(worker[w], concurrency)]
  /\ UNCHANGED now

(* A heartbeat whose sequence number does not increase is refused. *)
heartbeat(w, sequence, status) ==
  /\ Registered(w)
  /\ sequence > worker[w].sequence
  /\ worker' = [worker EXCEPT
                  ![w] = HeartbeatRecord(worker[w], sequence, status)]
  /\ UNCHANGED now

update(w, u) ==
  /\ Registered(w)
  /\ worker' = [worker EXCEPT ![w] = UpdatedRecord(worker[w], u)]
  /\ UNCHANGED now

Tick ==
  /\ now < MaxTime
  /\ now' = now + 1
  /\ UNCHANGED worker

RegistryNext ==
  \/ \E w \in Workers, c \in Concurrencies : register(w, c)
  \/ \E w \in Workers, q \in 0..MaxSequence, st \in ReportedStatuses :
        heartbeat(w, q, st)
  \/ \E w \in Workers, u \in Updates : update(w, u)
  \/ Tick

(* A disabled worker stays out whatever it or the sweep does: neither its  *)
(* heartbeats, nor registering again, nor becoming idle, nor an end of the *)
(* drain brings its row back to a status that is given leases.             *)
DisabledWorkersStayOut ==
  \A w \in Workers :
    Registered(w) /\ ~worker[w].enabled =>
      worker[w].status \in {"offline", "draining"}

RegistryTypeOK == worker \in [Workers -> WorkerRecords] /\ now \in Nat
=============================================================================

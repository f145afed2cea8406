----------------------------- MODULE LeaseRanking -----------------------------
(***************************************************************************)
(* The admission decision of StageScheduler.lease                          *)
(* (parser_serve/control/scheduler.py): which backend, runtime and device  *)
(* a worker would run a stage with, and whether it is the worker that the  *)
(* ranking prefers.  A worker that is not preferred leaves the stage to    *)
(* the one that is.                                                        *)
(*                                                                         *)
(* The decision reads a fleet: who may be given work, how many stages each *)
(* holds, and the load that the last heartbeats have reported.  Loads are  *)
(* percentages; the code's fractions of them are products here.  A MIME    *)
(* type or media category that a capability covers is one backend less or  *)
(* more in Capable.                                                        *)
(***************************************************************************)
EXTENDS Integers, Sequences, FiniteSets, FiniteSetsExt

CONSTANTS
  Workers,           \* worker ids: numbers, in the order of worker_id
  Stages,
  Devices,           \* device ids: numbers
  DevicesOf,         \* the devices of a worker
  RuntimeOf,         \* the runtime of a device
  MemoryOf,          \* its total memory, 0 if unknown
  MaximumMemory,     \* maximum_device_memory_utilization_percent
  Weight,            \* scheduling_weight of a worker
  MaximumConcurrency,
  Labels,            \* labels of a worker
  WantedLabels,      \* labels that the task of a stage asks for
  MinimumMemory,     \* minimum_memory_bytes of the task of a stage, 0 if none
  Candidates,        \* backends of a stage, the first one preferred
  Runtimes,          \* required_runtimes of a stage, the first one preferred
  BackendRuntimes,   \* runtimes of an enabled backend
  Capable            \* pairs <<backend, runtime>> that a worker has announced

(* The limits of scheduling_weight and maximum_concurrency are those of    *)
(* WorkerDetail; each device is a worker's.                                *)
ASSUME FleetAssumption ==
  /\ Workers \subseteq Nat \ {0} /\ Devices \subseteq Nat \ {0}
  /\ IsFiniteSet(Stages)
  /\ DevicesOf \in [Workers -> SUBSET Devices]
  /\ \A d \in Devices : \E w \in Workers : d \in DevicesOf[w]
  /\ MemoryOf \in [Devices -> Nat] /\ MaximumMemory \in Nat
  /\ Weight \in [Workers -> 1..1000]
  /\ MaximumConcurrency \in [Workers -> Nat \ {0}]

ASSUME StagesAssumption ==
  /\ MinimumMemory \in [Stages -> Nat]
  /\ \A s \in Stages : /\ DOMAIN Candidates[s] \subseteq Nat
                       /\ DOMAIN Runtimes[s] \subseteq Nat

Usages == [used : Nat, utilization : 0..100]

(* What lease reads at its beginning.                                      *)
Fleets ==
  [accepting : SUBSET Workers, active : [Workers -> Nat],
   cpu : [Workers -> 0..100], usage : [Devices -> Usages],
   reserved : [Devices -> Nat]]

-----------------------------------------------------------------------------
(* A device is left out when its memory is nearly full, or when what is    *)
(* left is less than the task asks for.                                    *)
Fits(fleet, d, minimum) ==
  LET total == MemoryOf[d]  used == fleet.usage[d].used
  IN /\ total > 0 => used * 100 < total * MaximumMemory
     /\ minimum > 0 => total > 0 /\ total - used >= minimum

_available_worker_runtimes(fleet, w, minimum) ==
  {RuntimeOf[d] : d \in {e \in DevicesOf[w] : Fits(fleet, e, minimum)}}

MemoryLoad(fleet, d) ==
  IF MemoryOf[d] > 0 THEN (fleet.usage[d].used * 100) \div MemoryOf[d] ELSE 0

DeviceLoad(fleet, d) ==
  Max({MemoryLoad(fleet, d), fleet.usage[d].utilization})

-----------------------------------------------------------------------------
(* Where the order of the stage has runtimes of a backend that the worker  *)
(* can run the stage with.                                                 *)
Compatible(fleet, s, w, b) ==
  LET available == _available_worker_runtimes(fleet, w, MinimumMemory[s])
  IN {i \in DOMAIN Runtimes[s] : /\ Runtimes[s][i] \in BackendRuntimes[b]
                                 /\ Runtimes[s][i] \in available
                                 /\ <<b, Runtimes[s][i]>> \in Capable[w]}

First(indices) == {i \in indices : \A k \in indices : i <= k}

(* The first of the candidates that fits, with its first runtime: at most  *)
(* one pair.                                                               *)
_select_backend(fleet, s, w) ==
  LET Usable(i) == Compatible(fleet, s, w, Candidates[s][i])
      fitting == {i \in DOMAIN Candidates[s] : Usable(i) # {}}
  IN UNION {{<<Candidates[s][i], Runtimes[s][k]>> : k \in First(Usable(i))} :
              i \in First(fitting)}

(* Tuples are compared column by column. *)
Above(x, y) ==
  \E i \in DOMAIN x : x[i] > y[i] /\ \A j \in 1..(i - 1) : x[j] = y[j]

(* The device with the fewest stages, the lowest load, the smallest id.    *)
DeviceKey(fleet, d) == <<fleet.reserved[d], DeviceLoad(fleet, d), d>>

_select_device_id(fleet, s, w, runtime) ==
  LET devices == {d \in DevicesOf[w] : /\ RuntimeOf[d] = runtime
                                       /\ Fits(fleet, d, MinimumMemory[s])}
  IN {d \in devices : \A e \in devices \ {d} :
        Above(DeviceKey(fleet, e), DeviceKey(fleet, d))}

-----------------------------------------------------------------------------
(* weight * max(1 - load, 0.05), in percent: the load is the highest of    *)
(* the signals, and of the devices only the least loaded one counts.       *)
_worker_scheduling_score(fleet, w, active, runtimes, minimum) ==
  LET devices == {d \in DevicesOf[w] :
                    /\ RuntimeOf[d] \in runtimes
                    /\ minimum > 0 => MemoryOf[d] - fleet.usage[d].used >= minimum}
      signals == {(active * 100) \div MaximumConcurrency[w], fleet.cpu[w]} \cup
        (IF devices = {} THEN {} ELSE {Min({DeviceLoad(fleet, d) : d \in devices})})
      load == Min({Max(signals), 100})
  IN Weight[w] * Max({100 - load, 5})

(* Who could take the stage at this moment.  The requesting worker counts  *)
(* what it has just been given, the others what the database shows.        *)
HasLabels(s, w) == WantedLabels[s] \subseteq Labels[w]

Ranked_with_offline(fleet, s) ==
  {w \in Workers : /\ fleet.active[w] < MaximumConcurrency[w]
                   /\ HasLabels(s, w)
                   /\ _select_backend(fleet, s, w) # {}}
Ranked(fleet, s) ==
  {w \in fleet.accepting : /\ fleet.active[w] < MaximumConcurrency[w]
                           /\ HasLabels(s, w)
                           /\ _select_backend(fleet, s, w) # {}}

RuntimeRank(s, runtimes) ==
  Min({i \in DOMAIN Runtimes[s] : Runtimes[s][i] \in runtimes})

Rank(fleet, s, w) ==
  LET runtimes == _available_worker_runtimes(fleet, w, MinimumMemory[s])
                    \cap {Runtimes[s][i] : i \in DOMAIN Runtimes[s]}
  IN << -RuntimeRank(s, runtimes),
        _worker_scheduling_score(fleet, w, fleet.active[w], runtimes, MinimumMemory[s]),
        Weight[w], -fleet.active[w] >>

(* The highest rank, and of several workers with it the smallest id.       *)
_requesting_worker_is_preferred_strict(fleet, s, w) ==
  /\ w \in Ranked(fleet, s)
  /\ \A v \in Ranked(fleet, s) \ {w} : Above(Rank(fleet, s, w), Rank(fleet, s, v))
_requesting_worker_is_preferred(fleet, s, w) ==
  /\ w \in Ranked(fleet, s)
  /\ \A v \in Ranked(fleet, s) \ {w} :
       \/ Above(Rank(fleet, s, w), Rank(fleet, s, v))
       \/ Rank(fleet, s, w) = Rank(fleet, s, v) /\ w < v

(* What lease makes of one pending stage: the backend, runtime and device  *)
(* it is handed out with, or nothing.                                      *)
Admission(fleet, s, w) ==
  IF /\ fleet.active[w] < MaximumConcurrency[w]
     /\ HasLabels(s, w)
     /\ _requesting_worker_is_preferred(fleet, s, w)
  THEN UNION {{<<choice[1], choice[2], d>> :
                 d \in _select_device_id(fleet, s, w, choice[2])} :
                   choice \in _select_backend(fleet, s, w)}
  ELSE {}
=============================================================================

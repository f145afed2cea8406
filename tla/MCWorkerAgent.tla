---------------------------- MODULE MCWorkerAgent ----------------------------
(* Small instances of WorkerAgent. *)
EXTENDS WorkerAgent, TLC

CONSTANTS w1, a, b, t1, t2, d1

(* Two stages that may run side by side, of one task or of two. *)
ParallelTask == [s \in {a, b} |-> t1]
SeparateTasks == (a :> t1) @@ (b :> t2)
NoDependencies == [s \in {a, b} |-> {}]
OneAttempt == [s \in {a, b} |-> 1]

Draining == [enabled |-> "keep", draining |-> "yes", maximum_concurrency |-> 0]
Disabling == [Draining EXCEPT !.enabled = "no", !.draining = "keep"]
OnlyDraining == {Draining}
AllUpdates == {Draining, Disabling}
=============================================================================

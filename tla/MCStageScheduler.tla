-------------------------- MODULE MCStageScheduler --------------------------
(* Small instances of StageScheduler. *)
EXTENDS StageScheduler, TLC

CONSTANTS w1, w2, a, b, t1, t2, d1

WorkerSymmetry == Permutations(Workers)

(* Two stages that may run side by side; b has a single attempt. *)
ParallelTask == [s \in {a, b} |-> t1]
NoDependencies == [s \in {a, b} |-> {}]
ParallelAttempts == (a :> 2) @@ (b :> 1)

SeparateTasks == (a :> t1) @@ (b :> t2)

(* The default retry policy: one attempt each. *)
DefaultAttempts == [s \in {a, b} |-> 1]

NoUpdates == {}
Draining == [enabled |-> "keep", draining |-> "yes", maximum_concurrency |-> 0]
Undraining == [Draining EXCEPT !.draining = "no"]
Disabling == [Draining EXCEPT !.enabled = "no", !.draining = "keep"]
Enabling == [Disabling EXCEPT !.enabled = "yes"]
Shrinking == [Disabling EXCEPT !.enabled = "keep", !.maximum_concurrency = 1]
AllUpdates == {Draining, Undraining, Disabling, Enabling, Shrinking}
MinusOne == -1
=============================================================================

------------------------ MODULE MCStageTransactions ------------------------
(* Small instances of StageTransactions. *)
EXTENDS StageTransactions, TLC

CONSTANTS w1, w2, a, b, t1, d1, c1, c2

SessionSymmetry == Permutations(Sessions)

(* Two stages of one task, side by side or one after the other. *)
TwoStages == [s \in {a, b} |-> t1]
SideBySide == [s \in {a, b} |-> {}]
OneAfterOther == (a :> {}) @@ (b :> {a})
OneAttempt == [s \in {a, b} |-> 1]
TwoAttempts == [s \in {a, b} |-> 2]
(* Without "empty", which differs from "result" in result_uri only. *)
MostOperations ==
  {"lease", "renew", "start", "result", "failed", "reconcile", "cancel", "retry"}
NoUpdates == {}
MinusOne == -1
=============================================================================

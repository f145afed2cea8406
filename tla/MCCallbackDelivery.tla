------------------------- MODULE MCCallbackDelivery -------------------------
(* Small instances of CallbackDelivery. *)
EXTENDS CallbackDelivery, TLC

CONSTANTS e1, e2, e3, t1, p1, p2, p3

OneTask == [e \in Events |-> t1]

DispatcherSymmetry == Permutations(Dispatchers)
=============================================================================

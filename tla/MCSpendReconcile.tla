-------------------------- MODULE MCSpendReconcile --------------------------
(* Instances of SpendReconcile for TLC. *)
EXTENDS SpendReconcile, TLC

CONSTANTS w1, w2, governed, adapter, run

MCWorkers == {w1, w2}
OneWorker == {w1}
BothCalls == {governed, adapter}
OneGoverned == {governed}
OneAdapter == {adapter}
MCRuns == {run}
MCRunOf == [c \in Calls |-> run]
MCPathOf == [c \in Calls |-> IF c = governed THEN "governed_call" ELSE "adapter_path"]
MCCosts == {1, 3}
OneCost == {1}

Nobody == {}
Daemon == {"daemon"}
AllOperators == {"daemon", "compactor"}

NoFaults == {}
Crashes == {"crash"}
AllFaults == {"crash", "cas_conflict"}

MCSymmetry == Permutations(Workers)
=============================================================================

------------------------- MODULE MCFencedExecution -------------------------
(* Instances of FencedExecution for TLC. *)
EXTENDS FencedExecution, TLC

CONSTANTS a1, a2, r1, r2

MCAgents == {a1, a2}
OneResource == {r1}

CrashFaults == {"crash", "io_error", "index_loss"}
=============================================================================

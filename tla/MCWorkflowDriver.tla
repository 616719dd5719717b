------------------------- MODULE MCWorkflowDriver -------------------------
(* Instances of WorkflowDriver for TLC. *)
EXTENDS WorkflowDriver, TLC

CONSTANTS d1, d2

MCDrivers == {d1, d2}
OneDriver == {d1}
\* An adapter step with a retry, a gate, a step that escalates.
MCGate == {2}
MCAdapter == {1}
MCOnFailure == <<"retry_once", "transition_to_failed", "escalate_to_human">>
MCVerdicts == {"ok", "exhausted", "cross_ref"}

\* A retry on either side of a gate, an escalation.
LongGate == {2}
LongAdapter == {1, 3}
LongFlow == <<"retry_once", "transition_to_failed", "retry_once", "escalate_to_human">>

MCSymmetry == Permutations(MCDrivers)

ShortFlow == <<"retry_once", "transition_to_failed">>
NoVerdicts == {"ok"}
=============================================================================

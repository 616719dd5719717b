------------------------- MODULE MCProviderCircuit -------------------------
(* Instances of ProviderCircuit for TLC. *)
EXTENDS ProviderCircuit, TLC

CONSTANTS c1, c2, c3, c4

MCCalls == {c1, c2, c3, c4}
OneStream == {c1}
=============================================================================

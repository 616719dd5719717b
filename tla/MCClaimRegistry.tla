-------------------------- MODULE MCClaimRegistry --------------------------
(* Instances of ClaimRegistry for TLC. *)
EXTENDS ClaimRegistry, TLC

CONSTANTS a1, a2, r1, r2

MCAgents == {a1, a2}
TwoResources == {r1, r2}

FencingLosses == {"fencing_loss"}
MCSymmetry == Permutations(MCAgents) \cup Permutations({r1, r2})
=============================================================================

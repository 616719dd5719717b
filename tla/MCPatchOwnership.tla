-------------------------- MODULE MCPatchOwnership --------------------------
(* Instances of PatchOwnership for TLC. *)
EXTENDS PatchOwnership, TLC

CONSTANTS r1, r2

\* Two patches that share two areas; two that share none.
Pair == r1 :> {2, 3} @@ r2 :> {1, 2, 3}
Apart == r1 :> {1} @@ r2 :> {2}
=============================================================================

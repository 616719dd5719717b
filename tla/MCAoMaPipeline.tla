--------------------------- MODULE MCAoMaPipeline ---------------------------
(* Two tasks, one native, over two paths that a second plan may give to    *)
(* the native one.                                                         *)
EXTENDS AoMaPipeline, TLC

CONSTANTS t1, t2, p, q

NativeLast == {t2}
Split == [t \in Tasks |-> IF t = t1 THEN {p} ELSE {q}]
Grown == [t \in Tasks |-> IF t = t1 THEN {} ELSE {p, q}]
TwoGraphs == {Split, Grown}

\* What follows two overlapping writers is not explored, the properties say nothing
\* of it; nor is what follows a refusing review of the fixture's task.
Explored == ~overlapped /\ (verdict[t1] # NoFile => verdict[t1].agree)
=============================================================================

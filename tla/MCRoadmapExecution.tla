------------------------ MODULE MCRoadmapExecution ------------------------
(* Instances of RoadmapExecution for TLC: a file f, a directory d, a file g in it. *)
EXTENDS RoadmapExecution, TLC

CONSTANTS f, d, g, a, b, m1, m2

MCAbove == (f :> {}) @@ (d :> {}) @@ (g :> {d})
T(x, y) == (a :> x) @@ (b :> y)
Tree(x, y, z) == (f :> x) @@ (d :> y) @@ (g :> z)
MCTrees == {Tree(Absent, Absent, Absent), Tree(T(1, 0), Dir, T(0, 1))}
MCTexts == {T(0, 1)}
\* Two pointers, and what is none.
MCStoredPath(text) ==
  CASE text = T(1, 0) -> g [] text = T(1, 1) -> f [] OTHER -> "POINTER_INVALID"

Create(m, p, text, over) ==
  [type |-> "create", ms |-> m, path |-> p, text |-> text, same |-> {text}, overwrite |-> over]
\* A JSON document in two layouts.
Json(m, p) == [Create(m, p, T(1, 1), FALSE) EXCEPT !.same = {T(1, 1), T(1, 0)}]
MkDir(m, p) == [type |-> "dir", ms |-> m, path |-> p]
Patch(m, p, patches) == [type |-> "patch", ms |-> m, path |-> p, patches |-> patches]
Sub(l, rep) == [pattern |-> l, rep |-> rep]
Allow(m, S) == [type |-> "allow", ms |-> m, paths |-> S]
Present(m, S, only) == [type |-> "assert", ms |-> m, paths |-> S, applyOnly |-> only]
Pointer(m, p, only) == [type |-> "pointer", ms |-> m, path |-> p, applyOnly |-> only]
Iso(m, S) == [type |-> "iso", ms |-> m, paths |-> S]
Core(m, S) == [type |-> "core", ms |-> m, paths |-> S]
Scan(m, p, S) == [type |-> "scan", ms |-> m, path |-> p, tokens |-> S]
Change(m, p) == [type |-> "change", ms |-> m, path |-> p, note |-> b]
Cmd(m, must, only, listed) ==
  [type |-> "cmd", ms |-> m, mustSucceed |-> must, applyOnly |-> only, allowlisted |-> listed]

MCPlans == 1 .. 14
MCStepsOf(p) ==
  CASE p = 1 -> \* creates only, too many lines for an empty tree
         <<Create(m1, f, T(1, 0), FALSE), Create(m1, g, T(1, 1), TRUE), Present(m1, {f, g}, FALSE)>>
    [] p = 2 -> \* an allowlist, a file cap
         <<Allow(m2, {d}), MkDir(m1, d), Json(m1, g), Create(m1, f, T(1, 0), TRUE)>>
    [] p = 3 -> \* patches of what the plan creates
         <<Create(m1, g, T(0, 1), TRUE), Patch(m1, g, <<Sub(b, T(1, 2))>>),
           Patch(m1, g, <<Sub(b, T(0, 0)), Sub(a, T(0, 0))>>), Patch(m1, g, <<Sub(a, T(1, 1))>>)>>
    [] p = 4 -> \* a planned directory that is planned to be a file
         <<MkDir(m1, d), Present(m1, {d}, TRUE), Create(m1, d, T(1, 0), FALSE)>>
    [] p = 5 -> \* the other way round
         <<Create(m1, d, T(1, 0), FALSE), Present(m1, {d}, FALSE), Create(m1, g, T(1, 0), FALSE)>>
    [] p = 6 -> \* creates that fit
         <<Create(m1, g, T(0, 1), FALSE), Create(m1, f, T(1, 1), TRUE), Present(m1, {d, f}, FALSE)>>
    [] p = 7 -> \* a change proposal, then what is forbidden
         <<Change(m2, f), Patch(m1, f, <<Sub(b, T(0, 1))>>)>>
    [] p = 8 -> <<Cmd(m1, FALSE, FALSE, TRUE), Cmd(m1, TRUE, TRUE, FALSE)>>
    [] p = 9 -> <<Cmd(m1, FALSE, FALSE, FALSE), Core(m1, {g})>>
    [] p = 10 -> \* what a dry run does not look for
         <<Present(m1, {g}, TRUE), Create(m1, g, T(0, 1), TRUE)>>
    [] p = 11 -> \* a pointer is written, then read
         <<Create(m1, f, T(1, 1), FALSE), Pointer(m1, f, FALSE), Create(m1, g, T(1, 0), FALSE)>>
    [] p = 12 -> \* a pointer is changed, then read
         <<Patch(m1, f, <<Sub(a, T(1, 1))>>), Pointer(m1, f, TRUE), Patch(m1, f, <<Sub(b, T(1, 0))>>),
           Pointer(m1, f, FALSE)>>
    [] p = 13 -> \* what is scanned, temporary files with it
         <<Scan(m1, d, {a}), Create(m1, g, T(0, 1), TRUE), Create(m1, g, T(1, 0), TRUE),
           Scan(m1, d, {a})>>
    [] p = 14 -> \* files that are looked for where they are written
         <<MkDir(m1, d), Create(m1, g, T(0, 1), FALSE), Iso(m1, {g}), Core(m1, {d})>>
MCLimitsOf(p, m) ==
  [files |-> CASE m = m1 /\ p = 2 -> 1 [] m = m1 /\ p = 6 -> 2 [] OTHER -> 9,
   diff |-> CASE m = m1 /\ p = 1 -> 2 [] m = m1 /\ p = 3 -> 6 [] m = m1 /\ p = 6 -> 3 [] OTHER -> 9,
   forbidden |-> IF m = m1 /\ p = 7 THEN {f} ELSE {}]

\* Explored: one committed tree where the workspace is not the core or is locked, and as
\* the last dry run that of a plan that was simulated or applied before.
Explored ==
  /\ core # "unlocked" => head = Tree(T(1, 0), Dir, T(0, 1))
  /\ run # None /\ runs = MaxRuns /\ run.mode # "apply" =>
       \E before \in {forecast, origin} : before # None /\ before.plan = run.plan
===========================================================================

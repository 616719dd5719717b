---------------------------- MODULE AoMaPipeline ----------------------------
(***************************************************************************)
(* The multi-agent pipeline over one task-graph directory: plan writes the *)
(* graph, the assignments and the manifest that pins their hashes; spawn   *)
(* prepares a worktree per task; invoke runs the fixture worker or import  *)
(* takes in a native worker's result; review, verify and integrate judge   *)
(* the result of each task.  Every command is a process of its own that    *)
(* knows the others by their files only.  A hash stands for the content it *)
(* is the hash of.                                                         *)
(***************************************************************************)
EXTENDS Naturals, Functions

CONSTANTS
  Tasks, Paths, NoFile,
  Graphs,      \* the declared write sets a plan may give the tasks
  Native,      \* the tasks done by native workers; the fixture does the others
  Operators,   \* the command lines in use at the same time
  MaxPlans, MaxHead   \* bounds: plans made, commits on a branch

DeclaredSets == [Tasks -> SUBSET Paths]

\* One task-graph id stands for one set of paths and one base, so all plans in
\* the directory declare the same paths, no two tasks of a plan share one, and
\* a task may be declared none (the sentinel that asks for explicit paths).
ASSUME PipelineAssumption ==
  /\ Native \subseteq Tasks
  /\ Graphs \subseteq DeclaredSets
  /\ \A g \in Graphs : \A t, u \in Tasks : t # u => g[t] \cap g[u] = {}
  /\ \A g, h \in Graphs : UNION Range(g) = UNION Range(h)
  /\ MaxPlans \in Nat /\ MaxHead \in Nat

VARIABLES
  graph, assign, manifest,   \* the plan's files; assign[t] is t's assignment
  plans,                     \* how many plans were begun
  based,                     \* spawn is given a --worktree-base
  runner,                    \* runner_report.v1.json
  worktree, head, touched,   \* per task: prepared?, commits on its branch, their paths
  source,                    \* per task: worker_result.v1.json at its worktree's root
  again,                     \* history: the tasks whose export replaced an earlier one
  result,                    \* per task: workers/<task>/worker_result.v1.json
  verdict, verification,     \* per task: the review and the verification files
  integration,               \* the tasks accepted by integration_report.v1.json
  cmd,                       \* cmd[o]: the command o is in the middle of
  overlapped                 \* history: two writers were in flight at once

planned == <<graph, assign, manifest, plans, based>>
trees == <<worktree, head, touched, source, again>>
judged == <<verdict, verification, integration>>
vars == <<planned, runner, trees, result, judged, cmd, overlapped>>

Results == [head : 1..MaxHead, decl : SUBSET Paths, actual : SUBSET Paths,
            gaps : BOOLEAN]
Manifests == [at : 1..MaxPlans, decl : Graphs]
Reports == [manifest : Manifests, eligible : SUBSET Tasks]
Verdicts == [agree : BOOLEAN, of : Results]
Verifications == [pass : BOOLEAN, of : Results]

ASSUME NullAssumption ==
  /\ NoFile \notin Graphs /\ (\A s \in SUBSET Paths : s # NoFile) /\ NoFile \notin Results
  /\ NoFile \notin Manifests /\ NoFile \notin Reports
  /\ NoFile \notin Verdicts /\ NoFile \notin Verifications

Idle == [op |-> "idle"]
Free(o) == cmd[o] = Idle
Run(o, c) == cmd' = [cmd EXCEPT ![o] = c]
End(o) == Run(o, Idle)

\* Entering(o): o's command starts to write while another one may be at it.
Entering(o) == overlapped' = (overlapped \/ \E p \in Operators \ {o} : ~Free(p))

\* Roots(s): the results at the roots become s.  Without a --worktree-base task t's
\* worktree is workers/<t> in the plan's directory, and the two results one file.
Roots(s) ==
  /\ source' = s
  /\ result' = IF based THEN result ELSE s

Init ==
  /\ based \in BOOLEAN /\ again = {}
  /\ graph = NoFile /\ manifest = NoFile /\ runner = NoFile
  /\ assign = [t \in Tasks |-> NoFile]
  /\ plans = 0
  /\ worktree = [t \in Tasks |-> FALSE]
  /\ head = [t \in Tasks |-> 0]
  /\ touched = [t \in Tasks |-> {}]
  /\ source = [t \in Tasks |-> NoFile] /\ result = source
  /\ verdict = source /\ verification = source
  /\ integration = {}
  /\ cmd = [o \in Operators |-> Idle]
  /\ overlapped = FALSE

-----------------------------------------------------------------------------
(* plan: the graph, then the assignments, then the manifest, each file     *)
(* replaced as a whole.  A plan that dies leaves new files under the old   *)
(* manifest.                                                               *)

Plan(o) ==
  /\ Free(o) /\ plans < MaxPlans
  /\ plans' = plans + 1
  /\ Entering(o)
  /\ \E g \in Graphs :
       /\ graph' = g
       /\ Run(o, [op |-> "plan", decl |-> g, at |-> plans', left |-> Tasks])
  /\ UNCHANGED <<assign, manifest, based, runner, trees, result, judged>>

WriteAssignment(o) ==
  /\ cmd[o].op = "plan"
  /\ \E t \in cmd[o].left :
       /\ assign' = [assign EXCEPT ![t] = cmd[o].decl[t]]
       /\ Run(o, [cmd[o] EXCEPT !.left = @ \ {t}])
  /\ UNCHANGED <<graph, manifest, plans, based, runner, trees, result, judged, overlapped>>

\* generated_at tells the manifests of two plans apart.
WriteManifest(o) ==
  /\ cmd[o].op = "plan" /\ cmd[o].left = {}
  /\ manifest' = [at |-> cmd[o].at, decl |-> cmd[o].decl]
  /\ End(o)
  /\ UNCHANGED <<graph, assign, plans, based, runner, trees, result, judged, overlapped>>

-----------------------------------------------------------------------------
(* spawn and cleanup                                                       *)

\* The files the manifest pins are the files on disk.
GraphPinned == manifest # NoFile /\ graph = manifest.decl
Pinned(t) == assign[t] = manifest.decl[t]

\* The report is about the manifest on disk.
RunnerBound == manifest # NoFile /\ runner # NoFile /\ runner.manifest = manifest

\* _spawn_one: the task has paths, and the worktree or the branch, where there is
\* one already, is at the base.
Preparable(t) == assign[t] # {} /\ head[t] = 0

\* No task is prepared if origin/main has left the base.
Spawn(o) ==
  /\ Free(o)
  /\ GraphPinned /\ \A t \in Tasks : Pinned(t)
  /\ \E prepared \in {{}, {t \in Tasks : Preparable(t)}} :
       /\ runner' = [manifest |-> manifest, eligible |-> prepared]
       /\ worktree' = [t \in Tasks |-> worktree[t] \/ t \in prepared]
  /\ Entering(o)
  /\ UNCHANGED <<planned, head, touched, source, again, result, judged, cmd>>

\* A worktree with an untracked result in its root is dirty, and kept.  (Asked to,
\* cleanup also deletes the branches that main contains: those at the base, which
\* spawn makes anew, and landed ones, which are of a base that is main no more.)
Cleanup(o) ==
  /\ Free(o) /\ RunnerBound
  /\ worktree' = [t \in Tasks |-> worktree[t] /\ source[t] # NoFile]
  /\ Entering(o)
  /\ UNCHANGED <<planned, runner, head, touched, source, again, result, judged, cmd>>

-----------------------------------------------------------------------------
(* invoke: one thread per task                                             *)

Invoke(o) ==
  /\ Free(o) /\ RunnerBound
  /\ Run(o, [op |-> "invoke", runner |-> runner, at |-> [t \in Tasks |-> "check"]])
  /\ Entering(o)
  /\ UNCHANGED <<planned, runner, trees, result, judged>>

Thread(o, t, pc) == cmd[o].op = "invoke" /\ cmd[o].at[t] = pc
Goto(o, t, pc) == Run(o, [cmd[o] EXCEPT !.at[t] = pc])

\* Mutant: the worktree's HEAD is not looked at.
AtBaseUnchecked(t) == worktree[t]

\* _verify_worktree, and the worker's own look before it writes
AtBase(t) == worktree[t] /\ head[t] = 0

CheckWorker(o, t) ==
  /\ Thread(o, t, "check")
  /\ LET entry == cmd[o].runner IN
     Goto(o, t, IF t \in entry.eligible /\ assign[t] = entry.manifest.decl[t] /\ AtBase(t)
                THEN "work" ELSE "done")
  /\ UNCHANGED <<planned, runner, trees, result, judged, overlapped>>

\* Mutant: the result names the commit it started from.
HeadBefore(t) == head[t]

\* rev-parse HEAD, after the commit
HeadAfter(t) == head[t] + 1

\* The fixture reads the assignment itself, commits the first path it declares
\* and writes its result; killed in between, it leaves the commit alone.
Work(o, t) ==
  /\ Thread(o, t, "work")
  /\ IF AtBase(t) /\ assign[t] # {} /\ head[t] < MaxHead
     THEN \E p \in assign[t], wrote \in BOOLEAN :
            /\ head' = [head EXCEPT ![t] = @ + 1]
            /\ touched' = [touched EXCEPT ![t] = @ \cup {p}]
            /\ Roots(IF wrote
                     THEN [source EXCEPT ![t] = [head |-> HeadAfter(t), decl |-> assign[t],
                                                 actual |-> touched'[t], gaps |-> TRUE]]
                     ELSE source)
            /\ Goto(o, t, IF wrote THEN "bridge" ELSE "done")
     ELSE Goto(o, t, "done") /\ UNCHANGED <<head, touched, source, result>>
  /\ UNCHANGED <<planned, runner, worktree, again, judged, overlapped>>

\* The result is read back, checked and copied over whatever is there.
Bridge(o, t) ==
  /\ Thread(o, t, "bridge")
  /\ result' = IF source[t].actual \subseteq source[t].decl
               THEN [result EXCEPT ![t] = source[t]] ELSE result
  /\ Goto(o, t, "done")
  /\ UNCHANGED <<planned, runner, trees, judged, overlapped>>

InvokeEnds(o) ==
  /\ cmd[o].op = "invoke" /\ \A t \in Tasks : cmd[o].at[t] = "done"
  /\ End(o)
  /\ UNCHANGED <<planned, runner, trees, result, judged, overlapped>>

-----------------------------------------------------------------------------
(* A native worker commits what it likes in its worktree and, once it has  *)
(* committed something, exports a result that names its branch's head;     *)
(* import takes the export in.  (That it commits first is assumed: import  *)
(* does not ask git.)                                                      *)

NativeCommit(t) ==
  /\ worktree[t] /\ head[t] < MaxHead
  /\ head' = [head EXCEPT ![t] = @ + 1]
  /\ \E p \in Paths : touched' = [touched EXCEPT ![t] = @ \cup {p}]
  /\ UNCHANGED <<planned, runner, worktree, source, again, result, judged, cmd, overlapped>>

\* A command that found t's result is about to read it again.
Reading(t) ==
  \E o \in Operators : Thread(o, t, "bridge") \/ cmd[o] = [op |-> "import", task |-> t]

NativeExport(t) ==
  /\ worktree[t] /\ head[t] > 0
  /\ \E g \in Graphs :
       Roots([source EXCEPT ![t] =
         [head |-> head[t], decl |-> g[t], actual |-> touched[t], gaps |-> FALSE]])
  /\ again' = IF source[t] = NoFile THEN again ELSE again \cup {t}
  /\ overlapped' = (overlapped \/ Reading(t))
  /\ UNCHANGED <<planned, runner, worktree, head, touched, judged, cmd>>

\* Mutant: the declared set is taken from the worker.
ImportableUnbound(t, r) == t \in runner.eligible /\ r.actual \subseteq r.decl /\ ~r.gaps

\* The checks of import that are reported rather than raised.
Importable(t, r) ==
  /\ t \in runner.eligible
  /\ r.decl = assign[t]
  /\ r.actual \subseteq r.decl /\ r.actual # {}
  /\ ~r.gaps

Import(o, t) ==
  /\ Free(o)
  /\ source[t] # NoFile /\ RunnerBound /\ GraphPinned /\ Pinned(t)
  /\ Importable(t, source[t])
  /\ Run(o, [op |-> "import", task |-> t])
  /\ Entering(o)
  /\ UNCHANGED <<planned, runner, trees, result, judged>>

\* Mutant: the copy replaces what is there.
TakenIn(old, new) == new

\* The file is read again for its hash and for the copy: what is there now is
\* copied, unless there is a result already.
Kept(old, new) == IF old = NoFile THEN new ELSE old

Copy(o) ==
  /\ cmd[o].op = "import"
  /\ LET t == cmd[o].task IN result' = [result EXCEPT ![t] = Kept(@, source[t])]
  /\ End(o)
  /\ UNCHANGED <<planned, runner, trees, judged, overlapped>>

-----------------------------------------------------------------------------
(* review, verify, integrate                                               *)

\* The verdict of a provider other than the worker's names the task, not what was
\* read.  A REVISE beyond max_revise_rounds is written as BLOCK; both refuse.
Review(t) ==
  /\ manifest # NoFile /\ result[t] # NoFile
  /\ \E agree \in BOOLEAN : verdict' = [verdict EXCEPT ![t] = [agree |-> agree, of |-> result[t]]]
  /\ UNCHANGED <<planned, runner, trees, result, verification, integration,
                 cmd, overlapped>>

\* _check_diff_scope, against the graph on disk, whose hash nobody compares here
InScope(t, r) == r.decl = graph[t] /\ r.actual \subseteq r.decl

\* A report that fails for its other checks (guards, secrets, hashing) keeps a task
\* back like no report, and is not told apart from that.
Verify(t) ==
  /\ manifest # NoFile /\ result[t] # NoFile
  /\ verification' = [verification EXCEPT ![t] = [pass |-> InScope(t, result[t]), of |-> result[t]]]
  /\ UNCHANGED <<planned, runner, trees, result, verdict, integration, cmd, overlapped>>

\* Below this integrate raises.
Integrable == RunnerBound /\ runner.eligible = Tasks

\* What integrate reads for t: the consumption file when the command line maps it,
\* else the result at the root of the worktree in the runner's report.
Given(mapped, t) == IF mapped THEN result[t] ELSE source[t]

\* _decide_worker accepts
Candidates(mapped) ==
  {t \in Tasks : /\ Given(mapped, t) # NoFile /\ verdict[t] # NoFile /\ verification[t] # NoFile
                 /\ Given(mapped, t).actual \subseteq Given(mapped, t).decl
                 /\ verdict[t].agree /\ verification[t].pass}

\* CF3: candidates that changed a path in common are both taken back.
Accepted(mapped) ==
  {t \in Candidates(mapped) :
     \A u \in Candidates(mapped) \ {t} :
       Given(mapped, t).actual \cap Given(mapped, u).actual = {}}

Integrate ==
  /\ Integrable
  /\ \E mapped \in BOOLEAN : integration' = Accepted(mapped)
  /\ UNCHANGED <<planned, runner, trees, result, verdict, verification,
                 cmd, overlapped>>

-----------------------------------------------------------------------------
\* A command dies where it is.
Die(o) ==
  /\ ~Free(o) /\ End(o)
  /\ UNCHANGED <<planned, runner, trees, result, judged, overlapped>>

Next ==
  \/ \E o \in Operators :
       \/ Plan(o) \/ WriteAssignment(o) \/ WriteManifest(o)
       \/ Spawn(o) \/ Cleanup(o) \/ Invoke(o) \/ InvokeEnds(o) \/ Copy(o) \/ Die(o)
       \/ \E t \in Tasks : CheckWorker(o, t) \/ Work(o, t) \/ Bridge(o, t) \/ Import(o, t)
  \/ \E t \in Native : NativeCommit(t) \/ NativeExport(t)
  \/ \E t \in Tasks : Review(t) \/ Verify(t)
  \/ Integrate

Spec == Init /\ [][Next]_vars

-----------------------------------------------------------------------------
(* Properties                                                              *)

Plannings == [op : {"plan"}, decl : Graphs, at : 1..MaxPlans, left : SUBSET Tasks]
Positions == {"check", "work", "bridge", "done"}
Invocations == [op : {"invoke"}, runner : Reports, at : [Tasks -> Positions]]
Imports == [op : {"import"}, task : Tasks]
Commands == {Idle} \cup Plannings \cup Invocations \cup Imports

\* The type of the files, the worktrees and the commands.
TypeOK ==
  /\ graph \in Graphs \cup {NoFile}
  /\ assign \in [Tasks -> (SUBSET Paths) \cup {NoFile}]
  /\ manifest \in Manifests \cup {NoFile} /\ plans \in 0..MaxPlans
  /\ based \in BOOLEAN /\ again \subseteq Native
  /\ runner \in Reports \cup {NoFile}
  /\ worktree \in [Tasks -> BOOLEAN] /\ head \in [Tasks -> 0..MaxHead]
  /\ touched \in [Tasks -> SUBSET Paths]
  /\ source \in [Tasks -> Results \cup {NoFile}]
  /\ result \in [Tasks -> Results \cup {NoFile}]
  /\ verdict \in [Tasks -> Verdicts \cup {NoFile}]
  /\ verification \in [Tasks -> Verifications \cup {NoFile}]
  /\ integration \subseteq Tasks
  /\ cmd \in [Operators -> Commands]
  /\ overlapped \in BOOLEAN

\* integrate compares no hash of the evidence with the result it accepts; while
\* one command writes at a time, the result is still the one that was reviewed
\* and verified, if the file integrate is given is the copy that import made, or
\* the worker exported once.
EvidenceIsCurrent ==
  Integrable /\ ~overlapped =>
    \A mapped \in BOOLEAN : \A t \in Accepted(mapped) :
      (based /\ mapped) \/ t \notin again =>
        verdict[t].of = Given(mapped, t) /\ verification[t].of = Given(mapped, t)

\* An accepted task changed only paths that the plan in force gave it, though
\* neither verify nor integrate compares the graph with the manifest's hash and
\* a plan may have died half-way.  It is import that keeps a native worker to the
\* plan: where its export needs no import to be read, nothing does.
AcceptedWithinPlan ==
  Integrable /\ ~overlapped =>
    \A mapped \in BOOLEAN : \A t \in Accepted(mapped) :
      t \notin Native \/ (based /\ (mapped \/ t \notin again)) =>
        Given(mapped, t).actual \subseteq manifest.decl[t]

\* Where the fixture worked, the branch the assembly plan merges is at the commit
\* that was verified.
MergedIsVerified ==
  ~overlapped => \A t \in integration \ Native :
                   head[t] = result[t].head /\ touched[t] = result[t].actual
=============================================================================

------------------------- MODULE AoMaPipelineProofs -------------------------
(***************************************************************************)
(* What integrate accepts, for any tasks, paths, plans, operators and      *)
(* native workers, wherever a command dies.                                *)
(***************************************************************************)
EXTENDS AoMaPipeline, TLAPS

-----------------------------------------------------------------------------
(* The invariants                                                          *)

\* The files of a task come one after the other, what is taken in of an export that
\* none replaced is that export, and the fixture's result is of the one commit on its
\* branch.
FilesInv ==
  \A t \in Tasks :
    /\ source[t] # NoFile => head[t] # 0
    /\ head[t] = 0 => touched[t] = {}
    /\ ~based => result[t] = source[t]
    /\ result[t] # NoFile => source[t] # NoFile
    /\ verdict[t] # NoFile => result[t] # NoFile
    /\ verification[t] # NoFile => result[t] # NoFile
    /\ t \in integration => result[t] # NoFile
    /\ t \notin Native /\ source[t] # NoFile =>
         source[t].head = head[t] /\ source[t].actual = touched[t] /\ source[t].gaps
    /\ t \notin again /\ result[t] # NoFile => result[t] = source[t]

\* A command in flight found the file it is about to read.
CommandsInv ==
  \A o \in Operators :
    /\ cmd[o] \in Imports => source[cmd[o].task] # NoFile
    /\ cmd[o] \in Invocations =>
         \A t \in Tasks : /\ cmd[o].at[t] = "work" => assign[t] # NoFile
                          /\ cmd[o].at[t] = "bridge" => source[t] # NoFile

\* Manifests are numbered by the plans.
NumbersInv ==
  /\ manifest # NoFile => manifest.at <= plans
  /\ runner # NoFile => runner.manifest.at <= plans
  /\ \A o \in Operators : cmd[o] \in Plannings => cmd[o].at <= plans

\* While one command writes at a time: ...
Alone == \A o, p \in Operators : ~Free(o) /\ ~Free(p) => o = p

\* ... the manifest a plan will write is later than the one it replaces and than
\* the one workers were spawned for,
PlanAhead(c) ==
  c \in Plannings =>
    /\ manifest # NoFile => manifest.at < c.at
    /\ runner # NoFile => runner.manifest.at < c.at

\* ... what the fixture does or an import takes in is within the manifest in
\* force, and the first result of its task when the fixture made it,
InvokedBound(c) ==
  c \in Invocations =>
    /\ RunnerBound /\ c.runner = runner
    /\ \A t \in Tasks :
         /\ c.at[t] = "work" => t \in runner.eligible /\ assign[t] = manifest.decl[t]
         /\ c.at[t] = "bridge" =>
              /\ based => result[t] = NoFile
              /\ t \in runner.eligible /\ source[t].decl = manifest.decl[t]

ImportBound(c) ==
  c \in Imports =>
    /\ RunnerBound /\ c.task \in runner.eligible
    /\ source[c.task].decl = manifest.decl[c.task]
    /\ source[c.task].actual \subseteq source[c.task].decl

Bound(o) == PlanAhead(cmd[o]) /\ InvokedBound(cmd[o]) /\ ImportBound(cmd[o])

\* ... and so is every result there is of a task prepared under it, since none was
\* there when it was prepared, unless a native worker exports where no import is needed;
WithinPlan ==
  RunnerBound => \A t \in runner.eligible :
    result[t] # NoFile /\ (based \/ t \notin Native) => result[t].actual \subseteq manifest.decl[t]

\* ... what was judged is what is there, unless an export replaced it there.
Current ==
  \A t \in Tasks : based \/ t \notin again =>
    /\ verdict[t] # NoFile => verdict[t].of = result[t]
    /\ verification[t] # NoFile => verification[t].of = result[t]

AloneInv == Alone /\ (\A o \in Operators : Bound(o)) /\ WithinPlan /\ Current
PipelineInv == TypeOK /\ FilesInv /\ CommandsInv /\ NumbersInv /\ (~overlapped => AloneInv)

-----------------------------------------------------------------------------
(* Types                                                                   *)

\* A command is of one kind, by its name.
LEMMA Kinds ==
  /\ \A c \in Plannings : c.op = "plan" /\ c \notin Invocations /\ c \notin Imports /\ c # Idle
  /\ \A c \in Invocations : c.op = "invoke" /\ c \notin Plannings /\ c \notin Imports /\ c # Idle
  /\ \A c \in Imports : c.op = "import" /\ c \notin Plannings /\ c \notin Invocations /\ c # Idle
  BY DEF Plannings, Invocations, Imports, Idle

LEMMA CommandKinds ==
  ASSUME TypeOK, NEW o \in Operators
  PROVE  /\ cmd[o].op = "plan" => cmd[o] \in Plannings
         /\ cmd[o].op = "invoke" => cmd[o] \in Invocations
         /\ cmd[o].op = "import" => cmd[o] \in Imports
         /\ Free(o) \/ cmd[o] \in Plannings \/ cmd[o] \in Invocations \/ cmd[o] \in Imports
<1>1. cmd[o] \in Commands
  BY DEF TypeOK
<1> QED
  BY <1>1 DEF Commands, Plannings, Invocations, Imports, Idle, Free

\* A thread's move changes its own position and nothing else.
LEMMA ThreadMoves ==
  ASSUME TypeOK, NEW o \in Operators, cmd[o] \in Invocations, NEW t \in Tasks,
         NEW pc \in Positions, Goto(o, t, pc)
  PROVE  /\ cmd'[o] \in Invocations /\ cmd'[o].runner = cmd[o].runner
         /\ cmd'[o].at = [cmd[o].at EXCEPT ![t] = pc]
         /\ cmd' = [cmd EXCEPT ![o] = cmd'[o]]
         /\ cmd' \in [Operators -> Commands]
<1> DEFINE c == [cmd[o] EXCEPT !.at[t] = pc]
<1>1. cmd' = [cmd EXCEPT ![o] = c] /\ cmd \in [Operators -> Commands]
  BY DEF Goto, Run, TypeOK
<1>2. c.at = [cmd[o].at EXCEPT ![t] = pc] /\ c.runner = cmd[o].runner /\ c.op = "invoke"
  BY DEF Invocations
<1>3. c \in Invocations
  BY DEF Invocations
<1> HIDE DEF c
<1> QED
  BY <1>1, <1>2, <1>3 DEF Commands

LEMMA Declared ==
  /\ \A g \in Graphs, t \in Tasks : g[t] \in SUBSET Paths
  /\ \A m \in Manifests, t \in Tasks : m.decl[t] \in SUBSET Paths
  BY PipelineAssumption DEF DeclaredSets, Manifests

\* Plans and their manifests are numbered; a report has a manifest.
LEMMA Numbered ==
  /\ \A m \in Manifests : m.at \in Nat /\ m # NoFile
  /\ \A m \in Reports : m.manifest \in Manifests /\ m # NoFile
  /\ \A c \in Plannings : c.at \in Nat
  BY NullAssumption DEF Manifests, Reports, Plannings

\* Init is of the type.
LEMMA InitTypes == Init => TypeOK
<1> SUFFICES ASSUME Init PROVE TypeOK
  OBVIOUS
<1>1. plans \in 0..MaxPlans /\ head \in [Tasks -> 0..MaxHead]
  BY PipelineAssumption DEF Init
<1>2. /\ source \in [Tasks -> Results \cup {NoFile}]
      /\ verdict \in [Tasks -> Verdicts \cup {NoFile}]
      /\ verification \in [Tasks -> Verifications \cup {NoFile}]
  BY DEF Init
<1>3. cmd \in [Operators -> Commands] /\ assign \in [Tasks -> (SUBSET Paths) \cup {NoFile}]
  BY DEF Init, Commands
<1> QED
  BY <1>1, <1>2, <1>3 DEF Init, TypeOK

\* Every file, worktree and command stays of its type.
LEMMA TypeStep ==
  ASSUME TypeOK, FilesInv, CommandsInv, [Next]_vars
  PROVE  TypeOK'
<1> USE PipelineAssumption, NullAssumption DEF planned, trees, judged
<1>t. /\ graph \in Graphs \cup {NoFile}
      /\ assign \in [Tasks -> (SUBSET Paths) \cup {NoFile}]
      /\ manifest \in Manifests \cup {NoFile} /\ plans \in 0..MaxPlans
      /\ runner \in Reports \cup {NoFile}
      /\ worktree \in [Tasks -> BOOLEAN] /\ head \in [Tasks -> 0..MaxHead]
      /\ touched \in [Tasks -> SUBSET Paths]
      /\ source \in [Tasks -> Results \cup {NoFile}]
      /\ result \in [Tasks -> Results \cup {NoFile}]
      /\ verdict \in [Tasks -> Verdicts \cup {NoFile}]
      /\ verification \in [Tasks -> Verifications \cup {NoFile}]
      /\ integration \subseteq Tasks
      /\ cmd \in [Operators -> Commands]
      /\ overlapped \in BOOLEAN
      /\ based \in BOOLEAN /\ again \subseteq Native
  BY DEF TypeOK
<1>e. ASSUME NEW o \in Operators, NEW c \in Commands, Run(o, c)
      PROVE  cmd' \in [Operators -> Commands]
  BY <1>t, <1>e DEF Run
<1>f. ASSUME NEW o \in Operators, End(o) PROVE cmd' \in [Operators -> Commands]
  BY <1>t, <1>f DEF End, Run, Commands
<1>o. ASSUME NEW o \in Operators, Entering(o) PROVE overlapped' \in BOOLEAN
  BY <1>t, <1>o, Zenon DEF Entering
<1>1. ASSUME NEW o \in Operators, Plan(o) PROVE TypeOK'
  <2>1. PICK g \in Graphs :
          graph' = g /\ Run(o, [op |-> "plan", decl |-> g, at |-> plans', left |-> Tasks])
    BY <1>1 DEF Plan
  <2>2. plans' \in 1..MaxPlans
    BY <1>t, <1>1 DEF Plan
  <2>3. [op |-> "plan", decl |-> g, at |-> plans', left |-> Tasks] \in Commands
    BY <2>2 DEF Commands, Plannings
  <2>4. cmd' \in [Operators -> Commands] /\ overlapped' \in BOOLEAN
    BY <1>e, <1>o, <1>1, <2>1, <2>3 DEF Plan
  <2> QED
    BY <1>t, <1>1, <2>1, <2>2, <2>4 DEF Plan, TypeOK
<1>2. ASSUME NEW o \in Operators, WriteAssignment(o) PROVE TypeOK'
  <2>1. cmd[o] \in Plannings
    BY <1>2, CommandKinds DEF WriteAssignment
  <2>2. PICK t \in cmd[o].left :
          /\ assign' = [assign EXCEPT ![t] = cmd[o].decl[t]]
          /\ Run(o, [cmd[o] EXCEPT !.left = @ \ {t}])
    BY <1>2 DEF WriteAssignment
  <2>3. t \in Tasks /\ cmd[o].decl[t] \in SUBSET Paths
    BY <2>1, Declared DEF Plannings
  <2>4. assign' \in [Tasks -> (SUBSET Paths) \cup {NoFile}]
    BY <1>t, <2>2, <2>3
  <2>5. [cmd[o] EXCEPT !.left = @ \ {t}] \in Commands
    BY <2>1 DEF Plannings, Commands
  <2>6. cmd' \in [Operators -> Commands]
    BY <1>e, <2>2, <2>5
  <2> QED
    BY <1>t, <1>2, <2>4, <2>6 DEF WriteAssignment, TypeOK
<1>3. ASSUME NEW o \in Operators, WriteManifest(o) PROVE TypeOK'
  <2>1. manifest' \in Manifests
    BY <1>3, CommandKinds DEF WriteManifest, Plannings, Manifests
  <2> QED
    BY <1>t, <1>3, <1>f, <2>1 DEF WriteManifest, TypeOK
<1>4. ASSUME NEW o \in Operators, Spawn(o) PROVE TypeOK'
  <2>1. PICK prepared \in {{}, {t \in Tasks : Preparable(t)}} :
          /\ runner' = [manifest |-> manifest, eligible |-> prepared]
          /\ worktree' = [t \in Tasks |-> worktree[t] \/ t \in prepared]
    BY <1>4 DEF Spawn
  <2>2. runner' \in Reports
    BY <1>t, <1>4, <2>1 DEF Spawn, GraphPinned, Reports
  <2>3. worktree' \in [Tasks -> BOOLEAN]
    BY <2>1
  <2> QED
    BY <1>t, <1>4, <1>o, <2>2, <2>3 DEF Spawn, TypeOK
<1>5. ASSUME NEW o \in Operators, Cleanup(o) PROVE TypeOK'
  <2>1. worktree' \in [Tasks -> BOOLEAN]
    BY <1>5 DEF Cleanup
  <2> QED
    BY <1>t, <1>5, <1>o, <2>1 DEF Cleanup, TypeOK
<1>6. ASSUME NEW o \in Operators, Invoke(o) PROVE TypeOK'
  <2>1. [op |-> "invoke", runner |-> runner, at |-> [t \in Tasks |-> "check"]] \in Commands
    BY <1>t, <1>6 DEF Invoke, RunnerBound, Commands, Invocations, Positions
  <2> QED
    BY <1>t, <1>6, <1>e, <1>o, <2>1 DEF Invoke, TypeOK
<1>7. ASSUME NEW o \in Operators, NEW t \in Tasks, CheckWorker(o, t) PROVE TypeOK'
  <2>1. cmd[o] \in Invocations
    BY <1>7, CommandKinds DEF CheckWorker, Thread
  <2>2. PICK pc \in Positions : Goto(o, t, pc)
    BY <1>7 DEF CheckWorker, Positions
  <2> QED
    BY <1>t, <1>7, <2>1, <2>2, ThreadMoves DEF CheckWorker, TypeOK
<1>8. ASSUME NEW o \in Operators, NEW t \in Tasks, Work(o, t) PROVE TypeOK'
  <2>1. cmd[o] \in Invocations /\ cmd[o].at[t] = "work"
    BY <1>8, CommandKinds DEF Work, Thread
  <2>2. CASE ~(AtBase(t) /\ assign[t] # {} /\ head[t] < MaxHead)
    <3>1. Goto(o, t, "done") /\ UNCHANGED <<head, touched, source, result>>
      BY <1>8, <2>2 DEF Work
    <3>2. cmd' \in [Operators -> Commands]
      BY <2>1, <3>1, ThreadMoves DEF Positions
    <3> QED
      BY <1>t, <1>8, <3>1, <3>2 DEF Work, TypeOK
  <2>3. CASE AtBase(t) /\ assign[t] # {} /\ head[t] < MaxHead
    <3>1. PICK p \in assign[t], wrote \in BOOLEAN :
            /\ head' = [head EXCEPT ![t] = @ + 1]
            /\ touched' = [touched EXCEPT ![t] = @ \cup {p}]
            /\ Roots(IF wrote
                     THEN [source EXCEPT ![t] = [head |-> HeadAfter(t), decl |-> assign[t],
                                                 actual |-> touched'[t], gaps |-> TRUE]]
                     ELSE source)
            /\ Goto(o, t, IF wrote THEN "bridge" ELSE "done")
      BY <1>8, <2>3 DEF Work
    <3>2. assign[t] \in SUBSET Paths
      BY <1>t, <2>1 DEF CommandsInv
    <3>3. HeadAfter(t) \in 1..MaxHead /\ head' \in [Tasks -> 0..MaxHead]
      BY <1>t, <2>3, <3>1 DEF HeadAfter
    <3>4. touched' \in [Tasks -> SUBSET Paths]
      BY <1>t, <3>1, <3>2
    <3>5. [head |-> HeadAfter(t), decl |-> assign[t], actual |-> touched'[t], gaps |-> TRUE] \in Results
      BY <3>2, <3>3, <3>4 DEF Results
    <3>6. /\ source' \in [Tasks -> Results \cup {NoFile}]
          /\ result' \in [Tasks -> Results \cup {NoFile}]
      BY <1>t, <3>1, <3>5 DEF Roots
    <3>7. cmd' \in [Operators -> Commands]
      BY <2>1, <3>1, ThreadMoves DEF Positions
    <3> QED
      BY <1>t, <1>8, <3>3, <3>4, <3>6, <3>7 DEF Work, TypeOK
  <2> QED
    BY <2>2, <2>3
<1>9. ASSUME NEW o \in Operators, NEW t \in Tasks, Bridge(o, t) PROVE TypeOK'
  <2>1. cmd[o] \in Invocations /\ Goto(o, t, "done")
    BY <1>9, CommandKinds DEF Bridge, Thread
  <2>2. cmd' \in [Operators -> Commands]
    BY <2>1, ThreadMoves DEF Positions
  <2>3. result' \in [Tasks -> Results \cup {NoFile}]
    BY <1>t, <1>9 DEF Bridge
  <2> QED
    BY <1>t, <1>9, <2>2, <2>3 DEF Bridge, TypeOK
<1>10. ASSUME NEW o \in Operators, InvokeEnds(o) \/ Die(o) PROVE TypeOK'
  BY <1>t, <1>10, <1>f DEF InvokeEnds, Die, TypeOK
<1>11. ASSUME NEW t \in Native, NativeCommit(t) PROVE TypeOK'
  <2>1. PICK p \in Paths : touched' = [touched EXCEPT ![t] = @ \cup {p}]
    BY <1>11 DEF NativeCommit
  <2>2. touched' \in [Tasks -> SUBSET Paths]
    BY <1>t, <2>1
  <2>3. head' \in [Tasks -> 0..MaxHead]
    BY <1>t, <1>11 DEF NativeCommit
  <2> QED
    BY <1>t, <1>11, <2>2, <2>3 DEF NativeCommit, TypeOK
<1>12. ASSUME NEW t \in Native, NativeExport(t) PROVE TypeOK'
  <2>1. PICK g \in Graphs : Roots([source EXCEPT ![t] =
          [head |-> head[t], decl |-> g[t], actual |-> touched[t], gaps |-> FALSE]])
    BY <1>12 DEF NativeExport
  <2>2. head[t] \in 1..MaxHead /\ g[t] \in SUBSET Paths /\ touched[t] \in SUBSET Paths
    BY <1>t, <1>12, Declared DEF NativeExport
  <2>3. /\ source' \in [Tasks -> Results \cup {NoFile}]
        /\ result' \in [Tasks -> Results \cup {NoFile}]
    BY <1>t, <2>1, <2>2 DEF Roots, Results
  <2>4. overlapped' \in BOOLEAN
    BY <1>t, <1>12, Zenon DEF NativeExport
  <2>5. again' \subseteq Native
    BY <1>t, <1>12 DEF NativeExport
  <2> QED
    BY <1>t, <1>12, <2>3, <2>4, <2>5 DEF NativeExport, TypeOK
<1>13. ASSUME NEW o \in Operators, NEW t \in Tasks, Import(o, t) PROVE TypeOK'
  <2>1. [op |-> "import", task |-> t] \in Commands
    BY DEF Commands, Imports
  <2> QED
    BY <1>t, <1>13, <1>e, <1>o, <2>1 DEF Import, TypeOK
<1>14. ASSUME NEW o \in Operators, Copy(o) PROVE TypeOK'
  <2>1. cmd[o].task \in Tasks
    BY <1>14, CommandKinds DEF Copy, Imports
  <2>2. result' \in [Tasks -> Results \cup {NoFile}]
    BY <1>t, <1>14, <2>1 DEF Copy, Kept
  <2> QED
    BY <1>t, <1>14, <1>f, <2>2 DEF Copy, TypeOK
<1>15. ASSUME NEW t \in Tasks, Review(t) PROVE TypeOK'
  <2>1. verdict' \in [Tasks -> Verdicts \cup {NoFile}]
    BY <1>t, <1>15 DEF Review, Verdicts
  <2> QED
    BY <1>t, <1>15, <2>1 DEF Review, TypeOK
<1>16. ASSUME NEW t \in Tasks, Verify(t) PROVE TypeOK'
  <2>1. InScope(t, result[t]) \in BOOLEAN
    BY DEF InScope
  <2>2. verification' \in [Tasks -> Verifications \cup {NoFile}]
    BY <1>t, <1>16, <2>1 DEF Verify, Verifications
  <2> QED
    BY <1>t, <1>16, <2>2 DEF Verify, TypeOK
<1>17. CASE Integrate
  BY <1>t, <1>17 DEF Integrate, Accepted, Candidates, TypeOK
<1>18. CASE UNCHANGED vars
  BY <1>t, <1>18 DEF vars, TypeOK
<1> QED
  BY <1>1, <1>2, <1>3, <1>4, <1>5, <1>6, <1>7, <1>8, <1>9, <1>10, <1>11, <1>12, <1>13, <1>14,
     <1>15, <1>16, <1>17, <1>18 DEF Next

-----------------------------------------------------------------------------
(* The files of a task                                                     *)

\* Without a worktree base the result at a root is the one that is judged.
RootsAreResults == \A u \in Tasks : result'[u] = IF based THEN result[u] ELSE source'[u]

\* The fixture commits to a branch at the base, and its result, if it gets to write
\* it, is the first of its task.
FixtureWorks(o, t) ==
  /\ cmd[o] \in Invocations /\ cmd[o].at[t] = "work" /\ RootsAreResults
  /\ \A u \in Tasks : u # t =>
       head'[u] = head[u] /\ touched'[u] = touched[u] /\ source'[u] = source[u]
  /\ \/ Goto(o, t, "done") /\ UNCHANGED <<head, touched, source>>
     \/ /\ head[t] = 0 /\ head'[t] # 0 /\ source[t] = NoFile
        /\ \/ Goto(o, t, "done") /\ source' = source
           \/ /\ Goto(o, t, "bridge")
              /\ source'[t] \in Results
              /\ source'[t].head = head'[t] /\ source'[t].actual = touched'[t]
              /\ source'[t].decl = assign[t] /\ source'[t].gaps
              /\ source'[t].actual \subseteq assign[t]

LEMMA WorkSteps ==
  ASSUME TypeOK, FilesInv, CommandsInv, NEW o \in Operators, NEW t \in Tasks, Work(o, t)
  PROVE  FixtureWorks(o, t)
<1>1. cmd[o] \in Invocations /\ cmd[o].at[t] = "work"
  BY CommandKinds DEF Work, Thread
<1>2. CASE ~(AtBase(t) /\ assign[t] # {} /\ head[t] < MaxHead)
  <2>1. Goto(o, t, "done") /\ UNCHANGED <<head, touched, source, result>>
    BY <1>2 DEF Work
  <2>2. RootsAreResults
    BY <2>1 DEF RootsAreResults, FilesInv
  <2> QED
    BY <1>1, <2>1, <2>2 DEF FixtureWorks
<1>3. CASE AtBase(t) /\ assign[t] # {} /\ head[t] < MaxHead
  <2>1. PICK p \in assign[t], wrote \in BOOLEAN :
          /\ head' = [head EXCEPT ![t] = @ + 1]
          /\ touched' = [touched EXCEPT ![t] = @ \cup {p}]
          /\ Roots(IF wrote
                   THEN [source EXCEPT ![t] = [head |-> HeadAfter(t), decl |-> assign[t],
                                               actual |-> touched'[t], gaps |-> TRUE]]
                   ELSE source)
          /\ Goto(o, t, IF wrote THEN "bridge" ELSE "done")
    BY <1>3 DEF Work
  <2>2. assign[t] \in SUBSET Paths
    BY <1>1 DEF CommandsInv, TypeOK
  <2>3. /\ head[t] = 0 /\ head'[t] = HeadAfter(t) /\ HeadAfter(t) \in 1..MaxHead
        /\ touched'[t] \in SUBSET Paths /\ touched'[t] \subseteq assign[t]
        /\ source[t] = NoFile
    BY <1>3, <2>1, <2>2, PipelineAssumption DEF AtBase, HeadAfter, TypeOK, FilesInv
  <2>4. \A u \in Tasks : u # t =>
          head'[u] = head[u] /\ touched'[u] = touched[u] /\ source'[u] = source[u]
    BY <2>1 DEF Roots, TypeOK
  <2>r. RootsAreResults
    BY <2>1 DEF Roots, RootsAreResults
  <2>5. CASE wrote
    <3>1. /\ Goto(o, t, "bridge")
          /\ source'[t] = [head |-> HeadAfter(t), decl |-> assign[t],
                           actual |-> touched'[t], gaps |-> TRUE]
      BY <2>1, <2>5 DEF Roots, TypeOK
    <3> QED
      BY <1>1, <2>2, <2>3, <2>4, <2>r, <3>1 DEF Results, FixtureWorks
  <2>6. CASE ~wrote
    BY <1>1, <2>1, <2>3, <2>4, <2>r, <2>6 DEF Roots, FixtureWorks
  <2> QED
    BY <2>5, <2>6
<1> QED
  BY <1>2, <1>3

\* A native worker's result names its branch's head.
LEMMA ExportSteps ==
  ASSUME TypeOK, NEW t \in Tasks, NativeExport(t)
  PROVE  /\ head[t] # 0
         /\ source'[t] \in Results
         /\ \A u \in Tasks : u # t => source'[u] = source[u]
         /\ RootsAreResults
<1>1. PICK g \in Graphs : Roots([source EXCEPT ![t] =
        [head |-> head[t], decl |-> g[t], actual |-> touched[t], gaps |-> FALSE]])
  BY DEF NativeExport
<1>2. [head |-> head[t], decl |-> g[t], actual |-> touched[t], gaps |-> FALSE] \in Results
  BY Declared, PipelineAssumption DEF NativeExport, Results, TypeOK
<1> QED
  <2>1. head[t] # 0
    BY PipelineAssumption DEF NativeExport, TypeOK
  <2> HIDE DEF NativeExport
  <2> QED
    BY <1>1, <1>2, <2>1, PipelineAssumption DEF Roots, RootsAreResults, TypeOK

\* A result at a worktree's root and an assignment, once written, stay written.
LEMMA FilesStay ==
  ASSUME TypeOK, FilesInv, CommandsInv, [Next]_vars, NEW t \in Tasks
  PROVE  /\ source[t] # NoFile => source'[t] # NoFile
         /\ assign[t] # NoFile => assign'[t] # NoFile
<1> USE PipelineAssumption, NullAssumption DEF planned, trees, judged
<1>1. ASSUME NEW o \in Operators, WriteAssignment(o) PROVE assign[t] # NoFile => assign'[t] # NoFile
  <2>1. cmd[o] \in Plannings
    BY <1>1, CommandKinds DEF WriteAssignment
  <2>2. PICK u \in cmd[o].left : assign' = [assign EXCEPT ![u] = cmd[o].decl[u]]
    BY <1>1 DEF WriteAssignment
  <2>3. u \in Tasks /\ cmd[o].decl[u] # NoFile
    BY <2>1, Declared DEF Plannings
  <2> QED
    BY <2>2, <2>3 DEF TypeOK
<1>2. ASSUME NEW o \in Operators, NEW u \in Tasks, Work(o, u)
      PROVE  source[t] # NoFile => source'[t] # NoFile
  <2>1. FixtureWorks(o, u)
    BY <1>2, WorkSteps
  <2> QED
    BY <2>1 DEF FixtureWorks
<1>3. ASSUME NEW u \in Native, NativeExport(u) PROVE source[t] # NoFile => source'[t] # NoFile
  BY <1>3, ExportSteps
<1>4. ASSUME source' = source, assign' = assign
      PROVE  /\ source[t] # NoFile => source'[t] # NoFile
             /\ assign[t] # NoFile => assign'[t] # NoFile
  BY <1>4
<1>5. ASSUME NEW o \in Operators, WriteAssignment(o) PROVE source' = source
  BY <1>5 DEF WriteAssignment
<1>6. ASSUME NEW o \in Operators, NEW u \in Tasks, Work(o, u) PROVE assign' = assign
  BY <1>6 DEF Work
<1>7. ASSUME NEW u \in Native, NativeExport(u) PROVE assign' = assign
  BY <1>7 DEF NativeExport
<1>8. ASSUME NEW o \in Operators,
             Plan(o) \/ WriteManifest(o) \/ Spawn(o) \/ Cleanup(o) \/ Invoke(o) \/ InvokeEnds(o)
               \/ Copy(o) \/ Die(o)
      PROVE  source' = source /\ assign' = assign
  BY <1>8 DEF Plan, WriteManifest, Spawn, Cleanup, Invoke, InvokeEnds, Copy, Die
<1>9. ASSUME NEW o \in Operators, NEW u \in Tasks,
             CheckWorker(o, u) \/ Bridge(o, u) \/ Import(o, u)
      PROVE  source' = source /\ assign' = assign
  BY <1>9 DEF CheckWorker, Bridge, Import
<1>10. ASSUME NEW u \in Tasks, NativeCommit(u) \/ Review(u) \/ Verify(u) \/ Integrate
       PROVE  source' = source /\ assign' = assign
  BY <1>10 DEF NativeCommit, Review, Verify, Integrate
<1>11. ASSUME UNCHANGED vars PROVE source' = source /\ assign' = assign
  BY <1>11 DEF vars
<1> QED
  BY <1>1, <1>2, <1>3, <1>4, <1>5, <1>6, <1>7, <1>8, <1>9, <1>10, <1>11 DEF Next

\* The files of a task go on coming one after the other.
LEMMA FilesStep ==
  ASSUME TypeOK, FilesInv, CommandsInv, [Next]_vars
  PROVE  FilesInv'
<1> USE DEF planned, trees, judged
<1>n. Native \subseteq Tasks /\ NoFile \notin Results
  BY PipelineAssumption, NullAssumption
<1>t. /\ head \in [Tasks -> 0..MaxHead] /\ touched \in [Tasks -> SUBSET Paths]
      /\ result \in [Tasks -> Results \cup {NoFile}]
      /\ verdict \in [Tasks -> Verdicts \cup {NoFile}]
      /\ verification \in [Tasks -> Verifications \cup {NoFile}]
  BY DEF TypeOK
<1>1. ASSUME NEW o \in Operators, NEW t \in Tasks, Work(o, t) PROVE FilesInv'
  <2>w. FixtureWorks(o, t)
    BY <1>1, WorkSteps
  <2>1. UNCHANGED <<based, again, verdict, verification, integration>>
    BY <1>1 DEF Work
  <2>2. \A u \in Tasks : source[u] = NoFile => result[u] = NoFile
    BY DEF FilesInv
  <2>r. RootsAreResults
    BY <2>w DEF FixtureWorks
  <2>h. \A u \in Tasks : head'[u] = 0 => touched'[u] = {}
    BY <2>w DEF FixtureWorks, FilesInv
  <2>3. \A u \in Tasks : source'[u] # NoFile => head'[u] # 0
    BY <2>w DEF FixtureWorks, FilesInv
  <2>4. \A u \in Tasks : source[u] # NoFile => source'[u] = source[u]
    BY <2>w DEF FixtureWorks, FilesInv
  <2>5. \A u \in Tasks : u \notin Native /\ source'[u] # NoFile =>
          source'[u].head = head'[u] /\ source'[u].actual = touched'[u] /\ source'[u].gaps
    BY <2>w DEF FixtureWorks, FilesInv
  <2>6. \A u \in Tasks : /\ result[u] # NoFile => result'[u] = result[u]
                         /\ result'[u] = result[u] \/ result'[u] = source'[u]
    BY <2>4, <2>r DEF RootsAreResults, FilesInv
  <2>7. \A u \in Tasks : ~based => result'[u] = source'[u]
    BY <2>r DEF RootsAreResults
  <2> QED
    BY <2>1, <2>2, <2>3, <2>4, <2>5, <2>h, <2>6, <2>7 DEF FilesInv
<1>2. ASSUME NEW o \in Operators, NEW t \in Tasks, Bridge(o, t) PROVE FilesInv'
  <2>1. UNCHANGED <<based, again, source, head, touched, verdict, verification, integration>>
    BY <1>2 DEF Bridge
  <2>2. source[t] # NoFile
    BY <1>2, CommandKinds DEF Bridge, Thread, CommandsInv
  <2>3. \A u \in Tasks : result'[u] = result[u] \/ (u = t /\ result'[u] = source[u])
    <3>1. result' = result \/ result' = [result EXCEPT ![t] = source[t]]
      BY <1>2 DEF Bridge
    <3> QED
      BY <1>t, <3>1
  <2> QED
    BY <2>1, <2>2, <2>3 DEF FilesInv
<1>3. ASSUME NEW o \in Operators, Copy(o) PROVE FilesInv'
  <2>1. UNCHANGED <<based, again, source, head, touched, verdict, verification, integration>>
    BY <1>3 DEF Copy
  <2>2. cmd[o] \in Imports
    BY <1>3, CommandKinds DEF Copy
  <2>3. cmd[o].task \in Tasks /\ source[cmd[o].task] # NoFile
    BY <2>2 DEF CommandsInv, Imports
  <2>4. \A u \in Tasks : \/ result'[u] = result[u]
                         \/ u = cmd[o].task /\ result'[u] = source[u]
    BY <1>t, <1>3, <2>3 DEF Copy, Kept
  <2> QED
    BY <2>1, <2>3, <2>4 DEF FilesInv
<1>4. ASSUME NEW t \in Native, NativeCommit(t) PROVE FilesInv'
  <2>1. UNCHANGED <<based, again, source, result, verdict, verification, integration>>
    BY <1>4 DEF NativeCommit
  <2>2. \A u \in Tasks : \/ head'[u] = head[u] /\ touched'[u] = touched[u]
                         \/ u = t /\ head'[u] # 0
    BY <1>t, <1>n, <1>4 DEF NativeCommit
  <2> QED
    BY <2>1, <2>2 DEF FilesInv
<1>5. ASSUME NEW t \in Native, NativeExport(t) PROVE FilesInv'
  <2>1. /\ UNCHANGED <<based, head, touched, verdict, verification, integration>>
        /\ again \subseteq again' /\ (source[t] # NoFile => t \in again')
    BY <1>5 DEF NativeExport
  <2>2. /\ head[t] # 0 /\ source'[t] \in Results /\ t \in Tasks
        /\ \A u \in Tasks : u # t => source'[u] = source[u]
        /\ RootsAreResults
    BY <1>n, <1>5, ExportSteps
  <2>3. \A u \in Tasks : /\ u # t => result'[u] = result[u]
                         /\ result'[u] # NoFile => result[u] # NoFile \/ result'[u] = source'[u]
                         /\ result[u] # NoFile => result'[u] # NoFile
                         /\ ~based => result'[u] = source'[u]
    BY <1>n, <2>2 DEF RootsAreResults, FilesInv
  <2>4. result'[t] # NoFile /\ t \notin again' => result'[t] = source'[t]
    BY <2>1, <2>2, <2>3 DEF FilesInv
  <2> QED
    BY <1>n, <2>1, <2>2, <2>3, <2>4 DEF FilesInv
<1>6. ASSUME NEW t \in Tasks, Review(t) PROVE FilesInv'
  <2>1. UNCHANGED <<based, again, head, touched, source, result, verification, integration>>
    BY <1>6 DEF Review
  <2>2. \A u \in Tasks : verdict'[u] = verdict[u] \/ (u = t /\ result[u] # NoFile)
    <3>1. PICK v : verdict' = [verdict EXCEPT ![t] = v]
      BY <1>6 DEF Review
    <3> QED
      BY <1>t, <1>6, <3>1 DEF Review
  <2> QED
    BY <2>1, <2>2 DEF FilesInv
<1>7. ASSUME NEW t \in Tasks, Verify(t) PROVE FilesInv'
  <2>1. UNCHANGED <<based, again, head, touched, source, result, verdict, integration>>
    BY <1>7 DEF Verify
  <2>2. \A u \in Tasks : verification'[u] = verification[u] \/ (u = t /\ result[u] # NoFile)
    <3>1. PICK v : verification' = [verification EXCEPT ![t] = v]
      BY <1>7 DEF Verify
    <3> QED
      BY <1>t, <1>7, <3>1 DEF Verify
  <2> QED
    BY <2>1, <2>2 DEF FilesInv
<1>8. CASE Integrate
  <2>1. UNCHANGED <<based, again, head, touched, source, result, verdict, verification>>
    BY <1>8 DEF Integrate
  <2>2. \A u \in integration' : result[u] # NoFile
    BY <1>8 DEF Integrate, Accepted, Candidates, FilesInv
  <2> QED
    BY <2>1, <2>2 DEF FilesInv
<1>9. ASSUME UNCHANGED <<based, again, head, touched, source, result, judged>> PROVE FilesInv'
  BY <1>9 DEF FilesInv
<1>10. ASSUME NEW o \in Operators,
              Plan(o) \/ WriteAssignment(o) \/ WriteManifest(o) \/ Spawn(o) \/ Cleanup(o)
                \/ Invoke(o) \/ InvokeEnds(o) \/ Die(o)
       PROVE  UNCHANGED <<based, again, head, touched, source, result, judged>>
  BY <1>10 DEF Plan, WriteAssignment, WriteManifest, Spawn, Cleanup, Invoke, InvokeEnds, Die
<1>11. ASSUME NEW o \in Operators, NEW t \in Tasks, CheckWorker(o, t) \/ Import(o, t)
       PROVE  UNCHANGED <<based, again, head, touched, source, result, judged>>
  BY <1>11 DEF CheckWorker, Import
<1>12. ASSUME UNCHANGED vars PROVE UNCHANGED <<based, again, head, touched, source, result, judged>>
  BY <1>12 DEF vars
<1> QED
  BY <1>1, <1>2, <1>3, <1>4, <1>5, <1>6, <1>7, <1>8, <1>9, <1>10, <1>11, <1>12 DEF Next

-----------------------------------------------------------------------------
(* The commands                                                            *)

\* What a command found, the next step leaves there.
LEMMA CommandsStep ==
  ASSUME TypeOK, FilesInv, CommandsInv, [Next]_vars
  PROVE  CommandsInv'
<1>t. cmd \in [Operators -> Commands]
  BY DEF TypeOK
<1>s. \A t \in Tasks : /\ source[t] # NoFile => source'[t] # NoFile
                       /\ assign[t] # NoFile => assign'[t] # NoFile
  BY FilesStay
<1>k. ASSUME NEW o \in Operators, NEW c, Run(o, c),
             c \in Imports => source'[c.task] # NoFile,
             c \in Invocations =>
               \A t \in Tasks : /\ c.at[t] = "work" => assign'[t] # NoFile
                                /\ c.at[t] = "bridge" => source'[t] # NoFile
      PROVE  CommandsInv'
  <2>1. \A p \in Operators : cmd'[p] = IF p = o THEN c ELSE cmd[p]
    BY <1>t, <1>k DEF Run
  <2>2. \A p \in Operators : cmd[p] \in Imports => cmd[p].task \in Tasks
    BY DEF Imports
  <2> QED
    BY <1>s, <1>k, <2>1, <2>2 DEF CommandsInv
<1>e. ASSUME NEW o \in Operators, NEW c, Run(o, c), c = Idle \/ c \in Plannings PROVE CommandsInv'
  BY <1>k, <1>e, Kinds
<1>g. ASSUME NEW o \in Operators, NEW t \in Tasks, NEW pc \in Positions, cmd[o] \in Invocations,
             Goto(o, t, pc), pc = "work" => assign[t] # NoFile, pc = "bridge" => source'[t] # NoFile
      PROVE  CommandsInv'
  <2>1. /\ cmd'[o] \in Invocations /\ cmd'[o].at = [cmd[o].at EXCEPT ![t] = pc]
        /\ cmd' = [cmd EXCEPT ![o] = cmd'[o]]
    BY <1>g, ThreadMoves
  <2>2. \A u \in Tasks : /\ cmd'[o].at[u] = "work" => assign'[u] # NoFile
                         /\ cmd'[o].at[u] = "bridge" => source'[u] # NoFile
    <3>1. cmd[o].at \in [Tasks -> Positions]
      BY <1>g DEF Invocations
    <3> QED
      BY <1>g, <1>s, <2>1, <3>1 DEF CommandsInv
  <2> QED
    BY <1>k, <2>1, <2>2, Kinds DEF Run
<1>u. ASSUME cmd' = cmd PROVE CommandsInv'
  <2>1. \A p \in Operators : cmd[p] \in Imports => cmd[p].task \in Tasks
    BY DEF Imports
  <2> QED
    BY <1>s, <1>u, <2>1 DEF CommandsInv
<1>1. ASSUME NEW o \in Operators, Plan(o) PROVE CommandsInv'
  <2>1. PICK g \in Graphs :
          Run(o, [op |-> "plan", decl |-> g, at |-> plans', left |-> Tasks])
    BY <1>1 DEF Plan
  <2>2. plans' \in 1..MaxPlans
    BY <1>1, PipelineAssumption DEF Plan, TypeOK
  <2> QED
    BY <1>e, <2>1, <2>2 DEF Plannings
<1>2. ASSUME NEW o \in Operators, WriteAssignment(o) PROVE CommandsInv'
  <2>1. PICK t \in cmd[o].left : Run(o, [cmd[o] EXCEPT !.left = @ \ {t}])
    BY <1>2 DEF WriteAssignment
  <2>2. cmd[o] \in Plannings
    BY <1>2, CommandKinds DEF WriteAssignment
  <2>3. [cmd[o] EXCEPT !.left = @ \ {t}] \in Plannings
    BY <2>2 DEF Plannings
  <2> QED
    BY <1>e, <2>1, <2>3
<1>3. ASSUME NEW o \in Operators, WriteManifest(o) \/ InvokeEnds(o) \/ Copy(o) \/ Die(o)
      PROVE  CommandsInv'
  BY <1>3, <1>e DEF WriteManifest, InvokeEnds, Copy, Die, End
<1>4. ASSUME NEW o \in Operators, Invoke(o) PROVE CommandsInv'
  <2> DEFINE c == [op |-> "invoke", runner |-> runner, at |-> [t \in Tasks |-> "check"]]
  <2>1. Run(o, c) /\ c.op = "invoke" /\ \A t \in Tasks : c.at[t] = "check"
    BY <1>4 DEF Invoke
  <2> HIDE DEF c
  <2> QED
    BY <1>k, <2>1, Kinds
<1>5. ASSUME NEW o \in Operators, NEW t \in Tasks, CheckWorker(o, t) PROVE CommandsInv'
  <2>1. cmd[o] \in Invocations
    BY <1>5, CommandKinds DEF CheckWorker, Thread
  <2>2. PICK pc \in Positions :
          Goto(o, t, pc) /\ pc # "bridge" /\ (pc = "work" => assign[t] = cmd[o].runner.manifest.decl[t])
    BY <1>5 DEF CheckWorker, Positions
  <2>3. cmd[o].runner.manifest.decl[t] # NoFile
    <3>1. cmd[o].runner.manifest \in Manifests
      BY <2>1 DEF Invocations, Reports
    <3> QED
      BY <3>1, Declared, NullAssumption
  <2> QED
    BY <1>g, <2>1, <2>2, <2>3
<1>6. ASSUME NEW o \in Operators, NEW t \in Tasks, Work(o, t) PROVE CommandsInv'
  <2>1. FixtureWorks(o, t)
    BY <1>6, WorkSteps
  <2> QED
    BY <1>g, <2>1, NullAssumption DEF FixtureWorks, Positions
<1>7. ASSUME NEW o \in Operators, NEW t \in Tasks, Bridge(o, t) PROVE CommandsInv'
  <2>1. cmd[o] \in Invocations /\ Goto(o, t, "done")
    BY <1>7, CommandKinds DEF Bridge, Thread
  <2> QED
    BY <1>g, <2>1 DEF Positions
<1>8. ASSUME NEW o \in Operators, NEW t \in Tasks, Import(o, t) PROVE CommandsInv'
  <2> DEFINE c == [op |-> "import", task |-> t]
  <2>1. Run(o, c) /\ c \in Imports /\ c.task = t /\ source[t] # NoFile
    BY <1>8 DEF Import, Imports
  <2> HIDE DEF c
  <2> QED
    BY <1>k, <1>s, <2>1, Kinds
<1>9. ASSUME NEW o \in Operators, Spawn(o) \/ Cleanup(o) PROVE cmd' = cmd
  BY <1>9 DEF Spawn, Cleanup
<1>10. ASSUME NEW t \in Tasks, NativeCommit(t) \/ NativeExport(t) \/ Review(t) \/ Verify(t) PROVE cmd' = cmd
  BY <1>10 DEF NativeCommit, NativeExport, Review, Verify
<1>11. ASSUME Integrate \/ UNCHANGED vars PROVE cmd' = cmd
  BY <1>11 DEF Integrate, vars
<1>n. Native \subseteq Tasks
  BY PipelineAssumption
<1> QED
  BY <1>n, <1>u, <1>1, <1>2, <1>3, <1>4, <1>5, <1>6, <1>7, <1>8, <1>9, <1>10, <1>11 DEF Next

\* A plan's manifest is numbered by it.
LEMMA NumbersStep ==
  ASSUME TypeOK, NumbersInv, [Next]_vars
  PROVE  NumbersInv'
<1> USE DEF planned
<1>t. cmd \in [Operators -> Commands] /\ plans \in Nat /\ plans + 1 > plans
  BY PipelineAssumption DEF TypeOK
<1>m. /\ \A m \in Manifests : m.at \in Nat /\ m # NoFile
      /\ \A m \in Reports : m.manifest \in Manifests /\ m # NoFile
      /\ \A c \in Plannings : c.at \in Nat
  BY Numbered
<1>k. ASSUME NEW o \in Operators, NEW c, Run(o, c), c \in Plannings => c.at <= plans',
             plans' \in Nat, plans <= plans'
      PROVE  \A p \in Operators : cmd'[p] \in Plannings => cmd'[p].at <= plans'
  <2>1. \A p \in Operators : cmd'[p] = IF p = o THEN c ELSE cmd[p]
    BY <1>t, <1>k DEF Run
  <2> QED
    BY <1>t, <1>m, <1>k, <2>1 DEF NumbersInv
<1>1. ASSUME NEW o \in Operators, Plan(o) PROVE NumbersInv'
  <2>1. PICK g \in Graphs :
          Run(o, [op |-> "plan", decl |-> g, at |-> plans', left |-> Tasks])
    BY <1>1 DEF Plan
  <2>2. plans' = plans + 1 /\ UNCHANGED <<manifest, runner>>
    BY <1>1 DEF Plan
  <2>3. \A p \in Operators : cmd'[p] \in Plannings => cmd'[p].at <= plans'
    BY <1>k, <1>t, <2>1, <2>2
  <2> QED
    BY <1>t, <1>m, <2>2, <2>3 DEF NumbersInv, TypeOK
<1>2. ASSUME NEW o \in Operators, WriteAssignment(o) PROVE NumbersInv'
  <2>1. PICK t \in cmd[o].left : Run(o, [cmd[o] EXCEPT !.left = @ \ {t}])
    BY <1>2 DEF WriteAssignment
  <2> DEFINE c == [cmd[o] EXCEPT !.left = @ \ {t}]
  <2>2. cmd[o] \in Plannings /\ UNCHANGED <<manifest, runner, plans>>
    BY <1>2, CommandKinds DEF WriteAssignment
  <2>3. Run(o, c) /\ c.at = cmd[o].at
    BY <2>1, <2>2 DEF Plannings
  <2>4. cmd[o].at <= plans
    BY <2>2 DEF NumbersInv
  <2> HIDE DEF c
  <2>5. \A p \in Operators : cmd'[p] \in Plannings => cmd'[p].at <= plans'
    BY <1>t, <1>k, <2>2, <2>3, <2>4
  <2> QED
    BY <2>2, <2>5 DEF NumbersInv
<1>3. ASSUME NEW o \in Operators, WriteManifest(o) PROVE NumbersInv'
  <2>1. cmd[o] \in Plannings /\ UNCHANGED <<runner, plans>> /\ Run(o, Idle) /\ manifest'.at = cmd[o].at
    BY <1>3, CommandKinds DEF WriteManifest, End
  <2> QED
    BY <1>t, <1>k, <2>1, Kinds DEF NumbersInv
<1>4. ASSUME NEW o \in Operators, Spawn(o) PROVE NumbersInv'
  <2>1. /\ UNCHANGED <<manifest, plans, cmd>> /\ runner'.manifest = manifest
        /\ manifest # NoFile
    BY <1>4 DEF Spawn, GraphPinned
  <2> QED
    BY <2>1 DEF NumbersInv
<1>u. ASSUME UNCHANGED <<manifest, runner, plans>>,
             cmd' = cmd \/ \E o \in Operators : \E c : Run(o, c) /\ c \notin Plannings
      PROVE  NumbersInv'
  BY <1>t, <1>u, <1>k DEF NumbersInv
<1>5. ASSUME NEW o \in Operators, InvokeEnds(o) \/ Copy(o) \/ Die(o) PROVE NumbersInv'
  <2>1. UNCHANGED <<manifest, runner, plans>> /\ Run(o, Idle)
    BY <1>5 DEF InvokeEnds, Copy, Die, End
  <2> QED
    BY <1>u, <2>1, Kinds
<1>6. ASSUME NEW o \in Operators, Invoke(o) PROVE NumbersInv'
  <2> DEFINE c == [op |-> "invoke", runner |-> runner, at |-> [t \in Tasks |-> "check"]]
  <2>1. UNCHANGED <<manifest, runner, plans>> /\ Run(o, c) /\ c.op = "invoke"
    BY <1>6 DEF Invoke
  <2> HIDE DEF c
  <2> QED
    BY <1>u, <2>1, Kinds
<1>7. ASSUME NEW o \in Operators, NEW t \in Tasks, Import(o, t) PROVE NumbersInv'
  <2> DEFINE c == [op |-> "import", task |-> t]
  <2>1. UNCHANGED <<manifest, runner, plans>> /\ Run(o, c) /\ c.op = "import"
    BY <1>7 DEF Import
  <2> HIDE DEF c
  <2> QED
    BY <1>u, <2>1, Kinds
<1>8. ASSUME NEW o \in Operators, NEW t \in Tasks, CheckWorker(o, t) \/ Work(o, t) \/ Bridge(o, t)
      PROVE  NumbersInv'
  <2>1. UNCHANGED <<manifest, runner, plans>> /\ cmd[o] \in Invocations
    BY <1>8, CommandKinds DEF CheckWorker, Work, Bridge, Thread
  <2>2. PICK pc \in Positions : Goto(o, t, pc)
    BY <1>8 DEF CheckWorker, Work, Bridge, Positions
  <2>3. Run(o, cmd'[o]) /\ cmd'[o] \in Invocations
    BY <2>1, <2>2, ThreadMoves DEF Run
  <2> QED
    BY <1>u, <2>1, <2>3, Kinds
<1>9. ASSUME NEW o \in Operators, Cleanup(o) PROVE NumbersInv'
  BY <1>u, <1>9 DEF Cleanup
<1>10. ASSUME NEW t \in Tasks, NativeCommit(t) \/ NativeExport(t) \/ Review(t) \/ Verify(t)
       PROVE  NumbersInv'
  BY <1>u, <1>10 DEF NativeCommit, NativeExport, Review, Verify
<1>11. CASE Integrate \/ UNCHANGED vars
  BY <1>u, <1>11 DEF Integrate, vars
<1>n. Native \subseteq Tasks
  BY PipelineAssumption
<1> QED
  BY <1>n, <1>1, <1>2, <1>3, <1>4, <1>5, <1>6, <1>7, <1>8, <1>9, <1>10, <1>11 DEF Next

-----------------------------------------------------------------------------
(* One command at a time                                                   *)

\* A command that is at work is alone.
LEMMA Solo ==
  ASSUME TypeOK, AloneInv, NEW o \in Operators, ~Free(o)
  PROVE  \A p \in Operators \ {o} : cmd[p] = Idle
  BY DEF AloneInv, Alone, Free

\* One that enters unnoticed is alone, too.
LEMMA EntersAlone ==
  ASSUME NEW o \in Operators, Entering(o), ~overlapped'
  PROVE  \A p \in Operators \ {o} : cmd[p] = Idle
  BY DEF Entering, Free

\* What o runs next is all there is.
LEMMA RunsAlone ==
  ASSUME TypeOK, NEW o \in Operators, NEW c, Run(o, c), \A p \in Operators \ {o} : cmd[p] = Idle
  PROVE  cmd'[o] = c /\ \A p \in Operators \ {o} : cmd'[p] = Idle
  BY DEF Run, TypeOK

\* So o's command is the only one that must be bound.
LEMMA AloneBound ==
  ASSUME NEW o \in Operators, \A p \in Operators \ {o} : cmd'[p] = Idle, Bound(o)'
  PROVE  (Alone /\ \A p \in Operators : Bound(p))'
<1>1. ASSUME NEW p \in Operators PROVE Bound(p)'
  <2>1. CASE p = o
    BY <2>1
  <2>2. CASE p # o
    <3>1. cmd'[p] = Idle
      BY <2>2
    <3> QED
      BY <3>1, Kinds DEF Bound, PlanAhead, InvokedBound, ImportBound
  <2> QED
    BY <2>1, <2>2
<1>2. Alone'
  BY DEF Alone, Free
<1> QED
  BY <1>1, <1>2

\* A command that is over is bound to nothing.
LEMMA IdleBound ==
  ASSUME NEW o \in Operators, cmd'[o] = Idle
  PROVE  Bound(o)'
  BY Kinds DEF Bound, PlanAhead, InvokedBound, ImportBound

\* The plan writes its files: workers spawned for the manifest before are of no use.
LEMMA PlanAlone ==
  ASSUME TypeOK, NumbersInv, AloneInv, ~overlapped', NEW o \in Operators,
         Plan(o) \/ WriteAssignment(o) \/ WriteManifest(o)
  PROVE  AloneInv'
<1> USE DEF planned, trees, judged
<1>t. manifest \in Manifests \cup {NoFile} /\ runner \in Reports \cup {NoFile} /\ plans \in Nat
  BY PipelineAssumption DEF TypeOK
<1>1. CASE Plan(o)
  <2>1. PICK g \in Graphs :
          Run(o, [op |-> "plan", decl |-> g, at |-> plans', left |-> Tasks])
    BY <1>1 DEF Plan
  <2> DEFINE c == [op |-> "plan", decl |-> g, at |-> plans', left |-> Tasks]
  <2>2. Run(o, c) /\ c.op = "plan" /\ c.at = plans + 1
    BY <1>1, <2>1 DEF Plan
  <2>3. Entering(o) /\ UNCHANGED <<based, again, manifest, runner, result, verdict, verification>>
    BY <1>1 DEF Plan
  <2> HIDE DEF c
  <2>4. cmd'[o] = c /\ \A p \in Operators \ {o} : cmd'[p] = Idle
    BY <2>2, <2>3, EntersAlone, RunsAlone
  <2>5. Bound(o)'
    <3>1. PlanAhead(cmd[o])'
      BY <1>t, <2>2, <2>3, <2>4, Numbered DEF PlanAhead, NumbersInv
    <3>2. InvokedBound(cmd[o])' /\ ImportBound(cmd[o])'
      BY <2>2, <2>4, Kinds DEF InvokedBound, ImportBound
    <3> QED
      BY <3>1, <3>2 DEF Bound
  <2>6. WithinPlan' /\ Current'
    BY <2>3 DEF AloneInv, WithinPlan, RunnerBound, Current
  <2> QED
    BY <2>4, <2>5, <2>6, AloneBound DEF AloneInv
<1>2. CASE WriteAssignment(o)
  <2>1. PICK t \in cmd[o].left : Run(o, [cmd[o] EXCEPT !.left = @ \ {t}])
    BY <1>2 DEF WriteAssignment
  <2> DEFINE c == [cmd[o] EXCEPT !.left = @ \ {t}]
  <2>2. cmd[o] \in Plannings /\ UNCHANGED <<based, again, manifest, runner, result, verdict, verification>>
    BY <1>2, CommandKinds DEF WriteAssignment
  <2>3. Run(o, c) /\ c.op = "plan" /\ c.at = cmd[o].at
    BY <2>1, <2>2 DEF Plannings
  <2> HIDE DEF c
  <2>4. cmd'[o] = c /\ \A p \in Operators \ {o} : cmd'[p] = Idle
    BY <2>2, <2>3, Kinds, Solo, RunsAlone DEF Free
  <2>5. Bound(o)'
    <3>1. PlanAhead(cmd[o])'
      BY <2>2, <2>3, <2>4 DEF AloneInv, Bound, PlanAhead
    <3>2. InvokedBound(cmd[o])' /\ ImportBound(cmd[o])'
      BY <2>3, <2>4, Kinds DEF InvokedBound, ImportBound
    <3> QED
      BY <3>1, <3>2 DEF Bound
  <2>6. WithinPlan' /\ Current'
    BY <2>2 DEF AloneInv, WithinPlan, RunnerBound, Current
  <2> QED
    BY <2>4, <2>5, <2>6, AloneBound DEF AloneInv
<1>3. CASE WriteManifest(o)
  <2>1. /\ cmd[o] \in Plannings /\ Run(o, Idle) /\ manifest'.at = cmd[o].at
        /\ UNCHANGED <<based, again, runner, result, verdict, verification>>
    BY <1>3, CommandKinds DEF WriteManifest, End
  <2>2. cmd'[o] = Idle /\ \A p \in Operators \ {o} : cmd'[p] = Idle
    BY <2>1, Kinds, Solo, RunsAlone DEF Free
  <2>3. ~RunnerBound'
    <3>1. runner # NoFile => runner.manifest.at < cmd[o].at
      BY <2>1 DEF AloneInv, Bound, PlanAhead
    <3> QED
      BY <1>t, <2>1, <3>1, Numbered DEF RunnerBound
  <2>4. WithinPlan' /\ Current'
    BY <2>1, <2>3 DEF AloneInv, WithinPlan, Current
  <2> QED
    BY <2>2, <2>4, AloneBound, IdleBound DEF AloneInv
<1> QED
  BY <1>1, <1>2, <1>3

\* What is prepared under the manifest has no result yet.
LEMMA SpawnAlone ==
  ASSUME TypeOK, FilesInv, AloneInv, ~overlapped', NEW o \in Operators, Spawn(o)
  PROVE  AloneInv'
<1> USE DEF planned, trees, judged
<1>1. PICK prepared \in {{}, {t \in Tasks : Preparable(t)}} :
        runner' = [manifest |-> manifest, eligible |-> prepared]
  BY DEF Spawn
<1>2. /\ Free(o) /\ Entering(o)
      /\ UNCHANGED <<based, again, manifest, source, result, verdict, verification, cmd>>
  BY DEF Spawn
<1>3. \A t \in prepared : t \in Tasks /\ head[t] = 0
  BY <1>1 DEF Preparable
<1>4. runner'.eligible = prepared
  BY <1>1
<1> HIDE DEF Spawn
<1>5. cmd'[o] = Idle /\ \A p \in Operators \ {o} : cmd'[p] = Idle
  BY <1>2, EntersAlone DEF Free
<1>6. WithinPlan'
  BY <1>2, <1>3, <1>4 DEF WithinPlan, FilesInv
<1>7. Current'
  BY <1>2 DEF AloneInv, Current
<1> QED
  BY <1>5, <1>6, <1>7, AloneBound, IdleBound DEF AloneInv

\* The fixture works under the manifest its worktree was prepared for.
LEMMA InvokeAlone ==
  ASSUME TypeOK, AloneInv, ~overlapped', NEW o \in Operators, Invoke(o)
  PROVE  AloneInv'
<1> USE DEF planned, trees, judged
<1> DEFINE c == [op |-> "invoke", runner |-> runner, at |-> [t \in Tasks |-> "check"]]
<1>1. /\ Run(o, c) /\ c.op = "invoke" /\ c.runner = runner /\ \A t \in Tasks : c.at[t] = "check"
      /\ RunnerBound /\ Entering(o)
      /\ UNCHANGED <<based, again, manifest, runner, result, verdict, verification>>
  BY DEF Invoke
<1> HIDE DEF c, Invoke
<1>2. cmd'[o] = c /\ \A p \in Operators \ {o} : cmd'[p] = Idle
  BY <1>1, EntersAlone, RunsAlone
<1>3. RunnerBound'
  BY <1>1 DEF RunnerBound
<1>4. Bound(o)'
  BY <1>1, <1>2, <1>3, Kinds DEF Bound, PlanAhead, InvokedBound, ImportBound
<1>5. WithinPlan' /\ Current'
  BY <1>1 DEF AloneInv, WithinPlan, RunnerBound, Current
<1> QED
  BY <1>2, <1>4, <1>5, AloneBound DEF AloneInv

\* A worker's thread keeps to the manifest in force, and finds no result of its task
\* when it has made one.
LEMMA ThreadAlone ==
  ASSUME TypeOK, FilesInv, CommandsInv, AloneInv, NEW o \in Operators, NEW t \in Tasks,
         CheckWorker(o, t) \/ Work(o, t) \/ Bridge(o, t)
  PROVE  AloneInv'
<1> USE DEF planned, trees, judged
<1>1. cmd[o] \in Invocations /\ UNCHANGED <<based, again, manifest, runner, assign, verdict, verification>>
  BY CommandKinds DEF CheckWorker, Work, Bridge, Thread
<1>2. \A p \in Operators \ {o} : cmd[p] = Idle
  BY <1>1, Kinds, Solo DEF Free
<1>3. /\ RunnerBound /\ cmd[o].runner = runner
      /\ \A u \in Tasks :
           /\ cmd[o].at[u] = "work" => u \in runner.eligible /\ assign[u] = manifest.decl[u]
           /\ cmd[o].at[u] = "bridge" =>
                /\ based => result[u] = NoFile
                /\ u \in runner.eligible /\ source[u].decl = manifest.decl[u]
  BY <1>1 DEF AloneInv, Bound, InvokedBound
<1>el. runner.eligible \subseteq Tasks
  BY <1>3 DEF TypeOK, Reports, RunnerBound
<1>4. RunnerBound'
  BY <1>1, <1>3 DEF RunnerBound
<1>m. ASSUME NEW pc \in Positions, Goto(o, t, pc),
             pc = "work" => t \in runner.eligible /\ assign[t] = manifest.decl[t],
             pc = "bridge" =>
               /\ based => result'[t] = NoFile
               /\ t \in runner.eligible /\ source'[t].decl = manifest.decl[t],
             \A u \in Tasks \ {t} : result'[u] = result[u] /\ source'[u] = source[u]
      PROVE  (Alone /\ \A p \in Operators : Bound(p))'
  <2>1. /\ cmd'[o] \in Invocations /\ cmd'[o].runner = cmd[o].runner
        /\ cmd'[o].at = [cmd[o].at EXCEPT ![t] = pc]
        /\ cmd' = [cmd EXCEPT ![o] = cmd'[o]]
    BY <1>1, <1>m, ThreadMoves
  <2>2. cmd[o].at \in [Tasks -> Positions]
    BY <1>1 DEF Invocations
  <2>3. \A p \in Operators \ {o} : cmd'[p] = Idle
    BY <1>2, <2>1, RunsAlone DEF Run
  <2>4. InvokedBound(cmd[o])'
    BY <1>1, <1>3, <1>4, <1>m, <2>1, <2>2 DEF InvokedBound
  <2>5. Bound(o)'
    BY <2>1, <2>4, Kinds DEF Bound, PlanAhead, ImportBound
  <2> QED
    BY <2>3, <2>5, AloneBound
<1>5. CASE CheckWorker(o, t)
  <2>1. UNCHANGED <<source, result>>
    BY <1>5 DEF CheckWorker
  <2>2. PICK pc \in Positions :
          /\ Goto(o, t, pc) /\ pc # "bridge"
          /\ pc = "work" => /\ t \in cmd[o].runner.eligible
                            /\ assign[t] = cmd[o].runner.manifest.decl[t]
    BY <1>5 DEF CheckWorker, Positions
  <2>3. (Alone /\ \A p \in Operators : Bound(p))'
    BY <1>3, <1>m, <2>1, <2>2 DEF RunnerBound
  <2> QED
    BY <1>1, <2>1, <2>3 DEF AloneInv, WithinPlan, RunnerBound, Current
<1>6. CASE Work(o, t)
  <2>1. FixtureWorks(o, t)
    BY <1>6, WorkSteps
  <2>r. \A u \in Tasks \ {t} : result'[u] = result[u] /\ source'[u] = source[u]
    BY <2>1 DEF FixtureWorks, RootsAreResults, FilesInv
  <2>2. CASE Goto(o, t, "done") /\ source' = source
    <3>1. (Alone /\ \A p \in Operators : Bound(p))'
      BY <1>m, <2>r, <2>2 DEF Positions
    <3>2. \A u \in Tasks : result'[u] = result[u]
      BY <2>1, <2>2 DEF FixtureWorks, RootsAreResults, FilesInv
    <3>3. WithinPlan' /\ Current'
      BY <1>1, <1>3, <1>el, <3>2 DEF AloneInv, WithinPlan, RunnerBound, Current
    <3> QED
      BY <3>1, <3>3 DEF AloneInv
  <2>3. CASE /\ Goto(o, t, "bridge") /\ source[t] = NoFile /\ source'[t].decl = assign[t]
             /\ source'[t].actual \subseteq assign[t]
    <3>1. result[t] = NoFile /\ verdict[t] = NoFile /\ verification[t] = NoFile
      BY <2>3 DEF FilesInv
    <3>2. t \in runner.eligible /\ assign[t] = manifest.decl[t]
      BY <1>3, <2>1 DEF FixtureWorks
    <3>4. result'[t] = IF based THEN NoFile ELSE source'[t]
      BY <2>1, <3>1 DEF FixtureWorks, RootsAreResults
    <3>3. (Alone /\ \A p \in Operators : Bound(p))'
      BY <1>m, <2>r, <2>3, <3>2, <3>4 DEF Positions
    <3>5. WithinPlan'
      <4>1. result'[t] # NoFile => result'[t].actual \subseteq manifest.decl[t]
        BY <2>3, <3>2, <3>4
      <4> QED
        BY <1>1, <1>3, <1>el, <2>r, <4>1 DEF AloneInv, WithinPlan
    <3>6. Current'
      BY <1>1, <2>r, <3>1 DEF AloneInv, Current
    <3> QED
      BY <3>3, <3>5, <3>6 DEF AloneInv
  <2> QED
    BY <2>1, <2>2, <2>3 DEF FixtureWorks
<1>7. CASE Bridge(o, t)
  <2>1. /\ cmd[o].at[t] = "bridge" /\ Goto(o, t, "done") /\ UNCHANGED source
        /\ \/ result' = result
           \/ /\ source[t].actual \subseteq source[t].decl
              /\ result' = [result EXCEPT ![t] = source[t]]
    BY <1>7 DEF Bridge, Thread
  <2>2. /\ based => result[t] = NoFile
        /\ t \in runner.eligible /\ source[t].decl = manifest.decl[t]
    BY <1>3, <2>1
  <2>3. /\ \A u \in Tasks \ {t} : result'[u] = result[u]
        /\ \/ result'[t] = result[t]
           \/ /\ based /\ result[t] = NoFile
              /\ result'[t] = source[t] /\ source[t].actual \subseteq source[t].decl
    BY <2>1, <2>2 DEF TypeOK, FilesInv
  <2>4. (Alone /\ \A p \in Operators : Bound(p))'
    BY <1>m, <2>1, <2>3 DEF Positions
  <2>5. result'[t] = result[t] \/ result'[t].actual \subseteq manifest.decl[t]
    BY <2>2, <2>3
  <2>6. WithinPlan'
    BY <1>1, <1>3, <1>el, <2>3, <2>5 DEF AloneInv, WithinPlan
  <2>7. Current'
    BY <1>1, <2>3 DEF AloneInv, FilesInv, Current
  <2> QED
    BY <2>4, <2>6, <2>7 DEF AloneInv
<1> QED
  BY <1>5, <1>6, <1>7

\* A command that ends, or dies, leaves nothing behind that was not there.
LEMMA EndAlone ==
  ASSUME TypeOK, AloneInv, NEW o \in Operators, InvokeEnds(o) \/ Die(o)
  PROVE  AloneInv'
<1> USE DEF planned, trees, judged
<1>1. /\ ~Free(o) /\ Run(o, Idle)
      /\ UNCHANGED <<based, again, manifest, runner, result, verdict, verification>>
  BY DEF InvokeEnds, Die, End, Free, Idle
<1>2. cmd'[o] = Idle /\ \A p \in Operators \ {o} : cmd'[p] = Idle
  BY <1>1, Solo, RunsAlone
<1>3. WithinPlan' /\ Current'
  BY <1>1 DEF AloneInv, WithinPlan, RunnerBound, Current
<1> QED
  BY <1>2, <1>3, AloneBound, IdleBound DEF AloneInv

\* import takes in what it has judged.
LEMMA ImportAlone ==
  ASSUME TypeOK, FilesInv, CommandsInv, AloneInv, ~overlapped', NEW o \in Operators,
         Copy(o) \/ \E t \in Tasks : Import(o, t)
  PROVE  AloneInv'
<1> USE DEF planned, trees, judged
<1>1. ASSUME NEW t \in Tasks, Import(o, t) PROVE AloneInv'
  <2> DEFINE c == [op |-> "import", task |-> t]
  <2>1. Run(o, c) /\ c.op = "import" /\ c.task = t
    BY <1>1 DEF Import
  <2>2. /\ RunnerBound /\ Pinned(t) /\ Importable(t, source[t]) /\ Entering(o)
        /\ UNCHANGED <<based, again, manifest, runner, source, result, verdict, verification>>
    BY <1>1 DEF Import
  <2> HIDE DEF c
  <2>3. cmd'[o] = c /\ \A p \in Operators \ {o} : cmd'[p] = Idle
    BY <2>1, <2>2, EntersAlone, RunsAlone
  <2>4. ImportBound(cmd[o])'
    BY <2>1, <2>2, <2>3 DEF ImportBound, RunnerBound, Pinned, Importable
  <2>5. Bound(o)'
    BY <2>1, <2>3, <2>4, Kinds DEF Bound, PlanAhead, InvokedBound
  <2>6. WithinPlan' /\ Current'
    BY <2>2 DEF AloneInv, WithinPlan, RunnerBound, Current
  <2> QED
    BY <2>3, <2>5, <2>6, AloneBound DEF AloneInv
<1>2. CASE Copy(o)
  <2> DEFINE t == cmd[o].task
  <2>1. /\ cmd[o] \in Imports /\ Run(o, Idle)
        /\ result' = [result EXCEPT ![t] = Kept(result[t], source[t])]
        /\ UNCHANGED <<based, again, manifest, runner, source, verdict, verification>>
    BY <1>2, CommandKinds DEF Copy, End
  <2>2. t \in Tasks /\ source[t].actual \subseteq manifest.decl[t]
    BY <2>1 DEF AloneInv, Bound, ImportBound, Imports
  <2> HIDE DEF t
  <2>3. cmd'[o] = Idle /\ \A p \in Operators \ {o} : cmd'[p] = Idle
    BY <2>1, Kinds, Solo, RunsAlone DEF Free
  <2>4. \A u \in Tasks : \/ result'[u] = result[u]
                         \/ u = t /\ result[u] = NoFile /\ result'[u] = source[u]
    BY <2>1, <2>2 DEF Kept, TypeOK
  <2>5. WithinPlan'
    BY <2>1, <2>2, <2>4 DEF AloneInv, WithinPlan, RunnerBound
  <2>6. Current'
    BY <2>1, <2>4 DEF AloneInv, FilesInv, Current
  <2> QED
    BY <2>3, <2>5, <2>6, AloneBound, IdleBound DEF AloneInv
<1> QED
  BY <1>1, <1>2

\* What a native worker exports, no command is about to read.
LEMMA NativeAlone ==
  ASSUME TypeOK, FilesInv, AloneInv, ~overlapped', NEW t \in Native,
         NativeCommit(t) \/ NativeExport(t)
  PROVE  AloneInv'
<1> USE DEF planned, trees, judged
<1>n. t \in Tasks
  BY PipelineAssumption
<1>1. UNCHANGED <<based, cmd, manifest, runner, assign, verdict, verification>>
  BY DEF NativeCommit, NativeExport
<1>a. Alone'
  BY <1>1 DEF AloneInv, Alone, Free
<1>e. RunnerBound => runner.eligible \subseteq Tasks
  BY DEF TypeOK, Reports, RunnerBound
<1>2. ASSUME \A u \in Tasks : result'[u] = result[u] \/ (u = t /\ ~based),
             again \subseteq again', 
             based \/ t \in again' \/ (verdict[t] = NoFile /\ verification[t] = NoFile)
      PROVE  Alone' /\ WithinPlan' /\ Current'
  <2>1. WithinPlan'
    BY <1>1, <1>2, <1>e DEF AloneInv, WithinPlan, RunnerBound
  <2>2. Current'
    BY <1>1, <1>2 DEF AloneInv, Current
  <2> QED
    BY <1>a, <2>1, <2>2
<1>3. CASE NativeCommit(t)
  <2>1. source' = source /\ result' = result /\ again' = again
    BY <1>3 DEF NativeCommit
  <2>3. Alone' /\ WithinPlan' /\ Current'
    BY <1>1, <1>a, <2>1 DEF AloneInv, WithinPlan, RunnerBound, Current
  <2>2. \A o \in Operators : Bound(o)'
    BY <1>1, <2>1 DEF AloneInv, Bound, PlanAhead, InvokedBound, ImportBound, RunnerBound
  <2> QED
    BY <2>2, <2>3 DEF AloneInv
<1>4. CASE NativeExport(t)
  <2>1. ~Reading(t)
    BY <1>4 DEF NativeExport
  <2>2. /\ RootsAreResults
        /\ \A u \in Tasks : u # t => source'[u] = source[u]
    BY <1>n, <1>4, ExportSteps
  <2>4. \A u \in Tasks : result'[u] = result[u] \/ (u = t /\ ~based)
    BY <2>2 DEF RootsAreResults, FilesInv
  <2>5. /\ again \subseteq again'
        /\ based \/ t \in again' \/ (verdict[t] = NoFile /\ verification[t] = NoFile)
    BY <1>n, <1>4 DEF NativeExport, FilesInv
  <2>6. Alone' /\ WithinPlan' /\ Current'
    BY <1>2, <2>4, <2>5
  <2>3. ASSUME NEW o \in Operators PROVE Bound(o)'
    <3>1. PlanAhead(cmd[o])'
      BY <1>1 DEF AloneInv, Bound, PlanAhead
    <3>2. InvokedBound(cmd[o])'
      <4>1. cmd[o] \in Invocations => cmd[o].at[t] # "bridge"
        BY <2>1, Kinds DEF Reading, Thread
      <4> QED
        BY <1>1, <1>n, <2>2, <2>4, <4>1 DEF AloneInv, Bound, InvokedBound, RunnerBound
    <3>3. ImportBound(cmd[o])'
      <4>1. cmd[o] \in Imports => cmd[o].task \in Tasks /\ cmd[o].task # t
        BY <2>1 DEF Reading, Imports
      <4> QED
        BY <1>1, <2>2, <4>1 DEF AloneInv, Bound, ImportBound, RunnerBound
    <3> QED
      BY <3>1, <3>2, <3>3 DEF Bound
  <2> QED
    BY <2>3, <2>6 DEF AloneInv
<1> QED
  BY <1>3, <1>4

\* A verdict and a verification are of what is there.
LEMMA JudgedAlone ==
  ASSUME TypeOK, AloneInv, (\E t \in Tasks : Review(t) \/ Verify(t)) \/ Integrate
  PROVE  AloneInv'
<1> USE DEF planned, trees, judged
<1>1. UNCHANGED <<based, again, cmd, manifest, runner, assign, source, result>>
  BY DEF Review, Verify, Integrate
<1>2. (Alone /\ WithinPlan /\ \A o \in Operators : Bound(o))'
  BY <1>1 DEF AloneInv, Alone, Free, Bound, PlanAhead, InvokedBound, ImportBound, RunnerBound,
              WithinPlan
<1>3. ASSUME NEW t \in Tasks, Review(t) PROVE Current'
  <2>1. PICK agree \in BOOLEAN : verdict' = [verdict EXCEPT ![t] = [agree |-> agree, of |-> result[t]]]
    BY <1>3 DEF Review
  <2>2. verdict'[t].of = result[t] /\ \A u \in Tasks \ {t} : verdict'[u] = verdict[u]
    BY <2>1 DEF TypeOK
  <2> QED
    BY <1>1, <1>3, <2>2 DEF AloneInv, Current, Review
<1>4. ASSUME NEW t \in Tasks, Verify(t) PROVE Current'
  <2>1. /\ verification'[t].of = result[t]
        /\ \A u \in Tasks \ {t} : verification'[u] = verification[u]
    BY <1>4 DEF Verify, TypeOK
  <2> QED
    BY <1>1, <1>4, <2>1 DEF AloneInv, Current, Verify
<1>5. ASSUME Integrate PROVE Current'
  <2>1. UNCHANGED <<verdict, verification>>
    BY <1>5 DEF Integrate
  <2> QED
    BY <1>1, <2>1 DEF AloneInv, Current
<1> QED
  BY <1>2, <1>3, <1>4, <1>5 DEF AloneInv

\* While one command writes at a time, each keeps to the manifest in force.
LEMMA AloneStep ==
  ASSUME TypeOK, FilesInv, CommandsInv, NumbersInv, ~overlapped => AloneInv, [Next]_vars,
         ~overlapped'
  PROVE  AloneInv'
<1> USE DEF planned, trees, judged
<1>n. Native \subseteq Tasks
  BY PipelineAssumption
<1>1. AloneInv
  BY <1>n DEF Next, vars, Plan, WriteAssignment, WriteManifest, Spawn, Cleanup, Invoke, InvokeEnds,
              Copy, Die, CheckWorker, Work, Bridge, Import, NativeCommit, NativeExport, Review,
              Verify, Integrate, Entering
<1>2. ASSUME NEW o \in Operators, Cleanup(o) PROVE AloneInv'
  <2>1. UNCHANGED <<based, again, cmd, manifest, runner, assign, source, result, verdict, verification>>
    BY <1>2 DEF Cleanup
  <2> QED
    BY <1>1, <2>1 DEF AloneInv, Alone, Free, Bound, PlanAhead, InvokedBound, ImportBound,
                      RunnerBound, WithinPlan, Current
<1>3. ASSUME UNCHANGED vars PROVE AloneInv'
  BY <1>1, <1>3 DEF vars, AloneInv, Alone, Free, Bound, PlanAhead, InvokedBound, ImportBound,
                    RunnerBound, WithinPlan, Current
<1> QED
  BY <1>n, <1>1, <1>2, <1>3, PlanAlone, SpawnAlone, InvokeAlone, ThreadAlone, EndAlone, ImportAlone,
     NativeAlone, JudgedAlone DEF Next

-----------------------------------------------------------------------------
(* The theorems                                                            *)

LEMMA InitPipeline == Init => PipelineInv
<1> SUFFICES ASSUME Init PROVE PipelineInv
  OBVIOUS
<1>1. \A o \in Operators : cmd[o] = Idle
  BY DEF Init
<1>2. \A o \in Operators : Bound(o)
  BY <1>1, Kinds DEF Bound, PlanAhead, InvokedBound, ImportBound
<1>3. CommandsInv /\ NumbersInv /\ Alone
  BY <1>1, Kinds DEF Init, CommandsInv, NumbersInv, Alone, Free
<1>4. FilesInv /\ WithinPlan /\ Current
  BY DEF Init, FilesInv, WithinPlan, RunnerBound, Current
<1> QED
  BY <1>2, <1>3, <1>4, InitTypes DEF PipelineInv, AloneInv

\* In every state the files and the commands are of their types, the files of a task
\* come one after the other, and while one command writes at a time all keep to the
\* manifest in force: plan, spawn, invoke, import, review, verify and integrate
\* preserve this, wherever they die.
THEOREM PipelineInvariant == Spec => []PipelineInv
<1>1. Init => PipelineInv
  BY InitPipeline
<1>2. PipelineInv /\ [Next]_vars => PipelineInv'
  BY TypeStep, FilesStep, CommandsStep, NumbersStep, AloneStep DEF PipelineInv
<1> QED
  BY <1>1, <1>2, PTL DEF Spec

\* The files, the worktrees and the commands are of their types.
THEOREM PipelineTypeCorrect == Spec => []TypeOK
<1>1. PipelineInv => TypeOK
  BY DEF PipelineInv
<1> QED
  BY <1>1, PipelineInvariant, PTL

\* While one command writes at a time, what integrate accepts is what was reviewed and
\* verified, whose hashes it does not compare.
THEOREM EvidenceStaysCurrent == Spec => []EvidenceIsCurrent
<1>1. PipelineInv => EvidenceIsCurrent
  BY DEF PipelineInv, AloneInv, Current, FilesInv, EvidenceIsCurrent, Accepted, Candidates, Given
<1> QED
  BY <1>1, PipelineInvariant, PTL

\* While one command writes at a time, an accepted task changed only paths that the
\* manifest in force gives it, whatever plans died before it was written.
THEOREM AcceptedStaysWithinPlan == Spec => []AcceptedWithinPlan
<1>1. PipelineInv => AcceptedWithinPlan
  <2> SUFFICES ASSUME PipelineInv, Integrable, ~overlapped, NEW mapped \in BOOLEAN,
                      NEW t \in Accepted(mapped),
                      t \notin Native \/ (based /\ (mapped \/ t \notin again))
               PROVE  Given(mapped, t).actual \subseteq manifest.decl[t]
    BY DEF AcceptedWithinPlan
  <2>1. t \in Tasks /\ verdict[t] # NoFile
    BY DEF Accepted, Candidates
  <2>2. result[t] # NoFile /\ (mapped \/ result[t] = source[t])
    BY <2>1 DEF PipelineInv, FilesInv, TypeOK
  <2>3. result[t].actual \subseteq manifest.decl[t]
    BY <2>1, <2>2 DEF PipelineInv, AloneInv, WithinPlan, Integrable
  <2> QED
    BY <2>2, <2>3 DEF Given
<1> QED
  BY <1>1, PipelineInvariant, PTL

\* Where the fixture worked, the branch the assembly plan merges is at the commit that
\* was verified.
THEOREM MergedWasVerified == Spec => []MergedIsVerified
<1>1. PipelineInv => MergedIsVerified
  <2> SUFFICES ASSUME PipelineInv, NEW t \in integration \ Native
               PROVE  head[t] = result[t].head /\ touched[t] = result[t].actual
    BY DEF MergedIsVerified
  <2>1. t \in Tasks /\ FilesInv
    BY DEF PipelineInv, TypeOK
  <2> QED
    BY <2>1 DEF FilesInv, PipelineInv, TypeOK
<1> QED
  BY <1>1, PipelineInvariant, PTL

=============================================================================

------------------------- MODULE RoadmapExecution -------------------------
(***************************************************************************)
(* The roadmap executor: a compiled plan is carried out step by step, on   *)
(* the workspace (apply) or as a dry run whose writes go to an overlay     *)
(* (simulate, readonly; readonly still runs allowlisted commands).  A run  *)
(* leaves step evidence, a dead letter when it failed, and a summary; a    *)
(* crashed run leaves whatever it had written, and is started over, there  *)
(* being no resumption in the executor.  A text is a bag of lines: a patch *)
(* replaces every occurrence of a line, and no property is about order.    *)
(* The paths are those outside .cache, evidence, dlq and __pycache__,      *)
(* which the snapshots leave out; the evidence is in .cache, which git is  *)
(* taken not to report.                                                    *)
(***************************************************************************)
EXTENDS Naturals, FiniteSets, Sequences, SequencesExt

CONSTANTS
  Paths, Above,     \* Above[p]: the directories above path p
  Lines,
  Milestones,
  Plans, StepsOf(_), LimitsOf(_, _),  \* compiled plans; the limits of a milestone
  StoredPath(_),    \* the target in a pointer file's text, "outside", or else no path
  Ignored,          \* the files git does not report as long as they are untracked
  Trees,            \* the trees a workspace may have at first, or have committed
  Texts,            \* what a command may write into a file
  Absent, Dir,      \* what a path is when it is no file
  None,
  MaxRuns           \* bound: runs started

Contents == [Lines -> Nat]
IsTree(t) ==
  /\ t \in [Paths -> {Absent, Dir} \union Contents]
  /\ \A p \in Paths : t[p] # Absent => \A q \in Above[p] : t[q] = Dir

ASSUME RoadmapAssumption ==
  /\ Above \in [Paths -> SUBSET Paths]
  /\ \A p \in Paths : p \notin Above[p] /\ \A q \in Above[p] : Above[q] \subseteq Above[p]
  /\ \A t \in Trees : IsTree(t)
  /\ \A text \in Texts : text \in Contents
  /\ Ignored \subseteq Paths
  /\ IsFiniteSet(Lines) /\ MaxRuns \in Nat
  /\ \A p \in Plans : \A m \in Milestones :
       LET limit == LimitsOf(p, m)
       IN limit.files \in Nat /\ limit.diff \in Nat /\ limit.forbidden \subseteq Paths
  /\ \A p \in Plans :
       Len(StepsOf(p)) \in Nat /\ DOMAIN StepsOf(p) = 1 .. Len(StepsOf(p))
  /\ \A p \in Plans : \A i \in DOMAIN StepsOf(p) :
       LET st == StepsOf(p)[i]
       IN /\ st.ms \in Milestones
          /\ st.type \in {"create", "dir", "patch", "change", "pointer", "scan"} =>
               st.path \in Paths
          /\ st.type = "create" => st.text \in st.same /\ st.same \subseteq Contents
          /\ st.type \in {"allow", "assert", "iso", "core"} => st.paths \subseteq Paths
          /\ st.type = "patch" =>
               st.patches \in Seq([pattern : Lines, rep : Contents])
          /\ st.type = "change" => st.note \in Lines
          /\ st.type = "scan" => st.tokens \subseteq Lines

ASSUME NullAssumption ==
  Absent # Dir /\ Absent \notin Contents /\ Dir \notin Contents /\ None \notin Contents

VARIABLES
  core,      \* "outside": the workspace is not the core; else whether CORE_UNLOCK is set
  head,      \* what git has committed in the core, which may be the workspace
  tree,      \* the workspace, but for
  litter,    \* the lines of the temporary files left beside a path, Absent if none are
  run,       \* the run in progress
  evidence,  \* the evidence directory of the latest run, with the workspace it began on
  runs,      \* how many runs were started
  forecast,  \* history: the latest simulation's plan, workspace and summary
  origin     \* history: the plan applied last, and the tree its runs began on

vars == <<core, head, tree, litter, run, evidence, runs, forecast, origin>>

Modes == {"apply", "simulate", "readonly"}
IsFile(t, p) == t[p] \notin {Absent, Dir}
Empty == [l \in Lines |-> 0]
Size(text) == FoldLeft(LAMBDA n, l : n + text[l], 0, SetToSeq(Lines))

\* _count_diff_lines
DiffLines(old, new) ==
  Size([l \in Lines |-> IF old[l] > new[l] THEN old[l] - new[l] ELSE new[l] - old[l]])

-----------------------------------------------------------------------------
(* The overlay of a dry run; an apply run's stays empty. *)

\* Mutant: a dry run reads the disk under its own writes.
GetTextOnDisk(fs, t, p) == IF IsFile(t, p) THEN t[p] ELSE None

GetText(fs, t, p) ==
  IF p \in DOMAIN fs THEN fs[p] ELSE IF IsFile(t, p) THEN t[p] ELSE None

WouldExist(fs, t, p) == p \in DOMAIN fs \/ t[p] # Absent
SetText(fs, p, text) ==
  [q \in DOMAIN fs \union {p} |-> IF q = p THEN text ELSE fs[q]]

\* write_text_atomic makes the directories above and replaces a file, never a directory.
CanHold(t, p) == t[p] # Dir /\ \A q \in Above[p] : t[q] \in {Absent, Dir}
CanBeDir(t, p) == \A q \in Above[p] \union {p} : t[q] \in {Absent, Dir}
\* Mutant: no directories are made.
PutAlone(t, p, x) == [t EXCEPT ![p] = x]

Put(t, p, x) ==
  [q \in Paths |-> IF q = p THEN x ELSE IF q \in Above[p] THEN Dir ELSE t[q]]

-----------------------------------------------------------------------------
(* What a step's handler says and writes.  s is the run, t the tree. *)

Limits(s, st) == LimitsOf(s.plan, st.ms)

\* _require_writable_path
Barrier(s, st) ==
  CASE core = "locked" -> "CORE_IMMUTABLE_WRITE_BLOCKED"
    [] core # "locked" /\ st.path \in Limits(s, st).forbidden -> "FORBIDDEN_PATH"
    [] core # "locked" /\ st.path \notin Limits(s, st).forbidden
       /\ s.allow \intersect (Above[st.path] \union {st.path}) = {} -> "POLICY_VIOLATION"
    [] OTHER -> "OK"

\* One patch: every occurrence of the line q.pattern becomes the lines q.rep.
Replace(text, q) ==
  IF text = None \/ text[q.pattern] = 0 THEN None
  ELSE [l \in Lines |-> (IF l = q.pattern THEN 0 ELSE text[l]) + text[q.pattern] * q.rep[l]]
Patched(text, patches) == FoldLeft(Replace, text, patches)

\* A create step that may not overwrite leaves an equal file as it is.
Keeps(s, t, st) == WouldExist(s.fs, t, st.path) /\ ~st.overwrite

\* Mutant: a file that is there is never the step's own.
MatchesNever(s, t, st) == FALSE

\* The file has the text, or for JSON the object, the step would write.
Matches(s, t, st) == GetText(s.fs, t, st.path) \in st.same

\* The text the step would write, when nothing refuses it.
NewText(s, t, st) ==
  IF st.type = "create" THEN st.text ELSE Patched(GetText(s.fs, t, st.path), st.patches)

SkippedInDryRun(s, st) == st.applyOnly /\ s.mode # "apply"

CreateRefusal(s, t, st) ==
  IF Keeps(s, t, st) /\ ~Matches(s, t, st) THEN "CONTENT_MISMATCH" ELSE "OK"
PatchRefusal(s, t, st) ==
  CASE GetText(s.fs, t, st.path) = None -> "FILE_NOT_FOUND"
    [] GetText(s.fs, t, st.path) # None /\ NewText(s, t, st) = None -> "PATTERN_NOT_FOUND"
    [] OTHER -> "OK"
AssertRefusal(s, t, st) ==
  IF ~SkippedInDryRun(s, st) /\ \E p \in st.paths : ~WouldExist(s.fs, t, p)
  THEN "PATHS_MISSING" ELSE "OK"

\* Pointers, ISO and core files and what is scanned are read from the disk, whatever is
\* planned.  A core apart from the workspace is as committed.
PointerRefusal(t, st) ==
  LET target == StoredPath(t[st.path])
  IN CASE t[st.path] = Absent -> "POINTER_MISSING"
       [] IsFile(t, st.path) /\ target \in Paths ->
            IF t[target] = Absent THEN "POINTER_TARGET_MISSING" ELSE "OK"
       [] IsFile(t, st.path) /\ target \notin Paths /\ target = "outside" ->
            "WORKSPACE_ROOT_VIOLATION"
       [] OTHER -> "POINTER_INVALID"
IsoRefusal(t, st) ==
  IF \E p \in st.paths : ~IsFile(t, p) THEN "ISO_CORE_MISSING" ELSE "OK"
CoreRefusal(t, st) ==
  IF \E p \in st.paths : (IF core = "outside" THEN head[p] ELSE t[p]) = Absent
  THEN "CORE_PATH_MISSING" ELSE "OK"
Holds(x, tokens) == x \notin {Absent, Dir} /\ \E l \in tokens : x[l] > 0
ScanRefusal(t, st) ==
  IF \E p \in Paths :
       st.path \in Above[p] /\ (Holds(t[p], st.tokens) \/ Holds(litter[p], st.tokens))
  THEN "SANITIZE_VIOLATION" ELSE "OK"

\* Neither the allowlist nor the forbidden paths bind a change proposal.
ChangeRefusal(s) ==
  CASE s.mode = "apply" /\ core = "locked" -> "CORE_IMMUTABLE_WRITE_BLOCKED"
    [] s.mode = "apply" /\ core = "outside" -> "WORKSPACE_ROOT_VIOLATION"
    [] OTHER -> "OK"

\* The refusals of the handlers, the checks on the path first.
Refusal(s, t, st) ==
  LET barred == Barrier(s, st)
  IN CASE st.type = "create" -> IF barred # "OK" THEN barred ELSE CreateRefusal(s, t, st)
       [] st.type = "patch" -> IF barred # "OK" THEN barred ELSE PatchRefusal(s, t, st)
       [] st.type = "dir" -> barred
       [] st.type = "assert" -> AssertRefusal(s, t, st)
       [] st.type = "pointer" /\ ~SkippedInDryRun(s, st) -> PointerRefusal(t, st)
       [] st.type = "iso" -> IsoRefusal(t, st)
       [] st.type = "core" -> CoreRefusal(t, st)
       [] st.type = "scan" -> ScanRefusal(t, st)
       [] st.type = "change" -> ChangeRefusal(s)
       [] OTHER -> "OK"

Writes(s, t, st) ==
  \/ st.type = "create" /\ ~Keeps(s, t, st)
  \/ st.type = "patch"

\* The file system refuses the write: no RoadmapStepError, so unhandled.
Unhandled(s, t, st) ==
  /\ s.mode = "apply"
  /\ \/ Writes(s, t, st) /\ ~CanHold(t, st.path)
     \/ st.type = "dir" /\ ~CanBeDir(t, st.path)
     \/ st.type = "change" /\ ~IsFile(t, st.path)

\* apply_change_to_roadmap_obj, for a proposal that appends a note to the roadmap.
Noted(t, st) == [t EXCEPT ![st.path][st.note] = @ + 1]

\* The workspace after a step that was not refused.
TreeAfter(s, t, st) ==
  IF s.mode # "apply" THEN t
  ELSE CASE Writes(s, t, st) -> Put(t, st.path, NewText(s, t, st))
         [] st.type = "dir" -> Put(t, st.path, Dir)
         [] st.type = "change" -> Noted(t, st)
         [] OTHER -> t

\* What the handler counts against the milestone: even a file left alone, but
\* no lines for a patch that empties one.
Touched(s, st) ==
  IF st.type \in {"create", "dir", "patch"} \/ (st.type = "change" /\ s.mode = "apply")
  THEN {st.path} ELSE {}
Counted(s, t, st) ==
  LET text == GetText(s.fs, t, st.path)
      old == IF text = None THEN Empty ELSE text
  IN CASE st.type = "create" -> DiffLines(old, st.text)
       [] st.type = "patch" /\ NewText(s, t, st) # Empty -> DiffLines(old, NewText(s, t, st))
       [] st.type = "change" /\ s.mode = "apply" -> 1
       [] OTHER -> 0

\* _enforce_milestone_caps, after the step has done its work.
Caps(s, st) ==
  CASE Cardinality(s.touched[st.ms]) > Limits(s, st).files -> "MAX_FILES_CHANGED"
    [] Cardinality(s.touched[st.ms]) <= Limits(s, st).files
       /\ s.lines[st.ms] > Limits(s, st).diff -> "MAX_DIFF_LINES"
    [] OTHER -> "OK"

\* The run after a step that was not refused, its caps not yet looked at.
RunAfter(s, t, st) ==
  [s EXCEPT !.fs = IF s.mode # "apply" /\ Writes(s, t, st)
                   THEN SetText(s.fs, st.path, NewText(s, t, st)) ELSE @,
            !.allow = IF st.type = "allow" THEN st.paths ELSE @,
            !.touched[st.ms] = @ \union Touched(s, st),
            !.lines[st.ms] = @ + Counted(s, t, st)]

\* _dispatch_step_template and the caps, but for commands: the run and the tree.
Handle(s, t, st) ==
  LET no == Refusal(s, t, st)
      done == RunAfter(s, t, st)
  IN CASE no # "OK" -> [run |-> [s EXCEPT !.code = no], tree |-> t]
       [] no = "OK" /\ Unhandled(s, t, st) ->
            [run |-> [s EXCEPT !.code = "UNHANDLED_ERROR"], tree |-> t]
       [] OTHER -> [run |-> [done EXCEPT !.code = Caps(done, st)], tree |-> TreeAfter(s, t, st)]

-----------------------------------------------------------------------------
(* A run. *)

NewRun(p, mode) ==
  [plan |-> p, mode |-> mode, pc |-> 1, phase |-> "step", code |-> "OK", fs |-> <<>>,
   allow |-> Paths, touched |-> [m \in Milestones |-> {}], lines |-> [m \in Milestones |-> 0]]

Init ==
  /\ core \in {"outside", "locked", "unlocked"}
  /\ tree \in Trees /\ head \in Trees
  /\ litter = [p \in Paths |-> Absent]
  /\ run = None /\ evidence = None /\ runs = 0
  /\ forecast = None /\ origin = None

\* apply_roadmap up to the first step: a fresh evidence directory with the plan.
Start(p, mode) ==
  /\ run = None /\ runs < MaxRuns
  /\ runs' = runs + 1
  /\ run' = NewRun(p, mode)
  /\ evidence' = [mode |-> mode, plan |-> p, base |-> tree, litter |-> litter,
                  steps |-> <<>>, dlq |-> None, summary |-> None]
  /\ origin' = IF mode # "apply" \/ (origin # None /\ origin.plan = p) THEN origin
               ELSE [plan |-> p, base |-> tree]
  /\ UNCHANGED <<core, head, tree, litter, forecast>>

Current == StepsOf(run.plan)[run.pc]
Working == run # None /\ run.phase = "step" /\ run.pc <= Len(StepsOf(run.plan))

Step ==
  /\ Working /\ Current.type # "cmd"
  /\ LET after == Handle(run, tree, Current)
     IN run' = [after.run EXCEPT !.phase = "record"] /\ tree' = after.tree
  /\ UNCHANGED <<core, head, litter, evidence, runs, forecast, origin>>

\* The files' hashes, of a workspace apart from the core.
Snapshot(t) == [p \in Paths |-> IF IsFile(t, p) THEN t[p] ELSE Absent]

\* git names an untracked file by the highest directory that holds nothing committed.
Tracks(p) == \E q \in Paths : p \in Above[q] /\ IsFile(head, q)
Named(p) ==
  {q \in Above[p] \union {p} : (q = p \/ ~Tracks(q)) /\ \A r \in Above[q] : Tracks(r)}

\* git status --porcelain: of a committed file whether it is there and the same, and the
\* names of the untracked ones but those it ignores.  It has no name for a temporary file,
\* only for its directory, which no dry run changes.
GitStatus(t) ==
  [tracked |-> [p \in {q \in Paths : IsFile(head, q)} |-> <<IsFile(t, p), t[p] = head[p]>>],
   untracked |-> UNION ({Named(p) : p \in {q \in Paths \ Ignored : IsFile(t, q) /\ ~IsFile(head, q)}}
                   \union {Named(p) \ {p} : p \in {q \in Paths : litter[q] # Absent}})]

\* Mutant: names, not contents, are compared.
StatusNames(t) == [p \in Paths |-> IsFile(t, p)]

Status(t) == IF core = "outside" THEN Snapshot(t) ELSE GitStatus(t)

\* step_run_cmd for real: it may write or remove one file and end either way.
Effects ==
  {tree} \union {Put(tree, p, x) : p \in {q \in Paths : CanHold(tree, q)}, x \in Texts}
  \union {[tree EXCEPT ![p] = Absent] : p \in {q \in Paths : IsFile(tree, q)}}

\* A command of a readonly run is refused after the fact, if git does not answer or tells
\* of a change elsewhere, too.
Command(st) ==
  \E fails, elsewhere \in BOOLEAN, t \in Effects :
    LET code == CASE st.mustSucceed /\ fails -> "CMD_FAILED"
                  [] ~(st.mustSucceed /\ fails) /\ run.mode = "readonly"
                     /\ (elsewhere \/ Status(t) # Status(evidence.base)) -> "POLICY_VIOLATION"
                  [] OTHER -> Caps(run, st)
    IN /\ tree' = t
       /\ run' = [run EXCEPT !.phase = "record", !.code = code]
       /\ origin' = IF t = tree THEN origin ELSE None

RunCmd ==
  /\ Working /\ Current.type = "cmd"
  /\ LET st == Current
         skipped == run.mode = "simulate" \/ (run.mode = "readonly" /\ st.applyOnly)
     IN \/ /\ skipped
           /\ run' = [run EXCEPT !.phase = "record", !.code = Caps(run, st)]
           /\ UNCHANGED <<tree, origin>>
        \/ /\ run.mode = "readonly" /\ ~skipped /\ ~st.allowlisted
           /\ run' = [run EXCEPT !.phase = "record", !.code = "POLICY_VIOLATION"]
           /\ UNCHANGED <<tree, origin>>
        \/ ~skipped /\ (run.mode = "readonly" => st.allowlisted) /\ Command(st)
        \* no such program
        \/ /\ ~skipped /\ (run.mode = "readonly" => st.allowlisted)
           /\ run' = [run EXCEPT !.phase = "record", !.code = "UNHANDLED_ERROR"]
           /\ UNCHANGED <<tree, origin>>
  /\ UNCHANGED <<core, head, litter, evidence, runs, forecast>>

\* What a write that is cut short leaves: some of the directories it needs, from above,
\* or all of them and a temporary file of some lines.
Writing ==
  /\ Working /\ run.mode = "apply" /\ Refusal(run, tree, Current) = "OK"
  /\ \/ Writes(run, tree, Current)
     \/ Current.type = "dir"
     \/ Current.type = "change" /\ IsFile(tree, Current.path)
  /\ \A q \in Above[Current.path] : tree[q] \in {Absent, Dir}
Lacks ==
  {q \in Above[Current.path] \union (IF Current.type = "dir" THEN {Current.path} ELSE {}) :
     tree[q] = Absent}
WithDirs(D) == [q \in Paths |-> IF q \in D THEN Dir ELSE tree[q]]
Littered(x) ==
  [litter EXCEPT ![Current.path] =
     IF @ = Absent THEN x ELSE [l \in Lines |-> @[l] + x[l]]]
CutShort ==
  /\ Writing
  /\ \/ /\ \E D \in SUBSET Lacks :
             (\A q \in D : Above[q] \intersect Lacks \subseteq D) /\ tree' = WithDirs(D)
        /\ UNCHANGED litter
     \/ /\ Current.type # "dir"
        /\ tree' = WithDirs(Lacks)
        /\ \E x \in {Empty, IF Current.type = "change" THEN Noted(tree, Current)[Current.path]
                         ELSE NewText(run, tree, Current)} : litter' = Littered(x)

\* The disk refuses a write: unhandled as well, and told apart only in this model.
Fail ==
  /\ CutShort
  /\ run' = [run EXCEPT !.code = "OS_ERROR", !.phase = "record"]
  /\ UNCHANGED <<core, head, evidence, runs, forecast, origin>>

\* write_step_evidence, in the finally: it says OK of an unhandled error.
NoStepError == {"OK", "UNHANDLED_ERROR", "OS_ERROR"}
Record ==
  /\ run # None /\ run.phase = "record"
  /\ evidence' = [evidence EXCEPT !.steps =
       Append(@, IF run.code \in NoStepError THEN "OK" ELSE run.code)]
  /\ run' = IF run.code = "OK" THEN [run EXCEPT !.pc = @ + 1, !.phase = "step"]
            ELSE [run EXCEPT !.phase = "dlq"]
  /\ UNCHANGED <<core, head, tree, litter, runs, forecast, origin>>

DeadLetter ==
  /\ run # None /\ run.phase = "dlq"
  /\ evidence' = [evidence EXCEPT !.dlq = run.code]
  /\ run' = [run EXCEPT !.phase = "summary"]
  /\ UNCHANGED <<core, head, tree, litter, runs, forecast, origin>>

\* The summary, its failed_step_id unset after an unhandled error.
Verdict ==
  [code |-> run.code,
   failed |-> IF run.code \in NoStepError THEN 0 ELSE run.pc]

Summarise ==
  /\ run # None
  /\ \/ run.phase = "summary"
     \/ run.phase = "step" /\ run.pc > Len(StepsOf(run.plan))
  /\ evidence' = [evidence EXCEPT !.summary = Verdict]
  /\ forecast' = IF run.mode = "simulate"
                 THEN [plan |-> run.plan, base |-> tree, litter |-> litter, verdict |-> Verdict]
                 ELSE forecast
  /\ run' = None
  /\ UNCHANGED <<core, head, tree, litter, runs, origin>>

\* The process dies; what it wrote stays.
Crash ==
  /\ run # None
  /\ run' = None
  /\ CutShort \/ UNCHANGED <<tree, litter>>
  /\ UNCHANGED <<core, head, evidence, runs, forecast, origin>>

Next ==
  \/ \E p \in Plans, mode \in Modes : Start(p, mode)
  \/ Step \/ RunCmd \/ Fail \/ Record \/ DeadLetter \/ Summarise \/ Crash

Spec == Init /\ [][Next]_vars

-----------------------------------------------------------------------------
(* Properties *)

OnDiskCodes ==
  {"POINTER_MISSING", "POINTER_INVALID", "WORKSPACE_ROOT_VIOLATION", "POINTER_TARGET_MISSING",
   "ISO_CORE_MISSING", "CORE_PATH_MISSING", "SANITIZE_VIOLATION"}
Codes ==
  {"OK", "CORE_IMMUTABLE_WRITE_BLOCKED", "FORBIDDEN_PATH", "POLICY_VIOLATION", "CONTENT_MISMATCH",
   "FILE_NOT_FOUND", "PATTERN_NOT_FOUND", "PATHS_MISSING", "CMD_FAILED", "MAX_FILES_CHANGED",
   "MAX_DIFF_LINES", "UNHANDLED_ERROR", "OS_ERROR"} \union OnDiskCodes

\* The workspace stays a tree, only a dry run has an overlay, and the evidence
\* directory is that of the run.
TypeOK ==
  /\ IsTree(tree) /\ litter \in [Paths -> {Absent} \union Contents]
  /\ head \in Trees /\ runs \in 0 .. MaxRuns
  /\ run # None =>
       /\ run.plan \in Plans /\ run.mode \in Modes /\ run.code \in Codes
       /\ run.phase \in {"step", "record", "dlq", "summary"}
       /\ run.mode = "apply" => run.fs = <<>>
       /\ \A p \in DOMAIN run.fs : run.fs[p] \in Contents
       /\ evidence.plan = run.plan /\ evidence.mode = run.mode

Ended(mode) ==
  run = None /\ evidence # None /\ evidence.mode = mode /\ evidence.summary # None

Types(p) == {StepsOf(p)[i].type : i \in 1 .. Len(StepsOf(p))}

\* What a step reads from the disk of a dry run, and what the steps before the n-th write.
Reads(t, st) ==
  CASE st.type = "pointer" ->
         {st.path} \union ({IF IsFile(t, st.path) THEN StoredPath(t[st.path]) ELSE st.path}
                            \intersect Paths)
    [] st.type = "iso" \/ (st.type = "core" /\ core # "outside") -> st.paths
    [] st.type = "scan" -> {p \in Paths : st.path \in Above[p]}
    [] OTHER -> {}
WrittenBefore(p, n) ==
  UNION {Above[StepsOf(p)[i].path] \union {StepsOf(p)[i].path} :
           i \in {j \in 1 .. n - 1 : StepsOf(p)[j].type \in {"create", "dir", "patch"}}}
ReadsWritten(p, n, t) ==
  n # 0 /\ Reads(t, StepsOf(p)[n]) \intersect WrittenBefore(p, n) # {}

\* What a simulation says of a plan without commands is what applying the plan to the
\* same workspace does: the same verdict at the same step, caps included, though one
\* reads an overlay and the other the disk.  But a step that reads the disk alone may end
\* otherwise when steps before it write what it reads; an assertion sees no directory that
\* is only planned; what is for apply only is not looked at; a simulated change proposal
\* is not refused; a file may be planned where the disk has a directory, or a directory
\* where it has a file; and the disk may fail.
DryRunPredicts ==
  Ended("apply") /\ forecast # None /\ forecast.plan = evidence.plan
    /\ forecast.base = evidence.base /\ forecast.litter = evidence.litter
    /\ Types(evidence.plan) \intersect {"cmd", "change"} = {}
  => LET said == forecast.verdict
         came == evidence.summary
         st == StepsOf(evidence.plan)[came.failed]
     IN \/ said = came
        \/ said.code = "PATHS_MISSING"
        \/ said.code \in OnDiskCodes /\ ReadsWritten(evidence.plan, said.failed, evidence.base)
        \/ came.code \in OnDiskCodes /\ ReadsWritten(evidence.plan, came.failed, evidence.base)
        \/ /\ came.code \in OnDiskCodes \union {"PATHS_MISSING"}
           /\ st.type \in {"assert", "pointer"} /\ st.applyOnly
        \/ came.code \in {"UNHANDLED_ERROR", "OS_ERROR"}
        \/ came.code = "CONTENT_MISMATCH" /\ tree[st.path] = Dir

\* No step but one writes a path, and none changes what it finds or reads what is written.
Rerunnable(p) ==
  /\ Types(p) \intersect {"cmd", "patch", "change", "pointer", "scan"} = {}
  /\ \A i, j \in 1 .. Len(StepsOf(p)) :
       StepsOf(p)[i].type = "create" /\ StepsOf(p)[j].type \in {"create", "dir"}
         /\ StepsOf(p)[i].path = StepsOf(p)[j].path => i = j

\* The plan carried out on tree t without a crash.
Uninterrupted(p, t) ==
  LET after[i \in 0 .. Len(StepsOf(p))] ==
        IF i = 0 THEN [run |-> NewRun(p, "apply"), tree |-> t]
        ELSE LET before == after[i - 1]
             IN IF before.run.code # "OK" THEN before
                ELSE Handle(before.run, before.tree, StepsOf(p)[i])
  IN after[Len(StepsOf(p))]

\* A plan that creates is as good as atomic: were it to succeed undisturbed, then unless
\* the disk fails it succeeds however often it is cut short and started over, and ends in
\* the same tree, but for temporary files.
RerunConverges ==
  Ended("apply") /\ origin # None /\ origin.plan = evidence.plan /\ Rerunnable(origin.plan)
  => LET whole == Uninterrupted(origin.plan, origin.base)
     IN whole.run.code = "OK" /\ evidence.summary.code # "OS_ERROR"
        => evidence.summary.code = "OK" /\ tree = whole.tree

\* A dry run that reports OK left every file as it was, whatever its commands did, but
\* those that git reported changed before, those it ignores and those in a directory that
\* it reported as a whole.
ReadonlyUnchanged ==
  \A mode \in Modes \ {"apply"} :
    Ended(mode) /\ evidence.summary.code = "OK" =>
      \A p \in Paths :
        \/ tree[p] = evidence.base[p]
        \/ ~IsFile(tree, p) /\ ~IsFile(evidence.base, p)
        \/ core # "outside" /\ IsFile(head, p) /\ evidence.base[p] # head[p]
        \/ /\ core # "outside" /\ ~IsFile(head, p)
           /\ p \in Ignored \/ Named(p) \subseteq GitStatus(evidence.base).untracked

\* A plan that exceeds a cap of its milestone is not carried out.  The code does not
\* keep this: see README.md, What TLC refutes.
CapsBind ==
  Ended("apply") /\ origin # None /\ origin.plan = evidence.plan /\ Rerunnable(origin.plan)
    /\ Uninterrupted(origin.plan, origin.base).run.code \in {"MAX_FILES_CHANGED", "MAX_DIFF_LINES"}
  => evidence.summary.code # "OK"
=============================================================================

----------------------- MODULE RoadmapExecutionProofs -----------------------
(***************************************************************************)
(* Proofs about RoadmapExecution, for any plans, limits, trees, contents   *)
(* and number of runs.                                                     *)
(***************************************************************************)
EXTENDS RoadmapExecution, InductionLemmas, SequenceTheorems

RunFields == {"plan", "mode", "pc", "phase", "code", "fs", "allow", "touched", "lines"}
EvidenceFields == {"mode", "plan", "base", "litter", "steps", "dlq", "summary"}

\* The temporary files that may be left, and that more of them, or larger ones, are.
Littering == [Paths -> {Absent} \union Contents]
Within(x, y) ==
  \A q \in Paths : x[q] # Absent => y[q] # Absent /\ \A l \in Lines : x[q][l] <= y[q][l]

(* A run and its evidence have their fields, and the run is at one of its   *)
(* plan's steps or past them.                                               *)
Shaped ==
  /\ run # None => DOMAIN run = RunFields /\ run.pc \in Nat \ {0}
  /\ run # None \/ evidence # None => DOMAIN evidence = EvidenceFields

(* What a run has of its own: its fields, and an overlay in a dry run only. *)
RunOK(s) ==
  /\ DOMAIN s = RunFields
  /\ s.plan \in Plans /\ s.mode \in Modes
  /\ s.mode = "apply" => s.fs = <<>>
  /\ \A p \in DOMAIN s.fs : s.fs[p] \in Contents

\* A compiled step, as the assumption on the plans has it.
IsStep(st) ==
  /\ st.type \in {"create", "dir", "patch", "change", "pointer", "scan"} => st.path \in Paths
  /\ st.type = "create" => st.text \in st.same /\ st.same \subseteq Contents
  /\ st.type = "patch" => st.patches \in Seq([pattern : Lines, rep : Contents])
  /\ st.type = "change" => st.note \in Lines
  /\ st.type \in {"allow", "assert", "iso", "core"} => st.paths \subseteq Paths
  /\ st.type = "scan" => st.tokens \subseteq Lines

-----------------------------------------------------------------------------
(* The texts and the tree. *)

(* The patches of a step, applied one after the other, give a text, or      *)
(* none where a pattern is not found.                                       *)
LEMMA PatchedText ==
  ASSUME NEW patches \in Seq([pattern : Lines, rep : Contents]),
         NEW text \in Contents \cup {None}
  PROVE  Patched(text, patches) \in Contents \cup {None}
<1> DEFINE S == DOMAIN patches
           V == Contents \cup {None}
           c == [s \in SUBSET S |-> Max(s)]
           h == [i \in S |-> [v \in V |-> Replace(v, patches[i])]]
           Is(g) == g = [s \in SUBSET S |-> IF s = {} THEN text
                                             ELSE Replace(g[s \ {Max(s)}], patches[Max(s)])]
<1>1. IsFiniteSet(S) /\ S \subseteq Nat
  BY FS_Interval
<1>2. ASSUME NEW s \in SUBSET S, s # {} PROVE Max(s) \in s
  <2>1. PICK a \in s : \A b \in s : b <= a
    <3>1. S \subseteq 0 .. Len(patches) /\ Len(patches) \in Nat
      OBVIOUS
    <3> QED
      BY <1>2, <3>1, GreatestElement
  <2>2. \A b \in s : a >= b
    BY <1>1, <2>1
  <2> QED
    BY <2>1, <2>2 DEF Max
<1>3. ASSUME NEW i \in S, NEW v \in V PROVE Replace(v, patches[i]) \in V
  <2>1. patches[i].pattern \in Lines /\ patches[i].rep \in Contents
    <3>1. i \in 1 .. Len(patches)
      OBVIOUS
    <3>2. patches[i] \in [pattern : Lines, rep : Contents]
      BY <3>1, ElementOfSeq
    <3> QED
      BY <3>2
  <2>2. CASE v = None \/ v[patches[i].pattern] = 0
    BY <2>2 DEF Replace
  <2>3. CASE ~(v = None \/ v[patches[i].pattern] = 0)
    <3>1. v \in [Lines -> Nat] /\ patches[i].rep \in [Lines -> Nat]
      BY <2>1, <2>3 DEF Contents
    <3>2. \A m, n \in Nat : m * n \in Nat
      OBVIOUS
    <3>3. \A l \in Lines : v[patches[i].pattern] * patches[i].rep[l] \in Nat
      BY <2>1, <3>1, <3>2
    <3>4. ASSUME NEW l \in Lines
          PROVE  (IF l = patches[i].pattern THEN 0 ELSE v[l])
                   + v[patches[i].pattern] * patches[i].rep[l] \in Nat
      <4> DEFINE n == v[patches[i].pattern] * patches[i].rep[l]
      <4>1. n \in Nat /\ v[l] \in Nat
        BY <3>1, <3>3
      <4> HIDE DEF n
      <4>2. (IF l = patches[i].pattern THEN 0 ELSE v[l]) + n \in Nat
        BY <4>1
      <4> QED
        BY <4>2 DEF n
    <3> QED
      BY <2>3, <3>4 DEF Replace, Contents
  <2> QED
    BY <2>2, <2>3
<1>4. Patched(text, patches) = (CHOOSE g : Is(g))[S]
  BY DEF Patched, FoldLeft, MapThenFoldSet
<1> HIDE DEF V, S
<1>5. /\ \A s \in SUBSET S : s # {} => c[s] \in s
      /\ h \in [S -> [V -> V]] /\ text \in V
  BY <1>2, <1>3 DEF V
<1>6. PICK g \in [SUBSET S -> V] : IsSolution(g, S, text, h, c)
  <2> HIDE DEF c, h
  <2>1. IsFold(S, V, text, h, c)
    BY <1>1, <1>5 DEF IsFold
  <2> QED
    BY <2>1, SolutionExists
<1>7. ASSUME NEW f, Is(f) PROVE \A s \in SUBSET S : f[s] \in V
  <2> DEFINE G == {s \in SUBSET S : f[s] \in V}
  <2>1. {} \in G
    BY <1>7 DEF V
  <2>2. ASSUME NEW s \in SUBSET S, s # {}, \A x \in s : s \ {x} \in G PROVE s \in G
    <3>1. f[s] = Replace(f[s \ {Max(s)}], patches[Max(s)]) /\ Max(s) \in S /\ Max(s) \in s
      BY <1>2, <1>7, <2>2
    <3> QED
      BY <1>3, <2>2, <3>1
  <2>3. \A s \in SUBSET S : s \in G
    <3> HIDE DEF G
    <3>1. G \in SUBSET (SUBSET S)
      BY DEF G
    <3> QED
      BY <1>1, <2>1, <2>2, <3>1, SubsetInduction
  <2> QED
    BY <2>3
<1>8. Is(g)
  <2>1. ASSUME NEW s \in SUBSET S, s # {}
        PROVE  h[c[s]][g[s \ {c[s]}]] = Replace(g[s \ {Max(s)}], patches[Max(s)])
    <3>1. c[s] = Max(s) /\ Max(s) \in S /\ g[s \ {Max(s)}] \in V
      BY <1>2, <2>1
    <3> QED
      BY <3>1
  <2>2. \A s \in SUBSET S : g[s] = IF s = {} THEN text
                                      ELSE Replace(g[s \ {Max(s)}], patches[Max(s)])
    BY <1>6, <2>1 DEF IsSolution
  <2> QED
    BY <2>2
<1>9. Is(CHOOSE f : Is(f))
  <2> HIDE DEF Is
  <2> QED
    BY <1>8
<1> QED
  BY <1>4, <1>7, <1>9 DEF V

(* A file, where no directory is, or a directory, where no file is, put     *)
(* with the directories above it: the tree stays one.                       *)
LEMMA PutTree ==
  ASSUME NEW t, IsTree(t), NEW p \in Paths, NEW x,
         \/ CanHold(t, p) /\ (x \in Contents \/ x = t[p])
         \/ CanBeDir(t, p) /\ x = Dir
  PROVE  IsTree(Put(t, p, x))
<1> DEFINE u == Put(t, p, x)
<1>2. \A q \in Paths : u[q] = IF q = p THEN x ELSE IF q \in Above[p] THEN Dir ELSE t[q]
  BY DEF Put
<1>3. p \notin Above[p] /\ \A q \in Above[p] : q \in Paths /\ Above[q] \subseteq Above[p]
  BY RoadmapAssumption
<1>4. ASSUME NEW q \in Paths PROVE u[q] \in {Absent, Dir} \/ u[q] \in Contents
  BY <1>2 DEF IsTree, CanHold, CanBeDir
<1>5. ASSUME NEW q \in Paths, u[q] # Absent, NEW r \in Above[q] PROVE u[r] = Dir
  <2>1. r \in Paths /\ Above[q] \in SUBSET Paths
    BY RoadmapAssumption
  <2>2. CASE r \in Above[p]
    BY <1>2, <1>3, <2>1, <2>2
  <2>3. CASE r \notin Above[p]
    <3>1. q # p /\ q \notin Above[p]
      BY <1>3, <1>5, <2>3
    <3>2. t[q] # Absent /\ t[r] = Dir
      BY <1>2, <1>5, <3>1 DEF IsTree
    <3>3. CASE r = p
      BY <1>2, <2>1, <3>2, <3>3 DEF CanHold
    <3>4. CASE r # p
      BY <1>2, <2>1, <2>3, <3>2, <3>4
    <3> QED
      BY <3>3, <3>4
  <2> QED
    BY <2>2, <2>3
<1>6. u \in [Paths -> {Absent, Dir} \cup Contents]
  BY <1>4 DEF Put
<1> QED
  BY <1>5, <1>6 DEF IsTree

(* A note in a file changes no directory.                                   *)
LEMMA NotedTree ==
  ASSUME NEW t, IsTree(t), NEW st, st.path \in Paths, st.note \in Lines, IsFile(t, st.path)
  PROVE  IsTree(Noted(t, st))
<1>1. t[st.path] \in Contents /\ t[st.path] \in [Lines -> Nat]
  BY DEF IsTree, IsFile, Contents
<1>2. [t[st.path] EXCEPT ![st.note] = @ + 1] \in Contents
  BY <1>1 DEF Contents
<1>3. Noted(t, st) = [t EXCEPT ![st.path] = [t[st.path] EXCEPT ![st.note] = @ + 1]]
  BY DEF Noted
<1>4. /\ Noted(t, st)[st.path] \in Contents
      /\ \A p \in Paths : p # st.path => Noted(t, st)[p] = t[p]
  BY <1>2, <1>3 DEF IsTree
<1>5. \A p \in Paths : Noted(t, st)[p] = Absent <=> t[p] = Absent
  BY <1>1, <1>4, NullAssumption
<1>6. \A p \in Paths : t[p] = Dir => Noted(t, st)[p] = Dir
  BY <1>1, <1>4, NullAssumption
<1>7. Noted(t, st) \in [Paths -> {Absent, Dir} \cup Contents]
  BY <1>2, <1>3 DEF IsTree
<1> QED
  <2> HIDE DEF Noted
  <2>1. \A p \in Paths : Noted(t, st)[p] # Absent => \A q \in Above[p] : Noted(t, st)[q] = Dir
    BY <1>5, <1>6, RoadmapAssumption DEF IsTree
  <2> QED
    BY <1>4, <1>7, <2>1 DEF IsTree

-----------------------------------------------------------------------------
(* The handlers. *)

(* What a handler reads is a text, or none.                                 *)
LEMMA TextRead ==
  ASSUME NEW s, RunOK(s), NEW t, IsTree(t), NEW p \in Paths
  PROVE  GetText(s.fs, t, p) \in Contents \cup {None}
BY DEF GetText, RunOK, IsTree, IsFile

(* What it writes is a text.                                                *)
LEMMA TextWritten ==
  ASSUME NEW s, RunOK(s), NEW t, IsTree(t), NEW st, IsStep(st),
         Refusal(s, t, st) = "OK", Writes(s, t, st)
  PROVE  NewText(s, t, st) \in Contents
<1>1. CASE st.type = "create"
  BY <1>1 DEF NewText, IsStep
<1>2. CASE st.type = "patch"
  <2>1. GetText(s.fs, t, st.path) \in Contents \cup {None}
    BY <1>2, TextRead DEF IsStep
  <2>2. NewText(s, t, st) \in Contents \cup {None}
    BY <1>2, <2>1, PatchedText DEF NewText, IsStep
  <2>3. PatchRefusal(s, t, st) = "OK"
    BY <1>2 DEF Refusal
  <2>4. NewText(s, t, st) # None
    BY <2>3 DEF PatchRefusal
  <2> QED
    BY <2>2, <2>4
<1> QED
  BY <1>1, <1>2 DEF Writes

(* The tree stays one, and a dry run leaves it.                             *)
LEMMA TreeHandled ==
  ASSUME NEW s, RunOK(s), NEW t, IsTree(t), NEW st, IsStep(st),
         Refusal(s, t, st) = "OK", ~Unhandled(s, t, st)
  PROVE  /\ IsTree(TreeAfter(s, t, st))
         /\ s.mode # "apply" => TreeAfter(s, t, st) = t
<1>1. CASE s.mode # "apply"
  BY <1>1 DEF TreeAfter
<1>2. CASE s.mode = "apply"
  <2>1. CASE Writes(s, t, st)
    <3>1. st.path \in Paths /\ CanHold(t, st.path)
      BY <1>2, <2>1 DEF Writes, IsStep, Unhandled
    <3>2. NewText(s, t, st) \in Contents
      BY <2>1, TextWritten
    <3>3. st.type \notin {"dir", "change"}
      BY <2>1 DEF Writes
    <3>4. TreeAfter(s, t, st) = Put(t, st.path, NewText(s, t, st))
      BY <1>2, <2>1, <3>3 DEF TreeAfter
    <3> QED
      BY <1>2, <3>1, <3>2, <3>4, PutTree
  <2>2. CASE st.type = "dir"
    <3>1. st.path \in Paths /\ CanBeDir(t, st.path)
      BY <1>2, <2>2 DEF IsStep, Unhandled
    <3>2. TreeAfter(s, t, st) = Put(t, st.path, Dir)
      BY <1>2, <2>2 DEF TreeAfter, Writes
    <3> QED
      BY <1>2, <3>1, <3>2, PutTree
  <2>3. CASE st.type = "change"
    <3>1. st.path \in Paths /\ st.note \in Lines /\ IsFile(t, st.path)
      BY <1>2, <2>3 DEF IsStep, Unhandled
    <3>2. TreeAfter(s, t, st) = Noted(t, st)
      BY <1>2, <2>3 DEF TreeAfter, Writes
    <3> QED
      BY <1>2, <3>1, <3>2, NotedTree
  <2>4. CASE ~Writes(s, t, st) /\ st.type \notin {"dir", "change"}
    BY <1>2, <2>4 DEF TreeAfter
  <2> QED
    BY <2>1, <2>2, <2>3, <2>4
<1> QED
  BY <1>1, <1>2

\* What is refused, is refused with one of the codes.
LEMMA RefusalCodes ==
  ASSUME NEW s, NEW t, NEW st
  PROVE  Refusal(s, t, st) \in Codes
<1>1. Barrier(s, st) \in Codes
  BY DEF Barrier, Codes
<1>2. CreateRefusal(s, t, st) \in Codes
  BY DEF CreateRefusal, Codes
<1>3. PatchRefusal(s, t, st) \in Codes
  BY DEF PatchRefusal, Codes
<1>4. AssertRefusal(s, t, st) \in Codes
  BY DEF AssertRefusal, Codes
<1>7. /\ PointerRefusal(t, st) \in Codes /\ IsoRefusal(t, st) \in Codes
      /\ CoreRefusal(t, st) \in Codes /\ ScanRefusal(t, st) \in Codes
  <2>1. PointerRefusal(t, st) \in Codes
    BY DEF PointerRefusal, Codes, OnDiskCodes
  <2>2. IsoRefusal(t, st) \in Codes
    BY DEF IsoRefusal, Codes, OnDiskCodes
  <2>3. CoreRefusal(t, st) \in Codes
    BY DEF CoreRefusal, Codes, OnDiskCodes
  <2>4. ScanRefusal(t, st) \in Codes
    BY DEF ScanRefusal, Codes, OnDiskCodes
  <2> QED
    BY <2>1, <2>2, <2>3, <2>4
<1>5. ChangeRefusal(s) \in Codes
  BY DEF ChangeRefusal, Codes, OnDiskCodes
<1>6. "OK" \in Codes
  BY DEF Codes
<1> QED
  <2>1. CASE st.type \in {"create", "patch", "dir", "assert", "change"}
    BY <1>1, <1>2, <1>3, <1>4, <1>5, <1>6, <2>1 DEF Refusal
  <2>2. CASE st.type = "pointer"
    BY <1>6, <1>7, <2>2 DEF Refusal
  <2>3. CASE st.type \in {"iso", "core", "scan"}
    BY <1>7, <2>3 DEF Refusal
  <2>4. CASE st.type \notin {"create", "patch", "dir", "assert", "change", "pointer", "iso",
                            "core", "scan"}
    BY <1>6, <2>4 DEF Refusal
  <2> QED
    BY <2>1, <2>2, <2>3, <2>4

LEMMA CapCodes ==
  ASSUME NEW s, NEW st
  PROVE  Caps(s, st) \in Codes
BY DEF Caps, Codes

(* The run after a step that was not refused: only what the handler         *)
(* assigns is another.                                                      *)
LEMMA RunKept ==
  ASSUME NEW s, RunOK(s), NEW t, IsTree(t), NEW st, IsStep(st), Refusal(s, t, st) = "OK"
  PROVE  /\ RunOK(RunAfter(s, t, st))
         /\ RunAfter(s, t, st).plan = s.plan
         /\ RunAfter(s, t, st).mode = s.mode
         /\ RunAfter(s, t, st).pc = s.pc
         /\ RunAfter(s, t, st).phase = s.phase
         /\ RunAfter(s, t, st).code = s.code
<1> DEFINE r == RunAfter(s, t, st)
<1>1. DOMAIN r = RunFields /\ DOMAIN s = RunFields
  BY DEF RunAfter, RunOK
<1>2. r.plan = s.plan /\ r.mode = s.mode /\ r.pc = s.pc /\ r.phase = s.phase /\ r.code = s.code
  BY <1>1 DEF RunAfter, RunFields
<1>3. r.fs = IF s.mode # "apply" /\ Writes(s, t, st)
             THEN SetText(s.fs, st.path, NewText(s, t, st)) ELSE s.fs
  BY <1>1 DEF RunAfter, RunFields
<1>4. \A p \in DOMAIN r.fs : r.fs[p] \in Contents
  <2>1. CASE s.mode # "apply" /\ Writes(s, t, st)
    <3>1. NewText(s, t, st) \in Contents
      BY <2>1, TextWritten
    <3> QED
      BY <1>3, <2>1, <3>1 DEF SetText, RunOK
  <2>2. CASE ~(s.mode # "apply" /\ Writes(s, t, st))
    BY <1>3, <2>2 DEF RunOK
  <2> QED
    BY <2>1, <2>2
<1>5. r.mode = "apply" => r.fs = <<>>
  BY <1>2, <1>3 DEF RunOK
<1> HIDE DEF r
<1>6. RunOK(r)
  BY <1>1, <1>2, <1>4, <1>5 DEF RunOK
<1> QED
  BY <1>2, <1>6 DEF r

(* A step handled: the run goes on with a code, the tree stays one, and a   *)
(* dry run leaves it.                                                       *)
LEMMA StepHandled ==
  ASSUME NEW s, RunOK(s), NEW t, IsTree(t), NEW st, IsStep(st)
  PROVE  /\ RunOK(Handle(s, t, st).run)
         /\ Handle(s, t, st).run.plan = s.plan
         /\ Handle(s, t, st).run.mode = s.mode
         /\ Handle(s, t, st).run.pc = s.pc
         /\ Handle(s, t, st).run.code \in Codes
         /\ IsTree(Handle(s, t, st).tree)
         /\ s.mode # "apply" => Handle(s, t, st).tree = t
<1> DEFINE no == Refusal(s, t, st)
           done == RunAfter(s, t, st)
<1>1. ASSUME NEW r, RunOK(r), NEW c PROVE
        /\ RunOK([r EXCEPT !.code = c])
        /\ [r EXCEPT !.code = c].plan = r.plan
        /\ [r EXCEPT !.code = c].mode = r.mode
        /\ [r EXCEPT !.code = c].pc = r.pc
        /\ [r EXCEPT !.code = c].code = c
  BY <1>1 DEF RunOK, RunFields
<1>2. no \in Codes /\ "UNHANDLED_ERROR" \in Codes /\ Caps(done, st) \in Codes
  BY RefusalCodes, CapCodes DEF Codes
<1>3. CASE no # "OK"
  <2>1. Handle(s, t, st) = [run |-> [s EXCEPT !.code = no], tree |-> t]
    BY <1>3 DEF Handle
  <2> HIDE DEF no
  <2>2. Handle(s, t, st).run = [s EXCEPT !.code = no] /\ Handle(s, t, st).tree = t
    BY <2>1
  <2> QED
    BY <1>1, <1>2, <2>2
<1>4. CASE no = "OK" /\ Unhandled(s, t, st)
  <2>1. Handle(s, t, st) = [run |-> [s EXCEPT !.code = "UNHANDLED_ERROR"], tree |-> t]
    BY <1>4 DEF Handle
  <2>2. Handle(s, t, st).run = [s EXCEPT !.code = "UNHANDLED_ERROR"] /\ Handle(s, t, st).tree = t
    BY <2>1
  <2> QED
    BY <1>1, <1>2, <2>2
<1>5. CASE no = "OK" /\ ~Unhandled(s, t, st)
  <2>1. Handle(s, t, st) = [run |-> [done EXCEPT !.code = Caps(done, st)],
                            tree |-> TreeAfter(s, t, st)]
    BY <1>5 DEF Handle
  <2>2. RunOK(done) /\ done.plan = s.plan /\ done.mode = s.mode /\ done.pc = s.pc
    BY <1>5, RunKept
  <2>3. /\ IsTree(TreeAfter(s, t, st))
        /\ s.mode # "apply" => TreeAfter(s, t, st) = t
    BY <1>5, TreeHandled
  <2> HIDE DEF done
  <2>4. /\ Handle(s, t, st).run = [done EXCEPT !.code = Caps(done, st)]
        /\ Handle(s, t, st).tree = TreeAfter(s, t, st)
    BY <2>1
  <2> QED
    BY <1>1, <1>2, <2>2, <2>3, <2>4
<1> QED
  BY <1>3, <1>4, <1>5

-----------------------------------------------------------------------------
(* The run's state. *)

RunInv == TypeOK /\ Shaped

\* A state function of its own makes the run's parts visible to the lemmas.
LEMMA RunIsOK ==
  ASSUME RunInv, run # None
  PROVE  RunOK(run)
BY DEF RunInv, TypeOK, Shaped, RunOK

(* The step a working run is at is one of its plan.                         *)
LEMMA CurrentStep ==
  ASSUME RunInv, Working
  PROVE  IsStep(Current)
<1> DEFINE p == run.plan
           i == run.pc
<1>1. p \in Plans /\ i \in Nat \ {0} /\ i <= Len(StepsOf(p))
  BY DEF RunInv, TypeOK, Shaped, Working
<1>2. DOMAIN StepsOf(p) = 1 .. Len(StepsOf(p)) /\ Len(StepsOf(p)) \in Nat
  BY <1>1, RoadmapAssumption
<1>3. i \in DOMAIN StepsOf(p)
  BY <1>1, <1>2
<1> DEFINE st == StepsOf(p)[i]
<1>4. /\ st.type \in {"create", "dir", "patch", "change", "pointer", "scan"} => st.path \in Paths
      /\ st.type = "create" => st.text \in st.same /\ st.same \subseteq Contents
      /\ st.type = "patch" => st.patches \in Seq([pattern : Lines, rep : Contents])
      /\ st.type = "change" => st.note \in Lines
      /\ st.type \in {"allow", "assert", "iso", "core"} => st.paths \subseteq Paths
      /\ st.type = "scan" => st.tokens \subseteq Lines
  BY <1>1, <1>3, RoadmapAssumption
<1> QED
  BY <1>4 DEF IsStep, Current

(* The states the program starts in.                                        *)
LEMMA RunInit == Init => RunInv
BY RoadmapAssumption DEF Init, RunInv, TypeOK, Shaped

LEMMA RunStart ==
  ASSUME RunInv, NEW p \in Plans, NEW mode \in Modes, Start(p, mode)
  PROVE  RunInv'
<1>1. /\ run' = NewRun(p, mode)
      /\ evidence' = [mode |-> mode, plan |-> p, base |-> tree, litter |-> litter,
                      steps |-> <<>>, dlq |-> None, summary |-> None]
      /\ runs' = runs + 1 /\ runs < MaxRuns /\ tree' = tree /\ head' = head
      /\ litter' = litter
  BY DEF Start
<1>2. /\ IsTree(tree)' /\ (head \in Trees)' /\ (runs \in 0 .. MaxRuns)'
      /\ litter' \in [Paths -> {Absent} \union Contents]
  BY <1>1, RoadmapAssumption DEF RunInv, TypeOK, IsTree
<1>3. /\ run'.plan = p /\ run'.mode = mode /\ run'.pc = 1 /\ run'.phase = "step"
      /\ run'.code = "OK" /\ run'.fs = <<>> /\ DOMAIN run' = RunFields
  BY <1>1 DEF NewRun, RunFields
<1>4. DOMAIN evidence' = EvidenceFields /\ evidence'.plan = p /\ evidence'.mode = mode
  BY <1>1 DEF EvidenceFields
<1>5. \A q \in DOMAIN run'.fs : run'.fs[q] \in Contents
  BY <1>3
<1>6. TypeOK'
  BY <1>2, <1>3, <1>4, <1>5 DEF TypeOK, Codes
<1>7. Shaped'
  BY <1>3, <1>4 DEF Shaped
<1> QED
  BY <1>6, <1>7 DEF RunInv

(* What becomes of a run that only goes from a phase to the next: its plan, *)
(* mode and overlay are kept.                                               *)
LEMMA RunGoesOn ==
  ASSUME RunInv, run # None, NEW r, RunOK(r),
         r.plan = run.plan, r.mode = run.mode, r.pc \in Nat \ {0}, r.code \in Codes,
         r.phase \in {"step", "record", "dlq", "summary"},
         run' = r, IsTree(tree'), litter' \in Littering, head' = head, runs' = runs,
         DOMAIN evidence' = EvidenceFields,
         evidence'.plan = evidence.plan, evidence'.mode = evidence.mode
  PROVE  RunInv'
<1>1. TypeOK'
  BY DEF RunInv, TypeOK, RunOK, IsTree, Littering
<1>2. Shaped'
  BY DEF Shaped, RunOK
<1> QED
  BY <1>1, <1>2 DEF RunInv

(* A run that is given a phase, a code, or the next step, is still one.     *)
LEMMA RunAssigned ==
  ASSUME NEW r, RunOK(r), NEW ph, NEW c, NEW i
  PROVE  LET q == [r EXCEPT !.phase = ph, !.code = c, !.pc = i]
         IN /\ RunOK(q) /\ q.plan = r.plan /\ q.mode = r.mode
            /\ q.phase = ph /\ q.code = c /\ q.pc = i
BY DEF RunOK, RunFields

\* A step is handled and recorded next.
LEMMA RunStep ==
  ASSUME RunInv, Step
  PROVE  RunInv'
<1> DEFINE after == Handle(run, tree, Current)
           r == [after.run EXCEPT !.phase = "record"]
<1>1. /\ run # None /\ Working /\ run' = r /\ tree' = after.tree
      /\ head' = head /\ evidence' = evidence /\ runs' = runs /\ litter' \in Littering
  BY DEF Step, Working, RunInv, TypeOK, Littering
<1>2. RunOK(run) /\ IsStep(Current) /\ IsTree(tree)
  BY <1>1, RunIsOK, CurrentStep DEF RunInv, TypeOK
<1>3. /\ RunOK(after.run) /\ after.run.plan = run.plan /\ after.run.mode = run.mode
      /\ after.run.pc = run.pc /\ after.run.code \in Codes /\ IsTree(after.tree)
  BY <1>2, StepHandled
<1> HIDE DEF after
<1>4. /\ RunOK(r) /\ r.plan = run.plan /\ r.mode = run.mode /\ r.phase = "record"
      /\ r.pc = run.pc /\ r.code \in Codes
  BY <1>3 DEF RunOK, RunFields
<1>5. run.pc \in Nat \ {0} /\ DOMAIN evidence' = EvidenceFields
  BY <1>1 DEF RunInv, Shaped
<1> HIDE DEF r
<1> QED
  BY <1>1, <1>3, <1>4, <1>5, RunGoesOn

(* A command leaves the tree, or writes a file where one can be.            *)
LEMMA EffectsAreTrees ==
  ASSUME RunInv
  PROVE  \A t \in Effects : IsTree(t)
<1>1. IsTree(tree)
  BY DEF RunInv, TypeOK
<1>2. ASSUME NEW p \in Paths, CanHold(tree, p), NEW x \in Texts PROVE IsTree(Put(tree, p, x))
  <2>1. x \in Contents
    BY RoadmapAssumption
  <2> QED
    BY <1>1, <1>2, <2>1, PutTree
<1>3. ASSUME NEW p \in Paths, IsFile(tree, p) PROVE IsTree([tree EXCEPT ![p] = Absent])
  <2> DEFINE u == [tree EXCEPT ![p] = Absent]
  <2>1. /\ u \in [Paths -> {Absent, Dir} \union Contents]
        /\ \A q \in Paths : u[q] = IF q = p THEN Absent ELSE tree[q]
    BY <1>1 DEF IsTree
  <2>2. ASSUME NEW q \in Paths, u[q] # Absent, NEW above \in Above[q] PROVE u[above] = Dir
    <3>1. q # p /\ tree[q] # Absent /\ above \in Paths
      BY <2>1, <2>2, RoadmapAssumption
    <3>2. tree[above] = Dir
      BY <1>1, <3>1 DEF IsTree
    <3> QED
      BY <1>3, <2>1, <3>1, <3>2 DEF IsFile
  <2> QED
    BY <2>1, <2>2 DEF IsTree
<1> QED
  BY <1>1, <1>2, <1>3 DEF Effects

(* A command, run or passed over, gives the run a code to record and        *)
(* changes the tree by its effects alone; a dry run that goes on has the    *)
(* status it began with.                                                    *)
LEMMA CommandRun ==
  ASSUME RunInv, RunCmd
  PROVE  /\ Working
         /\ \E c \in Codes : run' = [run EXCEPT !.phase = "record", !.code = c]
         /\ tree' \in Effects
         /\ run.mode # "apply" /\ run'.code = "OK" =>
              tree' = tree \/ Status(tree') = Status(evidence.base)
<1> DEFINE st == Current
           skipped == run.mode = "simulate" \/ (run.mode = "readonly" /\ st.applyOnly)
           r(c) == [run EXCEPT !.phase = "record", !.code = c]
<1>1. Working /\ run # None
  BY DEF RunCmd, Working
<1>2. \A c : r(c).code = c
  BY <1>1 DEF RunInv, Shaped, RunFields
<1>3. Caps(run, st) \in Codes /\ {"POLICY_VIOLATION", "UNHANDLED_ERROR", "CMD_FAILED"} \subseteq Codes
  BY CapCodes DEF Codes
<1>4. tree \in Effects
  BY DEF Effects
<1> DEFINE Goal(c) == /\ c \in Codes /\ run' = r(c) /\ tree' \in Effects
                      /\ run.mode # "apply" /\ c = "OK" =>
                           tree' = tree \/ Status(tree') = Status(evidence.base)
<1>5. CASE skipped /\ run' = r(Caps(run, st)) /\ UNCHANGED <<tree, origin>>
  <2>1. Goal(Caps(run, st))
    BY <1>3, <1>4, <1>5
  <2> QED
    BY <1>1, <1>2, <2>1
<1>6. CASE run' = r("POLICY_VIOLATION") /\ UNCHANGED <<tree, origin>>
  <2>1. Goal("POLICY_VIOLATION")
    BY <1>3, <1>4, <1>6
  <2> QED
    BY <1>1, <1>2, <2>1
<1>7. CASE run' = r("UNHANDLED_ERROR") /\ UNCHANGED <<tree, origin>>
  <2>1. Goal("UNHANDLED_ERROR")
    BY <1>3, <1>4, <1>7
  <2> QED
    BY <1>1, <1>2, <2>1
<1>8. CASE ~skipped /\ Command(st)
  <2>1. PICK fails \in BOOLEAN, elsewhere \in BOOLEAN, t \in Effects :
          LET code == CASE st.mustSucceed /\ fails -> "CMD_FAILED"
                        [] ~(st.mustSucceed /\ fails) /\ run.mode = "readonly"
                           /\ (elsewhere \/ Status(t) # Status(evidence.base)) -> "POLICY_VIOLATION"
                        [] OTHER -> Caps(run, st)
          IN tree' = t /\ run' = r(code)
    BY <1>8 DEF Command
  <2>2. run.mode # "apply" => run.mode = "readonly"
    BY <1>1, <1>8 DEF RunInv, TypeOK, Modes
  <2>3. CASE st.mustSucceed /\ fails
    <3>1. Goal("CMD_FAILED")
      BY <1>3, <2>1, <2>3
    <3> QED
      BY <1>1, <1>2, <3>1
  <2>4. CASE ~(st.mustSucceed /\ fails) /\ run.mode = "readonly"
             /\ (elsewhere \/ Status(t) # Status(evidence.base))
    <3>1. Goal("POLICY_VIOLATION")
      BY <1>3, <2>1, <2>4
    <3> QED
      BY <1>1, <1>2, <3>1
  <2>5. CASE ~(st.mustSucceed /\ fails)
             /\ ~(run.mode = "readonly"
                    /\ (elsewhere \/ Status(t) # Status(evidence.base)))
    <3>1. Goal(Caps(run, st))
      BY <1>3, <2>1, <2>2, <2>5
    <3> QED
      BY <1>1, <1>2, <3>1
  <2> QED
    BY <2>3, <2>4, <2>5
<1> QED
  BY <1>5, <1>6, <1>7, <1>8 DEF RunCmd

LEMMA RunCommand ==
  ASSUME RunInv, RunCmd
  PROVE  RunInv'
<1>1. PICK c \in Codes : run' = [run EXCEPT !.phase = "record", !.code = c]
  BY CommandRun
<1>2. /\ run # None /\ head' = head /\ evidence' = evidence /\ runs' = runs
      /\ tree' \in Effects /\ litter' \in Littering
  BY CommandRun DEF RunCmd, Working, RunInv, TypeOK, Littering
<1>3. RunOK(run) /\ IsTree(tree') /\ run.pc \in Nat \ {0} /\ DOMAIN evidence' = EvidenceFields
  BY <1>2, RunIsOK, EffectsAreTrees DEF RunInv, Shaped, IsTree
<1> DEFINE r == [run EXCEPT !.phase = "record", !.code = c]
<1>4. /\ RunOK(r) /\ r.plan = run.plan /\ r.mode = run.mode /\ r.pc = run.pc
      /\ r.phase = "record" /\ r.code = c
  BY <1>3 DEF RunOK, RunFields
<1> HIDE DEF r
<1> QED
  BY <1>1, <1>2, <1>3, <1>4, RunGoesOn DEF r

\* The outcome is written down, and the run goes on or ends.
LEMMA RunRecord ==
  ASSUME RunInv, Record
  PROVE  RunInv'
<1>1. /\ run # None /\ head' = head /\ runs' = runs /\ tree' = tree
      /\ run' = IF run.code = "OK" THEN [run EXCEPT !.pc = @ + 1, !.phase = "step"]
                ELSE [run EXCEPT !.phase = "dlq"]
      /\ evidence' = [evidence EXCEPT !.steps =
           Append(@, IF run.code \in NoStepError THEN "OK" ELSE run.code)]
      /\ litter' \in Littering
  BY DEF Record, RunInv, TypeOK, Littering
<1>2. RunOK(run) /\ run.pc \in Nat \ {0} /\ run.code \in Codes /\ IsTree(tree')
  BY <1>1, RunIsOK DEF RunInv, TypeOK, Shaped, IsTree
<1>3. /\ DOMAIN evidence' = EvidenceFields /\ evidence'.plan = evidence.plan
      /\ evidence'.mode = evidence.mode
  BY <1>1 DEF RunInv, Shaped, EvidenceFields
<1>4. CASE run.code = "OK"
  <2> DEFINE r == [run EXCEPT !.pc = @ + 1, !.phase = "step"]
  <2>1. /\ RunOK(r) /\ r.plan = run.plan /\ r.mode = run.mode /\ r.pc \in Nat \ {0}
        /\ r.code \in Codes /\ r.phase = "step"
    BY <1>2 DEF RunOK, RunFields
  <2>2. run' = r
    BY <1>1, <1>4
  <2> HIDE DEF r
  <2> QED
    BY <1>1, <1>2, <1>3, <2>1, <2>2, RunGoesOn
<1>5. CASE run.code # "OK"
  <2> DEFINE r == [run EXCEPT !.phase = "dlq"]
  <2>1. /\ RunOK(r) /\ r.plan = run.plan /\ r.mode = run.mode /\ r.pc \in Nat \ {0}
        /\ r.code \in Codes /\ r.phase = "dlq"
    BY <1>2 DEF RunOK, RunFields
  <2>2. run' = r
    BY <1>1, <1>5
  <2> HIDE DEF r
  <2> QED
    BY <1>1, <1>2, <1>3, <2>1, <2>2, RunGoesOn
<1> QED
  BY <1>4, <1>5

LEMMA RunDeadLetter ==
  ASSUME RunInv, DeadLetter
  PROVE  RunInv'
<1> DEFINE r == [run EXCEPT !.phase = "summary"]
<1>1. /\ run # None /\ head' = head /\ runs' = runs /\ tree' = tree
      /\ run' = r /\ evidence' = [evidence EXCEPT !.dlq = run.code]
      /\ litter' \in Littering
  BY DEF DeadLetter, RunInv, TypeOK, Littering
<1>2. RunOK(run) /\ run.pc \in Nat \ {0} /\ run.code \in Codes /\ IsTree(tree')
  BY <1>1, RunIsOK DEF RunInv, TypeOK, Shaped, IsTree
<1>3. /\ DOMAIN evidence' = EvidenceFields /\ evidence'.plan = evidence.plan
      /\ evidence'.mode = evidence.mode
  BY <1>1 DEF RunInv, Shaped, EvidenceFields
<1>4. /\ RunOK(r) /\ r.plan = run.plan /\ r.mode = run.mode /\ r.pc \in Nat \ {0}
      /\ r.code \in Codes /\ r.phase = "summary"
  BY <1>2 DEF RunOK, RunFields
<1> HIDE DEF r
<1> QED
  BY <1>1, <1>2, <1>3, <1>4, RunGoesOn

\* Between runs there is the tree, and the evidence of the last run.
LEMMA RunEnds ==
  ASSUME RunInv, run' = None, IsTree(tree'), litter' \in Littering, head' = head,
         runs' = runs, DOMAIN evidence' = EvidenceFields
  PROVE  RunInv'
BY DEF RunInv, TypeOK, Shaped, IsTree, Littering

LEMMA RunSummarise ==
  ASSUME RunInv, Summarise
  PROVE  RunInv'
<1>1. IsTree(tree') /\ litter' \in Littering /\ DOMAIN evidence' = EvidenceFields
  BY DEF Summarise, RunInv, TypeOK, Shaped, IsTree, EvidenceFields, Littering
<1> QED
  BY <1>1, RunEnds DEF Summarise

(* What a write that was cut short leaves: directories where nothing was,   *)
(* or these and a temporary file.                                           *)
LEMMA CutLeaves ==
  ASSUME RunInv, CutShort
  PROVE  /\ Working /\ run # None /\ run.mode = "apply"
         /\ Refusal(run, tree, Current) = "OK"
         /\ Current.type \in {"create", "dir", "patch", "change"}
         /\ IsTree(tree') /\ litter' \in Littering /\ Within(litter, litter')
         /\ \A q \in Paths :
              tree'[q] = tree[q] \/ (q \in Lacks /\ tree'[q] = Dir)
<1>1. /\ Working /\ run # None /\ run.mode = "apply" /\ Refusal(run, tree, Current) = "OK"
      /\ \/ Writes(run, tree, Current)
         \/ Current.type = "dir"
         \/ Current.type = "change" /\ IsFile(tree, Current.path)
      /\ \A q \in Above[Current.path] : tree[q] \in {Absent, Dir}
  BY DEF CutShort, Writing, Working
<1>2. Current.type \in {"create", "dir", "patch", "change"}
  BY <1>1 DEF Writes
<1>3. /\ IsStep(Current) /\ Current.path \in Paths /\ IsTree(tree) /\ RunOK(run)
      /\ litter \in Littering
  BY <1>1, <1>2, CurrentStep, RunIsOK DEF IsStep, RunInv, TypeOK, Littering
<1>4. /\ Lacks \in SUBSET Paths /\ \A q \in Lacks : tree[q] = Absent
      /\ \A q \in Lacks : \A r \in Above[q] : tree[r] = Dir \/ r \in Lacks
  <2>1. Lacks \in SUBSET Paths /\ \A q \in Lacks : tree[q] = Absent
    BY <1>3, RoadmapAssumption DEF Lacks
  <2>2. ASSUME NEW q \in Lacks, NEW above \in Above[q] PROVE tree[above] = Dir \/ above \in Lacks
    <3>1. q \in Above[Current.path] \/ q = Current.path
      BY DEF Lacks
    <3>2. above \in Above[Current.path]
      BY <1>3, <3>1, RoadmapAssumption
    <3> QED
      BY <1>1, <3>2 DEF Lacks
  <2> QED
    BY <2>1, <2>2
<1>5. ASSUME NEW D \in SUBSET Lacks, \A q \in D : Above[q] \intersect Lacks \subseteq D
      PROVE  IsTree(WithDirs(D))
  <2> DEFINE u == WithDirs(D)
  <2>1. \A q \in Paths : u[q] = IF q \in D THEN Dir ELSE tree[q]
    BY DEF WithDirs
  <2>2. u \in [Paths -> {Absent, Dir} \union Contents]
    BY <1>3 DEF WithDirs, IsTree
  <2>3. ASSUME NEW q \in Paths, u[q] # Absent, NEW above \in Above[q] PROVE u[above] = Dir
    <3>1. above \in Paths
      BY RoadmapAssumption
    <3>2. CASE q \in D
      <4>1. q \in Lacks
        BY <3>2
      <4>2. tree[above] = Dir \/ above \in D
        BY <1>4, <1>5, <3>2, <4>1
      <4> QED
        BY <2>1, <3>1, <4>2
    <3>3. CASE q \notin D
      <4>1. tree[above] = Dir
        BY <1>3, <2>1, <2>3, <3>3 DEF IsTree
      <4> QED
        BY <2>1, <3>1, <4>1
    <3> QED
      BY <3>2, <3>3
  <2> HIDE DEF u
  <2> QED
    BY <2>2, <2>3 DEF IsTree, u
<1>6. PICK D \in SUBSET Lacks :
        (\A q \in D : Above[q] \intersect Lacks \subseteq D) /\ tree' = WithDirs(D)
  <2>1. CASE tree' = WithDirs(Lacks)
    <3>1. \A q \in Lacks : Above[q] \intersect Lacks \subseteq Lacks
      OBVIOUS
    <3> QED
      BY <2>1, <3>1
  <2> QED
    BY <2>1 DEF CutShort
<1>7. \A q \in Paths : tree'[q] = tree[q] \/ (q \in Lacks /\ tree'[q] = Dir)
  BY <1>6 DEF WithDirs
<1>8. litter' \in Littering /\ Within(litter, litter')
  <2>1. CASE UNCHANGED litter
    <3>1. \A q \in Paths : litter[q] # Absent => litter[q] \in [Lines -> Nat]
      BY <1>3 DEF Littering, Contents
    <3>2. Within(litter, litter)
      BY <3>1 DEF Within
    <3> QED
      BY <1>3, <2>1, <3>2
  <2>2. CASE Current.type # "dir" /\
             \E x \in {Empty, IF Current.type = "change"
                              THEN Noted(tree, Current)[Current.path]
                              ELSE NewText(run, tree, Current)} : litter' = Littered(x)
    <3>1. PICK x \in {Empty, IF Current.type = "change"
                              THEN Noted(tree, Current)[Current.path]
                              ELSE NewText(run, tree, Current)} : litter' = Littered(x)
      BY <2>2
    <3>2. Empty \in Contents
      BY DEF Empty, Contents
    <3>3. x \in Contents
      <4>1. CASE Current.type = "change"
        <5>1. IsFile(tree, Current.path) /\ Current.note \in Lines
          BY <1>1, <1>3, <4>1 DEF Writes, IsStep
        <5>2. IsTree(Noted(tree, Current))
          BY <1>3, <5>1, NotedTree
        <5>3. tree[Current.path] \in [Lines -> Nat]
          BY <1>3, <5>1 DEF IsTree, IsFile, Contents
        <5>4. Noted(tree, Current)
                = [tree EXCEPT ![Current.path] = [tree[Current.path] EXCEPT ![Current.note] = @ + 1]]
          BY DEF Noted
        <5>5. Noted(tree, Current)[Current.path] \in Contents
          BY <1>3, <5>1, <5>3, <5>4 DEF IsTree, Contents
        <5> QED
          BY <3>1, <3>2, <4>1, <5>5
      <4>2. CASE Current.type # "change"
        <5>1. Writes(run, tree, Current)
          BY <1>1, <2>2, <4>2
        <5>2. NewText(run, tree, Current) \in Contents
          BY <1>1, <1>3, <5>1, TextWritten
        <5> QED
          BY <3>1, <3>2, <4>2, <5>2
      <4> QED
        BY <4>1, <4>2
    <3> DEFINE q == Current.path
               old == litter[q]
               new == IF old = Absent THEN x ELSE [l \in Lines |-> old[l] + x[l]]
    <3>4. litter' = [litter EXCEPT ![q] = new]
      BY <3>1 DEF Littered
    <3>5. q \in Paths /\ x \in [Lines -> Nat] /\ old \in {Absent} \union [Lines -> Nat]
      BY <1>3, <3>3 DEF Littering, Contents
    <3>6. new \in Contents /\ (old # Absent => \A l \in Lines : old[l] <= new[l])
      BY <3>5 DEF Contents
    <3> HIDE DEF q, old, new
    <3>7. litter' \in Littering
      BY <1>3, <3>4, <3>5, <3>6 DEF Littering
    <3>8. \A p \in Paths : litter[p] # Absent => litter[p] \in [Lines -> Nat]
      BY <1>3 DEF Littering, Contents
    <3>9. litter'[q] = new /\ \A p \in Paths : p # q => litter'[p] = litter[p]
      BY <1>3, <3>4, <3>5 DEF Littering
    <3>10. ASSUME NEW p \in Paths, litter[p] # Absent
           PROVE  litter'[p] # Absent /\ \A l \in Lines : litter[p][l] <= litter'[p][l]
      <4>1. CASE p = q
        BY <3>6, <3>9, <3>10, <4>1, NullAssumption DEF old
      <4>2. CASE p # q
        BY <3>8, <3>9, <3>10, <4>2
      <4> QED
        BY <4>1, <4>2
    <3> QED
      BY <3>7, <3>10 DEF Within
  <2> QED
    BY <2>1, <2>2 DEF CutShort
<1> QED
  BY <1>1, <1>2, <1>5, <1>6, <1>7, <1>8

\* A failed write is recorded next.
LEMMA RunFail ==
  ASSUME RunInv, Fail
  PROVE  RunInv'
<1> DEFINE r == [run EXCEPT !.code = "OS_ERROR", !.phase = "record"]
<1>1. /\ run # None /\ run' = r /\ IsTree(tree') /\ litter' \in Littering
      /\ head' = head /\ evidence' = evidence /\ runs' = runs
  BY CutLeaves DEF Fail
<1>2. RunOK(run) /\ run.pc \in Nat \ {0} /\ DOMAIN evidence' = EvidenceFields
  BY <1>1, RunIsOK DEF RunInv, Shaped
<1>3. /\ RunOK(r) /\ r.plan = run.plan /\ r.mode = run.mode /\ r.pc \in Nat \ {0}
      /\ r.code \in Codes /\ r.phase = "record"
  BY <1>2 DEF RunOK, RunFields, Codes
<1> HIDE DEF r
<1> QED
  BY <1>1, <1>2, <1>3, RunGoesOn

\* What a crash leaves is a tree.
LEMMA RunCrash ==
  ASSUME RunInv, Crash
  PROVE  RunInv'
<1>1. /\ run' = None /\ head' = head /\ runs' = runs /\ DOMAIN evidence' = EvidenceFields
      /\ IsTree(tree) /\ litter \in Littering
  BY DEF Crash, RunInv, TypeOK, Shaped, Littering
<1>2. IsTree(tree') /\ litter' \in Littering
  <2>1. CASE UNCHANGED <<tree, litter>>
    BY <1>1, <2>1
  <2>2. CASE CutShort
    BY <2>2, CutLeaves
  <2> QED
    BY <2>1, <2>2 DEF Crash
<1> QED
  BY <1>1, <1>2, RunEnds

LEMMA RunStutters ==
  ASSUME RunInv, UNCHANGED vars
  PROVE  RunInv'
BY DEF RunInv, TypeOK, Shaped, IsTree, vars

LEMMA RunNext ==
  ASSUME RunInv, [Next]_vars
  PROVE  RunInv'
<1>1. ASSUME NEW p \in Plans, NEW mode \in Modes, Start(p, mode) PROVE RunInv'
  BY <1>1, RunStart
<1> QED
  BY <1>1, RunStep, RunCommand, RunFail, RunRecord, RunDeadLetter, RunSummarise, RunCrash,
     RunStutters DEF Next

(* Type correctness: the workspace stays a tree of files and directories    *)
(* whatever a run writes and wherever it dies, only a dry run has an        *)
(* overlay, a run ends with one of the executor's codes, and the evidence   *)
(* directory is that of the run.                                            *)
THEOREM RoadmapTypeCorrect == Spec => []TypeOK
<1>1. Init => RunInv
  BY RunInit
<1>2. RunInv /\ [Next]_vars => RunInv'
  BY RunNext
<1>3. RunInv => TypeOK
  BY DEF RunInv
<1> QED
  BY <1>1, <1>2, <1>3, PTL DEF Spec

-----------------------------------------------------------------------------
(* A dry run and the workspace. *)

(* While a dry run has met no refusal, the status of the workspace is the   *)
(* one its evidence began with; so it is when its summary says OK, until    *)
(* the next run starts.  The program refuses by the status alone, so        *)
(* this, not the tree, is what the steps keep.                              *)
ReadInv ==
  /\ run # None =>
       /\ evidence.summary = None
       /\ run.phase = "step" => run.code = "OK"
       /\ run.mode # "apply" /\ run.code = "OK" => Status(tree) = Status(evidence.base)
  /\ run = None /\ evidence # None /\ evidence.mode # "apply" /\ evidence.summary # None
       /\ evidence.summary.code = "OK"
     => Status(tree) = Status(evidence.base)

\* core and head are never written: what is compared is what the trees are.
LEMMA StatusKept ==
  ASSUME UNCHANGED <<core, head, litter>>
  PROVE  (Status(tree) = Status(evidence.base))' <=> Status(tree') = Status(evidence'.base)
<1>1. core' = core /\ head' = head /\ litter' = litter
  OBVIOUS
<1> QED
  BY <1>1 DEF Status, Snapshot, GitStatus, IsFile, Named, Tracks

LEMMA ReadInit == Init => ReadInv
BY DEF Init, ReadInv

LEMMA ReadStart ==
  ASSUME NEW p \in Plans, NEW mode \in Modes, Start(p, mode)
  PROVE  ReadInv'
<1>1. /\ run' = NewRun(p, mode) /\ tree' = tree /\ UNCHANGED <<core, head, litter>>
      /\ evidence' = [mode |-> mode, plan |-> p, base |-> tree, litter |-> litter,
                      steps |-> <<>>, dlq |-> None, summary |-> None]
  BY DEF Start
<1>2. evidence'.base = tree /\ evidence'.summary = None /\ run'.code = "OK"
  BY <1>1 DEF NewRun
<1> QED
  BY <1>1, <1>2, StatusKept DEF ReadInv

(* A step of a dry run leaves the tree, and follows a status that was kept. *)
LEMMA ReadStep ==
  ASSUME RunInv, ReadInv, Step
  PROVE  ReadInv'
<1> DEFINE after == Handle(run, tree, Current)
           r == [after.run EXCEPT !.phase = "record"]
<1>1. /\ run # None /\ Working /\ run.phase = "step" /\ run' = r /\ tree' = after.tree
      /\ UNCHANGED <<core, head, litter>> /\ evidence' = evidence
  BY DEF Step, Working
<1>2. RunOK(run) /\ IsStep(Current) /\ IsTree(tree)
  BY <1>1, RunIsOK, CurrentStep DEF RunInv, TypeOK
<1>3. /\ RunOK(after.run) /\ after.run.mode = run.mode
      /\ run.mode # "apply" => after.tree = tree
  BY <1>2, StepHandled
<1> HIDE DEF after
<1>4. r.mode = run.mode /\ r.phase = "record"
  BY <1>3 DEF RunOK, RunFields
<1> HIDE DEF r
<1>5. /\ evidence'.summary = None
      /\ run.mode # "apply" => tree' = tree /\ Status(tree) = Status(evidence.base)
  BY <1>1, <1>3 DEF ReadInv
<1> QED
  BY <1>1, <1>4, <1>5, StatusKept DEF ReadInv

\* A command that leaves another status is refused, or was not run.
LEMMA ReadCommand ==
  ASSUME RunInv, ReadInv, RunCmd
  PROVE  ReadInv'
<1>1. PICK c \in Codes : run' = [run EXCEPT !.phase = "record", !.code = c]
  BY CommandRun
<1>2. /\ run # None /\ run.phase = "step" /\ UNCHANGED <<core, head, litter>> /\ evidence' = evidence
  BY CommandRun DEF RunCmd, Working
<1>3. run'.mode = run.mode /\ run'.phase = "record"
  BY <1>1, <1>2 DEF RunInv, Shaped, RunFields
<1>4. run.mode # "apply" /\ run'.code = "OK" =>
        tree' = tree \/ Status(tree') = Status(evidence.base)
  BY CommandRun
<1>5. /\ evidence'.summary = None
      /\ run.mode # "apply" => Status(tree) = Status(evidence.base)
  BY <1>2 DEF ReadInv
<1> QED
  BY <1>2, <1>3, <1>4, <1>5, StatusKept DEF ReadInv

LEMMA ReadRecord ==
  ASSUME RunInv, ReadInv, Record
  PROVE  ReadInv'
<1>1. /\ run # None /\ tree' = tree /\ UNCHANGED <<core, head, litter>>
      /\ run' = IF run.code = "OK" THEN [run EXCEPT !.pc = @ + 1, !.phase = "step"]
                ELSE [run EXCEPT !.phase = "dlq"]
      /\ evidence' = [evidence EXCEPT !.steps =
           Append(@, IF run.code \in NoStepError THEN "OK" ELSE run.code)]
  BY DEF Record
<1>2. evidence'.summary = evidence.summary /\ evidence'.base = evidence.base
  BY <1>1 DEF RunInv, Shaped, EvidenceFields
<1>3. /\ run'.mode = run.mode /\ run'.code = run.code
      /\ run'.phase = "step" => run.code = "OK"
  BY <1>1 DEF RunInv, Shaped, RunFields
<1> QED
  BY <1>1, <1>2, <1>3, StatusKept DEF ReadInv

LEMMA ReadDeadLetter ==
  ASSUME RunInv, ReadInv, DeadLetter
  PROVE  ReadInv'
<1>1. /\ run # None /\ tree' = tree /\ UNCHANGED <<core, head, litter>>
      /\ run' = [run EXCEPT !.phase = "summary"]
      /\ evidence' = [evidence EXCEPT !.dlq = run.code]
  BY DEF DeadLetter
<1>2. evidence'.summary = evidence.summary /\ evidence'.base = evidence.base
  BY <1>1 DEF RunInv, Shaped, EvidenceFields
<1>3. run'.mode = run.mode /\ run'.code = run.code /\ run'.phase = "summary"
  BY <1>1 DEF RunInv, Shaped, RunFields
<1> QED
  BY <1>1, <1>2, <1>3, StatusKept DEF ReadInv

\* The summary says what the run does.
LEMMA ReadSummarise ==
  ASSUME RunInv, ReadInv, Summarise
  PROVE  ReadInv'
<1>1. /\ run # None /\ run' = None /\ tree' = tree /\ UNCHANGED <<core, head, litter>>
      /\ evidence' = [evidence EXCEPT !.summary = Verdict]
  BY DEF Summarise
<1>2. /\ evidence'.summary = Verdict /\ evidence'.base = evidence.base
      /\ evidence'.mode = run.mode
  BY <1>1 DEF RunInv, TypeOK, Shaped, EvidenceFields
<1>3. Verdict.code = run.code
  BY DEF Verdict
<1> QED
  BY <1>1, <1>2, <1>3, StatusKept DEF ReadInv

\* Only a run that applies writes.
LEMMA ReadFail ==
  ASSUME RunInv, ReadInv, Fail
  PROVE  ReadInv'
<1>1. run # None /\ run.mode = "apply" /\ evidence' = evidence
  BY CutLeaves DEF Fail
<1>2. run'.mode = "apply" /\ run'.phase = "record"
  <2>1. DOMAIN run = RunFields /\ run' = [run EXCEPT !.code = "OS_ERROR", !.phase = "record"]
    BY <1>1 DEF RunInv, Shaped, Fail
  <2> QED
    BY <1>1, <2>1 DEF RunFields
<1> QED
  BY <1>1, <1>2 DEF ReadInv

LEMMA ReadCrash ==
  ASSUME ReadInv, Crash
  PROVE  ReadInv'
BY DEF ReadInv, Crash

LEMMA ReadNext ==
  ASSUME RunInv, ReadInv, [Next]_vars
  PROVE  ReadInv'
<1>1. ASSUME NEW p \in Plans, NEW mode \in Modes, Start(p, mode) PROVE ReadInv'
  BY <1>1, ReadStart
<1>2. CASE UNCHANGED vars
  <2>1. /\ run' = run /\ tree' = tree /\ evidence' = evidence
        /\ UNCHANGED <<core, head, litter>>
    BY <1>2 DEF vars
  <2> QED
    BY <2>1, StatusKept DEF ReadInv
<1> QED
  BY <1>1, <1>2, ReadStep, ReadCommand, ReadRecord, ReadDeadLetter, ReadSummarise, ReadFail,
     ReadCrash DEF Next

(* Equal statuses are equal files, except where git already reported the    *)
(* file, or the directory it is in, and where it reports nothing.           *)
LEMMA SameStatus ==
  ASSUME NEW p \in Paths, Status(tree) = Status(evidence.base)
  PROVE  \/ tree[p] = evidence.base[p]
         \/ ~IsFile(tree, p) /\ ~IsFile(evidence.base, p)
         \/ core # "outside" /\ IsFile(head, p) /\ evidence.base[p] # head[p]
         \/ /\ core # "outside" /\ ~IsFile(head, p)
            /\ p \in Ignored \/ Named(p) \subseteq GitStatus(evidence.base).untracked
<1> DEFINE base == evidence.base
<1>1. CASE core = "outside"
  <2>1. Snapshot(tree)[p] = Snapshot(base)[p]
    BY <1>1 DEF Status
  <2>2. (IF IsFile(tree, p) THEN tree[p] ELSE Absent) = (IF IsFile(base, p) THEN base[p] ELSE Absent)
    BY <2>1 DEF Snapshot
  <2> QED
    BY <2>2 DEF IsFile
<1>2. CASE core # "outside"
  <2>1. /\ GitStatus(tree).tracked = GitStatus(base).tracked
        /\ GitStatus(tree).untracked = GitStatus(base).untracked
    BY <1>2 DEF Status
  <2>2. CASE IsFile(head, p)
    <3>1. GitStatus(tree).tracked[p] = GitStatus(base).tracked[p]
      BY <2>1
    <3>2. <<IsFile(tree, p), tree[p] = head[p]>> = <<IsFile(base, p), base[p] = head[p]>>
      BY <2>2, <3>1 DEF GitStatus
    <3>3. (tree[p] = head[p]) = (base[p] = head[p])
      BY <3>2
    <3> QED
      BY <1>2, <2>2, <3>3
  <2>3. CASE ~IsFile(head, p)
    <3>1. ASSUME NEW t, IsFile(t, p), p \notin Ignored PROVE Named(p) \subseteq GitStatus(t).untracked
      <4>1. p \in {q \in Paths \ Ignored : IsFile(t, q) /\ ~IsFile(head, q)}
        BY <2>3, <3>1
      <4>2. Named(p) \in {Named(q) : q \in {r \in Paths \ Ignored : IsFile(t, r) /\ ~IsFile(head, r)}}
        BY <4>1
      <4> HIDE DEF Named
      <4> QED
        BY <4>2 DEF GitStatus
    <3> QED
      BY <1>2, <2>1, <2>3, <3>1
  <2> QED
    BY <2>2, <2>3
<1> QED
  BY <1>1, <1>2

(* What a dry run that reports OK does to the workspace, whatever its       *)
(* commands wrote or removed: nothing, but to files that git already        *)
(* reported, by themselves or by the directory they are in, or ignores.     *)
THEOREM ReadonlyStaysUnchanged == Spec => []ReadonlyUnchanged
<1>1. Init => RunInv /\ ReadInv
  BY RunInit, ReadInit
<1>2. RunInv /\ ReadInv /\ [Next]_vars => (RunInv /\ ReadInv)'
  BY RunNext, ReadNext
<1>3. RunInv /\ ReadInv => ReadonlyUnchanged
  <2> SUFFICES ASSUME ReadInv, NEW mode \in Modes \ {"apply"}, Ended(mode),
                      evidence.summary.code = "OK", NEW p \in Paths
               PROVE  \/ tree[p] = evidence.base[p]
                      \/ ~IsFile(tree, p) /\ ~IsFile(evidence.base, p)
                      \/ core # "outside" /\ IsFile(head, p) /\ evidence.base[p] # head[p]
                      \/ /\ core # "outside" /\ ~IsFile(head, p)
                         /\ p \in Ignored \/ Named(p) \subseteq GitStatus(evidence.base).untracked
    BY DEF ReadonlyUnchanged
  <2>1. Status(tree) = Status(evidence.base)
    BY DEF ReadInv, Ended
  <2> QED
    BY <2>1, SameStatus
<1> QED
  BY <1>1, <1>2, <1>3, PTL DEF Spec

-----------------------------------------------------------------------------
(* Lines counted. *)

\* The lines, one after the other.
LEMMA LinesInOrder == SetToSeq(Lines) \in Seq(Lines)
<1>1. IsFiniteSet(Lines)
  BY RoadmapAssumption
<1> DEFINE n == Cardinality(Lines)
<1>2. n \in Nat /\ ExistsBijection(1 .. n, Lines)
  BY <1>1, FS_CardinalityType
<1>3. PICK f \in [1 .. n -> Lines] : IsInjective(f)
  BY <1>2 DEF ExistsBijection, Bijection, Injection, IsInjective
<1>4. SetToSeq(Lines) \in [1 .. n -> Lines]
  BY <1>3 DEF SetToSeq
<1> QED
  BY <1>2, <1>4

\* A count stays among the numbers that adding the lines of the text leads to.
LEMMA SizeAmong ==
  ASSUME NEW V \in SUBSET Nat, 0 \in V, NEW text \in [Lines -> Nat],
         \A n \in V, l \in Lines : n + text[l] \in V
  PROVE  Size(text) \in V
<1> DEFINE seq == SetToSeq(Lines)
           S == DOMAIN seq
           c == [s \in SUBSET S |-> Max(s)]
           h == [i \in S |-> [v \in V |-> v + text[seq[i]]]]
           Is(g) == g = [s \in SUBSET S |-> IF s = {} THEN 0
                                             ELSE g[s \ {Max(s)}] + text[seq[Max(s)]]]
<1>0. seq \in Seq(Lines)
  BY LinesInOrder
<1>4. Size(text) = (CHOOSE g : Is(g))[S]
  BY DEF Size, FoldLeft, MapThenFoldSet
<1> HIDE DEF seq
<1>1. IsFiniteSet(S) /\ S \subseteq Nat /\ S = 1 .. Len(seq) /\ Len(seq) \in Nat
  <2>1. S = 1 .. Len(seq) /\ Len(seq) \in Nat
    BY <1>0, LenProperties
  <2> QED
    BY <2>1, FS_Interval
<1>2. ASSUME NEW s \in SUBSET S, s # {} PROVE Max(s) \in s
  <2>1. PICK a \in s : \A b \in s : b <= a
    <3>1. s \in SUBSET (0 .. Len(seq))
      BY <1>1
    <3> QED
      BY <1>1, <1>2, <3>1, GreatestElement
  <2>2. \A b \in s : a >= b
    BY <1>1, <2>1
  <2> QED
    BY <2>1, <2>2 DEF Max
<1>3. ASSUME NEW i \in S, NEW v \in V PROVE v + text[seq[i]] \in V
  BY <1>0, <1>1, ElementOfSeq
<1> HIDE DEF S
<1>5. /\ \A s \in SUBSET S : s # {} => c[s] \in s
      /\ h \in [S -> [V -> V]]
  BY <1>2, <1>3
<1>6. PICK g \in [SUBSET S -> V] : IsSolution(g, S, 0, h, c)
  <2> HIDE DEF c, h
  <2>1. IsFold(S, V, 0, h, c)
    BY <1>1, <1>5 DEF IsFold
  <2> QED
    BY <2>1, SolutionExists
<1>7. ASSUME NEW f, Is(f) PROVE f[S] \in V
  <2> DEFINE G == {s \in SUBSET S : f[s] \in V}
  <2>1. {} \in G
    BY <1>7
  <2>2. ASSUME NEW s \in SUBSET S, s # {}, \A x \in s : s \ {x} \in G PROVE s \in G
    <3>1. f[s] = f[s \ {Max(s)}] + text[seq[Max(s)]] /\ Max(s) \in S /\ Max(s) \in s
      BY <1>2, <1>7, <2>2
    <3>2. f[s \ {Max(s)}] \in V
      BY <2>2, <3>1
    <3>3. f[s \ {Max(s)}] + text[seq[Max(s)]] \in V
      BY <1>3, <3>1, <3>2
    <3> QED
      BY <3>1, <3>3
  <2>3. \A s \in SUBSET S : s \in G
    <3>1. G \in SUBSET (SUBSET S)
      OBVIOUS
    <3> HIDE DEF G
    <3>2. IsFiniteSet(S)
      BY <1>1
    <3> QED
      BY <3>2, <2>1, <2>2, <3>1, SubsetInduction
  <2> QED
    BY <2>3
<1>8. Is(g)
  <2>1. ASSUME NEW s \in SUBSET S, s # {}
        PROVE  h[c[s]][g[s \ {c[s]}]] = g[s \ {Max(s)}] + text[seq[Max(s)]]
    <3>1. c[s] = Max(s) /\ Max(s) \in S /\ g[s \ {Max(s)}] \in V
      BY <1>2, <2>1
    <3> QED
      BY <3>1
  <2>2. \A s \in SUBSET S : g[s] = IF s = {} THEN 0
                                      ELSE g[s \ {Max(s)}] + text[seq[Max(s)]]
    BY <1>6, <2>1 DEF IsSolution
  <2> QED
    BY <2>2
<1>9. Is(CHOOSE f : Is(f))
  <2> HIDE DEF Is
  <2> QED
    BY <1>8
<1> QED
  <2> HIDE DEF Is, c, h
  <2> QED
    BY <1>4, <1>7, <1>9

\* A difference is a number, and there is none between a text and itself.
LEMMA DifferenceCounts ==
  ASSUME NEW old \in Contents, NEW new \in Contents
  PROVE  DiffLines(old, new) \in Nat /\ DiffLines(old, old) = 0
<1>1. old \in [Lines -> Nat] /\ new \in [Lines -> Nat]
  BY DEF Contents
<1>2. ASSUME NEW x \in [Lines -> Nat] PROVE Size(x) \in Nat
  <2>1. \A m, n \in Nat : m + n \in Nat
    OBVIOUS
  <2>2. Nat \in SUBSET Nat /\ 0 \in Nat /\ \A n \in Nat, l \in Lines : n + x[l] \in Nat
    BY <1>2, <2>1
  <2> QED
    BY <1>2, <2>2, SizeAmong
<1>3. ASSUME NEW x \in [Lines -> Nat], \A l \in Lines : x[l] = 0 PROVE Size(x) = 0
  <2> DEFINE V == {0}
  <2>1. V \in SUBSET Nat /\ 0 \in V /\ \A n \in V, l \in Lines : n + x[l] \in V
    BY <1>3
  <2> HIDE DEF V
  <2>2. Size(x) \in V
    BY <2>1, SizeAmong
  <2> QED
    BY <2>2 DEF V
<1> DEFINE d(a, b) == [l \in Lines |-> IF a[l] > b[l] THEN a[l] - b[l] ELSE b[l] - a[l]]
<1>4. d(old, new) \in [Lines -> Nat]
  <2>1. ASSUME NEW l \in Lines
        PROVE  (IF old[l] > new[l] THEN old[l] - new[l] ELSE new[l] - old[l]) \in Nat
    <3>1. old[l] \in Nat /\ new[l] \in Nat
      BY <1>1
    <3> QED
      BY <3>1
  <2> QED
    BY <2>1
<1>5. d(old, old) \in [Lines -> Nat] /\ \A l \in Lines : d(old, old)[l] = 0
  <2>1. ASSUME NEW l \in Lines PROVE d(old, old)[l] = 0
    <3>1. old[l] \in Nat
      BY <1>1
    <3> QED
      BY <3>1
  <2>2. d(old, old) = [l \in Lines |-> 0]
    BY <2>1
  <2> QED
    BY <2>1, <2>2
<1> QED
  BY <1>2, <1>3, <1>4, <1>5 DEF DiffLines

-----------------------------------------------------------------------------
(* A plan carried out undisturbed, in any mode. *)

NextOf(p, i, b) ==
  IF b.run.code # "OK" THEN b ELSE Handle(b.run, b.tree, StepsOf(p)[i])

\* The runs and trees of a run of the plan that nothing cuts short, step by step.
IsCourse(U, p, mode, t) ==
  /\ U[0] = [run |-> NewRun(p, mode), tree |-> t]
  /\ \A i \in 1 .. Len(StepsOf(p)) : U[i] = NextOf(p, i, U[i - 1])

\* A plan's steps, and their number.
LEMMA PlanSteps ==
  ASSUME NEW p \in Plans
  PROVE  /\ Len(StepsOf(p)) \in Nat
         /\ \A i \in 1 .. Len(StepsOf(p)) :
              IsStep(StepsOf(p)[i]) /\ StepsOf(p)[i].ms \in Milestones
<1>1. Len(StepsOf(p)) \in Nat /\ DOMAIN StepsOf(p) = 1 .. Len(StepsOf(p))
  BY RoadmapAssumption
<1>2. ASSUME NEW i \in DOMAIN StepsOf(p)
      PROVE  IsStep(StepsOf(p)[i]) /\ StepsOf(p)[i].ms \in Milestones
  <2> DEFINE st == StepsOf(p)[i]
  <2>1. /\ st.ms \in Milestones
        /\ st.type \in {"create", "dir", "patch", "change", "pointer", "scan"} =>
             st.path \in Paths
        /\ st.type = "create" => st.text \in st.same /\ st.same \subseteq Contents
        /\ st.type = "patch" => st.patches \in Seq([pattern : Lines, rep : Contents])
        /\ st.type = "change" => st.note \in Lines
        /\ st.type \in {"allow", "assert", "iso", "core"} => st.paths \subseteq Paths
        /\ st.type = "scan" => st.tokens \subseteq Lines
    BY RoadmapAssumption
  <2> QED
    BY <2>1 DEF IsStep
<1> QED
  BY <1>1, <1>2

\* There is one, and an apply run's ends as Uninterrupted has it.
LEMMA CourseExists ==
  ASSUME NEW p \in Plans, NEW mode, NEW t
  PROVE  \E U : IsCourse(U, p, mode, t)
               /\ (mode = "apply" => U[Len(StepsOf(p))] = Uninterrupted(p, t))
<1> DEFINE n == Len(StepsOf(p))
           A == [run |-> NewRun(p, mode), tree |-> t]
           Is(g) == g = [i \in 0 .. n |-> IF i = 0 THEN A ELSE NextOf(p, i, g[i - 1])]
           Upto(g, m) == g[0] = A /\ \A i \in 1 .. m : g[i] = NextOf(p, i, g[i - 1])
           G == {m \in Nat : \E g : Upto(g, m)}
<1>1. n \in Nat
  BY PlanSteps
<1>2. mode = "apply" => Uninterrupted(p, t) = (CHOOSE g : Is(g))[n]
  BY DEF Uninterrupted, NextOf
<1> HIDE DEF n, A
<1>3. 0 \in G
  <2>1. Upto([i \in {0} |-> A], 0)
    OBVIOUS
  <2> HIDE DEF Upto
  <2> QED
    BY <2>1
<1>4. ASSUME NEW m \in 0 .. (n - 1), m \in G PROVE m + 1 \in G
  <2>1. PICK g : Upto(g, m)
    BY <1>4
  <2> DEFINE f == [i \in 0 .. (m + 1) |-> IF i <= m THEN g[i] ELSE NextOf(p, m + 1, g[m])]
  <2>2. m \in Nat /\ m + 1 \in Nat
    BY <1>1
  <2>3. f[0] = A
    BY <2>1, <2>2
  <2>4. ASSUME NEW i \in 1 .. (m + 1) PROVE f[i] = NextOf(p, i, f[i - 1])
    <3>1. i - 1 \in 0 .. (m + 1) /\ i - 1 <= m /\ i \in 0 .. (m + 1)
      BY <2>2
    <3>2. f[i - 1] = g[i - 1]
      BY <3>1
    <3>3. CASE i <= m
      <4>1. i \in 1 .. m /\ f[i] = g[i]
        BY <2>2, <3>1, <3>3
      <4> HIDE DEF f
      <4> QED
        BY <2>1, <3>2, <4>1
    <3>4. CASE ~(i <= m)
      <4>1. i = m + 1 /\ i - 1 = m
        BY <2>2, <3>1, <3>4
      <4>2. f[i] = NextOf(p, m + 1, g[m])
        BY <3>1, <3>4
      <4> HIDE DEF f
      <4> QED
        BY <3>2, <4>1, <4>2
    <3> QED
      BY <3>3, <3>4
  <2>5. Upto(f, m + 1)
    <3> HIDE DEF f
    <3> QED
      BY <2>3, <2>4
  <2> HIDE DEF Upto, f
  <2> QED
    BY <2>2, <2>5
<1>5. n \in G
  <2> HIDE DEF G
  <2> QED
    BY <1>1, <1>3, <1>4, UpwardInduction
<1>6. PICK g : Upto(g, n)
  <2> HIDE DEF Upto
  <2> QED
    BY <1>5
<1> DEFINE f == [i \in 0 .. n |-> g[i]]
<1>7. ASSUME NEW i \in 0 .. n
      PROVE  f[i] = IF i = 0 THEN A ELSE NextOf(p, i, f[i - 1])
  <2>1. CASE i = 0
    BY <1>1, <1>6, <2>1
  <2>2. CASE i # 0
    <3>1. i \in 1 .. n /\ i - 1 \in 0 .. n
      BY <1>1, <2>2
    <3> QED
      BY <1>6, <2>2, <3>1
  <2> QED
    BY <2>1, <2>2
<1>8. Is(f)
  <2>1. f = [i \in 0 .. n |-> f[i]]
    OBVIOUS
  <2> HIDE DEF f
  <2> QED
    BY <1>7, <2>1
<1> DEFINE U == CHOOSE x : Is(x)
<1>9. Is(U)
  <2> HIDE DEF Is
  <2> QED
    BY <1>8
<1>10. U[0] = A /\ \A i \in 1 .. n : U[i] = NextOf(p, i, U[i - 1])
  <2> HIDE DEF U
  <2>1. \A i \in 0 .. n : U[i] = IF i = 0 THEN A ELSE NextOf(p, i, U[i - 1])
    BY <1>9
  <2> QED
    BY <1>1, <2>1
<1>11. IsCourse(U, p, mode, t) /\ (mode = "apply" => U[n] = Uninterrupted(p, t))
  <2>1. mode = "apply" => U[n] = Uninterrupted(p, t)
    BY <1>2
  <2> HIDE DEF U
  <2> QED
    BY <1>10, <2>1 DEF IsCourse, A, n
<1> QED
  <2> HIDE DEF U
  <2> QED
    BY <1>11 DEF n

\* Each of its runs is one, and each of its trees; a dry run's is the first.
LEMMA CourseStates ==
  ASSUME NEW p \in Plans, NEW mode \in Modes, NEW b, IsTree(b), NEW U, IsCourse(U, p, mode, b)
  PROVE  /\ \A i \in 0 .. Len(StepsOf(p)) :
              /\ RunOK(U[i].run) /\ U[i].run.plan = p /\ U[i].run.mode = mode
              /\ IsTree(U[i].tree) /\ (mode # "apply" => U[i].tree = b)
         /\ \A i \in 1 .. Len(StepsOf(p)) :
              /\ i - 1 \in 0 .. Len(StepsOf(p)) /\ i \in 0 .. Len(StepsOf(p))
              /\ U[i] = NextOf(p, i, U[i - 1])
              /\ IsStep(StepsOf(p)[i]) /\ StepsOf(p)[i].ms \in Milestones
<1> DEFINE n == Len(StepsOf(p))
           Fine(i) == /\ RunOK(U[i].run) /\ U[i].run.plan = p /\ U[i].run.mode = mode
                      /\ IsTree(U[i].tree) /\ (mode # "apply" => U[i].tree = b)
           G == {k \in Nat : Fine(k)}
<1>1. n \in Nat
  BY PlanSteps
<1>2. ASSUME NEW i \in 1 .. n
      PROVE  /\ i - 1 \in 0 .. n /\ i \in 0 .. n
             /\ U[i] = NextOf(p, i, U[i - 1])
             /\ IsStep(StepsOf(p)[i]) /\ StepsOf(p)[i].ms \in Milestones
  <2>1. i - 1 \in 0 .. n /\ i \in 0 .. n
    BY <1>1
  <2>2. U[i] = NextOf(p, i, U[i - 1])
    BY DEF IsCourse
  <2> QED
    BY <2>1, <2>2, PlanSteps
<1>3. 0 \in G
  <2>1. U[0].run = NewRun(p, mode) /\ U[0].tree = b
    BY DEF IsCourse
  <2>2. RunOK(NewRun(p, mode)) /\ NewRun(p, mode).plan = p /\ NewRun(p, mode).mode = mode
    BY DEF NewRun, RunOK, RunFields
  <2> QED
    BY <2>1, <2>2
<1>4. ASSUME NEW k \in 0 .. (n - 1), k \in G PROVE k + 1 \in G
  <2>1. k + 1 \in 1 .. n /\ (k + 1) - 1 = k /\ k + 1 \in Nat
    BY <1>1
  <2>2. U[k + 1] = NextOf(p, k + 1, U[k]) /\ IsStep(StepsOf(p)[k + 1])
    BY <1>2, <2>1
  <2>3. Fine(k)
    BY <1>4
  <2> DEFINE s == U[k].run
             t == U[k].tree
             st == StepsOf(p)[k + 1]
             h == Handle(s, t, st)
  <2>4. /\ RunOK(h.run) /\ h.run.plan = s.plan /\ h.run.mode = s.mode
        /\ IsTree(h.tree) /\ (s.mode # "apply" => h.tree = t)
    <3>1. RunOK(s) /\ IsTree(t) /\ IsStep(st)
      BY <2>2, <2>3
    <3> HIDE DEF s, t, st
    <3> QED
      BY <3>1, StepHandled
  <2>5. CASE s.code # "OK"
    <3>1. U[k + 1] = U[k]
      BY <2>2, <2>5 DEF NextOf
    <3> QED
      BY <2>1, <2>3, <3>1
  <2>6. CASE s.code = "OK"
    <3>1. U[k + 1] = h
      BY <2>2, <2>6 DEF NextOf
    <3> HIDE DEF h
    <3>2. Fine(k + 1)
      BY <2>3, <2>4, <3>1
    <3> HIDE DEF Fine
    <3> QED
      BY <2>1, <3>2
  <2> QED
    BY <2>5, <2>6
<1>5. \A k \in 0 .. n : k \in G
  <2> HIDE DEF G, n
  <2> QED
    BY <1>1, <1>3, <1>4, UpwardInduction
<1> QED
  BY <1>2, <1>5

\* A run that has failed has ended.
LEMMA CourseStuck ==
  ASSUME NEW p \in Plans, NEW mode, NEW b, NEW U, IsCourse(U, p, mode, b),
         NEW i \in 0 .. Len(StepsOf(p)), U[i].run.code # "OK", NEW j \in i .. Len(StepsOf(p))
  PROVE  U[j] = U[i]
<1> DEFINE n == Len(StepsOf(p))
           G == {k \in Nat : U[k] = U[i]}
<1>1. n \in Nat
  BY PlanSteps
<1> HIDE DEF n
<1>2. i \in G /\ i \in Nat
  BY <1>1
<1>3. ASSUME NEW k \in i .. (n - 1), k \in G PROVE k + 1 \in G
  <2>1. k + 1 \in 1 .. n /\ (k + 1) - 1 = k /\ k \in Nat
    BY <1>1, <1>2 DEF n
  <2>2. U[k + 1] = NextOf(p, k + 1, U[k])
    BY <2>1 DEF IsCourse, n
  <2>3. U[k + 1] = U[k]
    BY <1>3, <2>2 DEF NextOf
  <2> QED
    BY <1>3, <2>1, <2>3
<1> HIDE DEF G
<1>4. \A k \in i .. n : k \in G
  BY <1>1, <1>2, <1>3, UpwardInduction
<1> QED
  BY <1>4 DEF G, n

\* What the handlers write of a run.
TouchedAfter(s, st) == [s.touched EXCEPT ![st.ms] = @ \cup Touched(s, st)]
LinesAfter(s, t, st) == [s.lines EXCEPT ![st.ms] = @ + Counted(s, t, st)]

LEMMA RunCounts ==
  ASSUME NEW s, RunOK(s), NEW t, NEW st
  PROVE  /\ st.type = "allow" => RunAfter(s, t, st).allow = st.paths
         /\ st.type # "allow" => RunAfter(s, t, st).allow = s.allow
         /\ RunAfter(s, t, st).touched = TouchedAfter(s, st)
         /\ RunAfter(s, t, st).lines = LinesAfter(s, t, st)
         /\ RunAfter(s, t, st).plan = s.plan
BY DEF RunAfter, RunOK, RunFields, TouchedAfter, LinesAfter

\* How a step turns out.
LEMMA HandledAs ==
  ASSUME NEW s, RunOK(s), NEW t, IsTree(t), NEW st, IsStep(st)
  PROVE  LET done == RunAfter(s, t, st)
             h == Handle(s, t, st)
             no == Refusal(s, t, st)
         IN /\ no # "OK" => h.run.code = no /\ h.tree = t
            /\ no = "OK" /\ Unhandled(s, t, st) => h.run.code = "UNHANDLED_ERROR"
            /\ no = "OK" /\ ~Unhandled(s, t, st) =>
                 /\ h.run.code = Caps(done, st) /\ h.tree = TreeAfter(s, t, st)
                 /\ h.run.allow = done.allow /\ h.run.touched = done.touched
                 /\ h.run.lines = done.lines /\ h.run.fs = done.fs
<1> DEFINE no == Refusal(s, t, st)
           done == RunAfter(s, t, st)
<1>1. ASSUME NEW r, RunOK(r), NEW c
      PROVE  /\ [r EXCEPT !.code = c].code = c
             /\ [r EXCEPT !.code = c].allow = r.allow
             /\ [r EXCEPT !.code = c].touched = r.touched
             /\ [r EXCEPT !.code = c].lines = r.lines
             /\ [r EXCEPT !.code = c].fs = r.fs
  BY <1>1 DEF RunOK, RunFields
<1>2. CASE no # "OK"
  <2>1. Handle(s, t, st).run = [s EXCEPT !.code = no] /\ Handle(s, t, st).tree = t
    BY <1>2 DEF Handle
  <2> HIDE DEF no
  <2>2. Handle(s, t, st).run.code = no
    BY <1>1, <2>1
  <2> QED
    BY <1>2, <2>1, <2>2 DEF no
<1>3. CASE no = "OK" /\ Unhandled(s, t, st)
  <2>1. Handle(s, t, st).run = [s EXCEPT !.code = "UNHANDLED_ERROR"]
    BY <1>3 DEF Handle
  <2>2. Handle(s, t, st).run.code = "UNHANDLED_ERROR"
    BY <1>1, <2>1
  <2> QED
    BY <1>3, <2>2
<1>4. CASE no = "OK" /\ ~Unhandled(s, t, st)
  <2>1. /\ Handle(s, t, st).run = [done EXCEPT !.code = Caps(done, st)]
        /\ Handle(s, t, st).tree = TreeAfter(s, t, st)
    BY <1>4 DEF Handle
  <2>2. RunOK(done)
    BY <1>4, RunKept
  <2> HIDE DEF done
  <2>3. /\ Handle(s, t, st).run.code = Caps(done, st)
        /\ Handle(s, t, st).run.allow = done.allow
        /\ Handle(s, t, st).run.touched = done.touched
        /\ Handle(s, t, st).run.lines = done.lines
        /\ Handle(s, t, st).run.fs = done.fs
    BY <1>1, <2>1, <2>2
  <2> QED
    BY <1>4, <2>1, <2>3 DEF done
<1> QED
  BY <1>2, <1>3, <1>4

\* A step is carried out if it is not refused, can be written and fits the caps.
LEMMA CarriedOut ==
  ASSUME NEW s, RunOK(s), NEW t, IsTree(t), NEW st, IsStep(st)
  PROVE  LET done == RunAfter(s, t, st)
             can == Refusal(s, t, st) = "OK" /\ ~Unhandled(s, t, st) /\ Caps(done, st) = "OK"
         IN /\ Handle(s, t, st).run.code = "OK" <=> can
            /\ can => /\ Handle(s, t, st).tree = TreeAfter(s, t, st)
                      /\ Handle(s, t, st).run.allow = done.allow
                      /\ Handle(s, t, st).run.touched = done.touched
                      /\ Handle(s, t, st).run.lines = done.lines
BY HandledAs

-----------------------------------------------------------------------------
(* A plan that creates, and is carried out undisturbed from tree b. *)

Good(U, p, b) ==
  /\ p \in Plans /\ IsTree(b) /\ Rerunnable(p) /\ IsCourse(U, p, "apply", b)
  /\ U[Len(StepsOf(p))].run.code = "OK"

\* It succeeds, so it had not failed before.
LEMMA GoodSucceeds ==
  ASSUME NEW U, NEW p, NEW b, Good(U, p, b)
  PROVE  \A i \in 0 .. Len(StepsOf(p)) : U[i].run.code = "OK"
<1> SUFFICES ASSUME NEW i \in 0 .. Len(StepsOf(p)), U[i].run.code # "OK" PROVE FALSE
  OBVIOUS
<1>1. Len(StepsOf(p)) \in i .. Len(StepsOf(p)) /\ p \in Plans
  BY PlanSteps DEF Good
<1>2. U[Len(StepsOf(p))] = U[i]
  BY <1>1, CourseStuck DEF Good
<1> QED
  BY <1>2 DEF Good

LEMMA GoodStates ==
  ASSUME NEW U, NEW p, NEW b, Good(U, p, b)
  PROVE  /\ \A i \in 0 .. Len(StepsOf(p)) :
              /\ RunOK(U[i].run) /\ U[i].run.plan = p /\ U[i].run.mode = "apply"
              /\ IsTree(U[i].tree)
         /\ \A i \in 1 .. Len(StepsOf(p)) :
              /\ i - 1 \in 0 .. Len(StepsOf(p)) /\ i \in 0 .. Len(StepsOf(p))
              /\ U[i] = Handle(U[i - 1].run, U[i - 1].tree, StepsOf(p)[i])
<1>1. p \in Plans /\ IsTree(b) /\ IsCourse(U, p, "apply", b) /\ "apply" \in Modes
  BY DEF Good, Modes
<1>2. \A i \in 0 .. Len(StepsOf(p)) :
        /\ RunOK(U[i].run) /\ U[i].run.plan = p /\ U[i].run.mode = "apply"
        /\ IsTree(U[i].tree)
  BY <1>1, CourseStates
<1>3. ASSUME NEW i \in 1 .. Len(StepsOf(p))
      PROVE  /\ i - 1 \in 0 .. Len(StepsOf(p)) /\ i \in 0 .. Len(StepsOf(p))
             /\ U[i] = Handle(U[i - 1].run, U[i - 1].tree, StepsOf(p)[i])
  <2>1. i - 1 \in 0 .. Len(StepsOf(p)) /\ i \in 0 .. Len(StepsOf(p))
    BY <1>1, PlanSteps
  <2>2. U[i] = NextOf(p, i, U[i - 1])
    BY <1>1 DEF IsCourse
  <2> QED
    BY <2>1, <2>2, GoodSucceeds DEF NextOf
<1> QED
  BY <1>2, <1>3

\* What is put, and what stays as it was.
LEMMA PutKeeps ==
  ASSUME NEW t, IsTree(t), NEW p \in Paths, NEW x, CanHold(t, p) \/ CanBeDir(t, p)
  PROVE  /\ Put(t, p, x)[p] = x
         /\ \A q \in Paths : q # p =>
              /\ IsFile(t, q) => Put(t, p, x)[q] = t[q]
              /\ t[q] = Dir => Put(t, p, x)[q] = Dir
              /\ t[q] # Absent => Put(t, p, x)[q] # Absent
<1>1. \A q \in Paths :
        Put(t, p, x)[q] = IF q = p THEN x ELSE IF q \in Above[p] THEN Dir ELSE t[q]
  BY DEF Put
<1>2. \A q \in Above[p] : ~IsFile(t, q)
  BY DEF CanHold, CanBeDir, IsFile
<1> QED
  BY <1>1, <1>2, NullAssumption

\* What is there already changes nothing: the directories above it are there.
LEMMA PutAgain ==
  ASSUME NEW t, IsTree(t), NEW p \in Paths, t[p] # Absent
  PROVE  Put(t, p, t[p]) = t
<1>1. \A q \in Above[p] : t[q] = Dir
  BY DEF IsTree
<1>2. \A q \in Paths : (IF q = p THEN t[p] ELSE IF q \in Above[p] THEN Dir ELSE t[q]) = t[q]
  BY <1>1
<1>3. t = [q \in Paths |-> t[q]]
  BY DEF IsTree
<1>4. Put(t, p, t[p]) = [q \in Paths |-> t[q]]
  BY <1>2 DEF Put
<1> QED
  BY <1>3, <1>4

\* A later write puts the same directories there.
LEMMA PutOver ==
  ASSUME NEW t, NEW p \in Paths, NEW x, NEW y
  PROVE  Put(Put(t, p, x), p, y) = Put(t, p, y)
BY DEF Put

(* What a step of the plan does, undisturbed.                               *)
LEMMA GoodStep ==
  ASSUME NEW U, NEW p, NEW b, Good(U, p, b), NEW i \in 1 .. Len(StepsOf(p))
  PROVE  LET s == U[i - 1].run
             t == U[i - 1].tree
             st == StepsOf(p)[i]
             done == RunAfter(s, t, st)
         IN /\ Refusal(s, t, st) = "OK" /\ ~Unhandled(s, t, st) /\ Caps(done, st) = "OK"
            /\ U[i].tree = TreeAfter(s, t, st)
            /\ U[i].run.allow = done.allow
            /\ U[i].run.touched = done.touched
            /\ U[i].run.lines = done.lines
<1> DEFINE s == U[i - 1].run
           t == U[i - 1].tree
           st == StepsOf(p)[i]
<1>1. /\ i - 1 \in 0 .. Len(StepsOf(p)) /\ i \in 0 .. Len(StepsOf(p))
      /\ U[i] = Handle(s, t, st)
  BY GoodStates
<1>2. RunOK(s) /\ IsTree(t) /\ IsStep(st) /\ U[i].run.code = "OK"
  BY <1>1, GoodStates, GoodSucceeds, PlanSteps DEF Good
<1> HIDE DEF s, t, st
<1>3. Handle(s, t, st).run.code = "OK"
  BY <1>1, <1>2
<1> QED
  BY <1>1, <1>2, <1>3, CarriedOut DEF s, t, st

\* In particular what its steps are, and what becomes of their paths.
LEMMA GoodKinds ==
  ASSUME NEW U, NEW p, NEW b, Good(U, p, b), NEW i \in 1 .. Len(StepsOf(p))
  PROVE  LET s == U[i - 1].run
             t == U[i - 1].tree
             st == StepsOf(p)[i]
         IN /\ st.type \notin {"cmd", "patch", "change", "pointer", "scan"}
            /\ st.type = "create" /\ ~Keeps(s, t, st) =>
                 CanHold(t, st.path) /\ U[i].tree = Put(t, st.path, st.text)
            /\ st.type = "create" /\ Keeps(s, t, st) =>
                 IsFile(t, st.path) /\ t[st.path] \in st.same /\ U[i].tree = t
            /\ st.type = "dir" => CanBeDir(t, st.path) /\ U[i].tree = Put(t, st.path, Dir)
            /\ st.type \notin {"create", "dir"} => U[i].tree = t
<1> DEFINE s == U[i - 1].run
           t == U[i - 1].tree
           st == StepsOf(p)[i]
<1>1. /\ i - 1 \in 0 .. Len(StepsOf(p))
      /\ RunOK(s) /\ s.mode = "apply" /\ s.fs = <<>> /\ IsTree(t) /\ IsStep(st)
  BY GoodStates, PlanSteps DEF Good, RunOK
<1>2. /\ Refusal(s, t, st) = "OK" /\ ~Unhandled(s, t, st)
      /\ U[i].tree = TreeAfter(s, t, st)
  BY GoodStep
<1>3. st.type \notin {"cmd", "patch", "change", "pointer", "scan"}
  <2>1. st.type \in Types(p)
    BY DEF Types
  <2> QED
    BY <2>1 DEF Good, Rerunnable
<1> HIDE DEF s, t, st
<1>4. CASE st.type = "create" /\ ~Keeps(s, t, st)
  <2>1. Writes(s, t, st) /\ NewText(s, t, st) = st.text
    BY <1>4 DEF Writes, NewText
  <2>2. CanHold(t, st.path) /\ TreeAfter(s, t, st) = Put(t, st.path, st.text)
    BY <1>1, <1>2, <1>4, <2>1 DEF Unhandled, TreeAfter
  <2> QED
    BY <1>2, <1>3, <1>4, <2>2 DEF s, t, st
<1>5. CASE st.type = "create" /\ Keeps(s, t, st)
  <2>1. CreateRefusal(s, t, st) = "OK"
    BY <1>2, <1>5 DEF Refusal
  <2>2. Matches(s, t, st)
    BY <1>5, <2>1 DEF CreateRefusal
  <2>3. GetText(s.fs, t, st.path) = IF IsFile(t, st.path) THEN t[st.path] ELSE None
    BY <1>1 DEF GetText
  <2>4. None \notin st.same
    BY <1>1, <1>5, NullAssumption DEF IsStep
  <2>5. IsFile(t, st.path) /\ t[st.path] \in st.same
    BY <2>2, <2>3, <2>4 DEF Matches
  <2>6. TreeAfter(s, t, st) = t
    BY <1>1, <1>5 DEF TreeAfter, Writes
  <2> QED
    BY <1>2, <1>3, <1>5, <2>5, <2>6 DEF s, t, st
<1>6. CASE st.type = "dir"
  <2>1. CanBeDir(t, st.path) /\ TreeAfter(s, t, st) = Put(t, st.path, Dir)
    BY <1>1, <1>2, <1>6 DEF Unhandled, TreeAfter, Writes
  <2> QED
    BY <1>2, <1>3, <1>6, <2>1 DEF s, t, st
<1>7. CASE st.type \notin {"create", "dir"}
  <2>1. TreeAfter(s, t, st) = t
    BY <1>1, <1>3, <1>7 DEF TreeAfter, Writes
  <2> QED
    BY <1>2, <1>3, <1>7, <2>1 DEF s, t, st
<1> QED
  BY <1>4, <1>5, <1>6, <1>7

(* What is there of a step that was carried out: its file or its directory, *)
(* and all that was there after it.                                         *)
Has(U, p, i, t) ==
  LET st == StepsOf(p)[i]
  IN /\ st.type = "create" => IsFile(t, st.path) /\ t[st.path] = U[i].tree[st.path]
     /\ st.type = "dir" => t[st.path] = Dir
     /\ \A q \in Paths : /\ U[i].tree[q] # Absent => t[q] # Absent
                         /\ IsFile(U[i].tree, q) => IsFile(t, q)

LEMMA HasPut ==
  ASSUME NEW U, NEW p, NEW i, NEW t, IsTree(t), Has(U, p, i, t),
         IsStep(StepsOf(p)[i]),
         NEW q \in Paths, NEW x, CanHold(t, q) \/ CanBeDir(t, q),
         x # Absent \/ x = t[q], IsFile(t, q) => x \notin {Absent, Dir},
         StepsOf(p)[i].type = "create" => StepsOf(p)[i].path # q,
         StepsOf(p)[i].type = "dir" => StepsOf(p)[i].path # q \/ x = Dir
  PROVE  Has(U, p, i, Put(t, q, x))
<1> DEFINE u == Put(t, q, x)
           st == StepsOf(p)[i]
<1>1. /\ u[q] = x
      /\ \A r \in Paths : r # q =>
           /\ IsFile(t, r) => u[r] = t[r]
           /\ t[r] = Dir => u[r] = Dir
           /\ t[r] # Absent => u[r] # Absent
  BY PutKeeps
<1>2. /\ st.type = "create" => IsFile(t, st.path) /\ t[st.path] = U[i].tree[st.path]
      /\ st.type = "dir" => t[st.path] = Dir
      /\ \A r \in Paths : /\ U[i].tree[r] # Absent => t[r] # Absent
                          /\ IsFile(U[i].tree, r) => IsFile(t, r)
  BY DEF Has
<1>3. st.type \in {"create", "dir"} => st.path \in Paths
  BY DEF IsStep
<1> HIDE DEF u
<1>4. st.type = "create" => IsFile(u, st.path) /\ u[st.path] = U[i].tree[st.path]
  BY <1>1, <1>2, <1>3 DEF IsFile
<1>5. st.type = "dir" => u[st.path] = Dir
  BY <1>1, <1>2, <1>3
<1>6. \A r \in Paths : /\ U[i].tree[r] # Absent => u[r] # Absent
                       /\ IsFile(U[i].tree, r) => IsFile(u, r)
  BY <1>1, <1>2 DEF IsFile
<1>7. Has(U, p, i, u)
  BY <1>4, <1>5, <1>6 DEF Has
<1> QED
  BY <1>7 DEF u

\* A step leaves its own work.
LEMMA HasOwn ==
  ASSUME NEW U, NEW p, NEW b, Good(U, p, b), NEW i \in 1 .. Len(StepsOf(p))
  PROVE  Has(U, p, i, U[i].tree)
<1> DEFINE s == U[i - 1].run
           t == U[i - 1].tree
           st == StepsOf(p)[i]
<1>1. IsStep(st) /\ IsTree(t)
  BY GoodStates, PlanSteps DEF Good
<1>2. CASE st.type = "create"
  <2>1. CASE Keeps(s, t, st)
    <3>1. IsFile(t, st.path) /\ U[i].tree = t
      BY <1>2, <2>1, GoodKinds
    <3> QED
      BY <1>2, <3>1 DEF Has
  <2>2. CASE ~Keeps(s, t, st)
    <3>1. CanHold(t, st.path) /\ U[i].tree = Put(t, st.path, st.text)
      BY <1>2, <2>2, GoodKinds
    <3>2. st.path \in Paths /\ st.text \in Contents
      BY <1>1, <1>2 DEF IsStep
    <3>3. U[i].tree[st.path] = st.text
      BY <1>1, <3>1, <3>2, PutKeeps
    <3>4. IsFile(U[i].tree, st.path)
      BY <3>2, <3>3, NullAssumption DEF IsFile
    <3> QED
      BY <1>2, <3>4 DEF Has
  <2> QED
    BY <2>1, <2>2
<1>3. CASE st.type = "dir"
  <2>1. CanBeDir(t, st.path) /\ U[i].tree = Put(t, st.path, Dir)
    BY <1>3, GoodKinds
  <2>2. st.path \in Paths
    BY <1>1, <1>3 DEF IsStep
  <2>3. U[i].tree[st.path] = Dir
    BY <1>1, <2>1, <2>2, PutKeeps
  <2> QED
    BY <1>3, <2>3 DEF Has
<1>4. CASE st.type \notin {"create", "dir"}
  BY <1>4 DEF Has
<1> QED
  BY <1>2, <1>3, <1>4

\* No other step has its path, unless both make the directory.
LEMMA OwnPath ==
  ASSUME NEW U, NEW p, NEW b, Good(U, p, b),
         NEW i \in 1 .. Len(StepsOf(p)), NEW j \in 1 .. Len(StepsOf(p)), i # j,
         StepsOf(p)[i].type \in {"create", "dir"}, StepsOf(p)[j].type \in {"create", "dir"},
         StepsOf(p)[i].path = StepsOf(p)[j].path
  PROVE  StepsOf(p)[i].type = "dir" /\ StepsOf(p)[j].type = "dir"
BY DEF Good, Rerunnable

\* And a later step leaves it.
LEMMA HasKept ==
  ASSUME NEW U, NEW p, NEW b, Good(U, p, b),
         NEW i \in 1 .. Len(StepsOf(p)), NEW j \in 1 .. Len(StepsOf(p)), i # j,
         Has(U, p, i, U[j - 1].tree)
  PROVE  Has(U, p, i, U[j].tree)
<1> DEFINE s == U[j - 1].run
           t == U[j - 1].tree
           st == StepsOf(p)[j]
           own == StepsOf(p)[i]
<1>1. IsStep(st) /\ IsStep(own) /\ IsTree(t)
  BY GoodStates, PlanSteps DEF Good
<1>2. CASE st.type = "create" /\ ~Keeps(s, t, st)
  <2>1. CanHold(t, st.path) /\ U[j].tree = Put(t, st.path, st.text)
    BY <1>2, GoodKinds
  <2>2. st.path \in Paths /\ st.text \in Contents /\ st.text \notin {Absent, Dir}
    BY <1>1, <1>2, NullAssumption DEF IsStep
  <2>3. own.type \in {"create", "dir"} => own.path # st.path
    BY <1>2, OwnPath
  <2> QED
    BY <1>1, <2>1, <2>2, <2>3, HasPut
<1>3. CASE st.type = "dir"
  <2>1. CanBeDir(t, st.path) /\ U[j].tree = Put(t, st.path, Dir)
    BY <1>3, GoodKinds
  <2>2. st.path \in Paths /\ Dir # Absent
    BY <1>1, <1>3, NullAssumption DEF IsStep
  <2>3. own.type = "create" => own.path # st.path
    BY <1>3, OwnPath
  <2>4. ~IsFile(t, st.path)
    BY <2>1 DEF CanBeDir, IsFile
  <2> QED
    BY <1>1, <2>1, <2>2, <2>3, <2>4, HasPut
<1>4. CASE (st.type = "create" /\ Keeps(s, t, st)) \/ st.type \notin {"create", "dir"}
  <2>1. U[j].tree = t
    BY <1>4, GoodKinds
  <2> QED
    BY <2>1
<1> QED
  BY <1>2, <1>3, <1>4

\* So it is there from then on.
LEMMA HasStays ==
  ASSUME NEW U, NEW p, NEW b, Good(U, p, b),
         NEW i \in 1 .. Len(StepsOf(p)), NEW j \in i .. Len(StepsOf(p))
  PROVE  Has(U, p, i, U[j].tree)
<1> DEFINE n == Len(StepsOf(p))
           G == {k \in Nat : Has(U, p, i, U[k].tree)}
<1>1. n \in Nat /\ i \in Nat
  BY PlanSteps DEF Good
<1>2. i \in G
  BY <1>1, HasOwn
<1>3. ASSUME NEW k \in i .. (n - 1), k \in G PROVE k + 1 \in G
  <2>1. k + 1 \in 1 .. n /\ (k + 1) - 1 = k /\ k + 1 # i /\ k + 1 \in Nat
    BY <1>1
  <2>2. Has(U, p, i, U[k + 1].tree)
    BY <1>3, <2>1, HasKept
  <2> QED
    BY <2>1, <2>2
<1>4. \A k \in i .. n : k \in G
  <2> HIDE DEF G, n
  <2> QED
    BY <1>1, <1>2, <1>3, UpwardInduction
<1> QED
  BY <1>4

-----------------------------------------------------------------------------
(* The plan started over. *)

(* The trees a run may find after j steps: what they left, be it with some  *)
(* directories that the next one needs.                                     *)
Needs(st) ==
  CASE st.type = "create" -> Above[st.path]
    [] st.type = "dir" -> Above[st.path] \union {st.path}
    [] OTHER -> {}
Mid(U, p, j, t) ==
  /\ IsTree(t)
  /\ \A q \in Paths :
       \/ t[q] = U[j].tree[q]
       \/ /\ U[j].tree[q] = Absent /\ t[q] = Dir
          /\ j < Len(StepsOf(p)) /\ q \in Needs(StepsOf(p)[j + 1])

\* A tree is what its paths are.
LEMMA SameTree ==
  ASSUME NEW t, IsTree(t), NEW u, IsTree(u), \A q \in Paths : t[q] = u[q]
  PROVE  t = u
<1>1. t = [q \in Paths |-> t[q]] /\ u = [q \in Paths |-> u[q]]
  BY DEF IsTree
<1> QED
  BY <1>1

LEMMA MidTree ==
  ASSUME NEW U, NEW p, NEW b, Good(U, p, b), NEW j \in 0 .. Len(StepsOf(p)),
         NEW t, Mid(U, p, j, t)
  PROVE  IsTree(t) /\ \A i \in 1 .. j : Has(U, p, i, t)
<1> DEFINE n == Len(StepsOf(p))
           T == U[j].tree
<1>1. n \in Nat /\ IsTree(t) /\ \A i \in 1 .. n : IsStep(StepsOf(p)[i])
  BY PlanSteps DEF Good, Mid
<1>2. \A q \in Paths : /\ T[q] # Absent => t[q] = T[q]
                       /\ T[q] = Absent => t[q] \in {Absent, Dir}
  BY DEF Mid
<1>3. ASSUME NEW i \in 1 .. j PROVE Has(U, p, i, t)
  <2> DEFINE st == StepsOf(p)[i]
             u == U[i].tree
  <2>1. i \in 1 .. n /\ j \in i .. n /\ IsStep(st)
    BY <1>1
  <2>2. Has(U, p, i, T)
    BY <2>1, HasStays
  <2>3. /\ st.type = "create" => IsFile(T, st.path) /\ T[st.path] = u[st.path]
        /\ st.type = "dir" => T[st.path] = Dir
        /\ \A q \in Paths : /\ u[q] # Absent => T[q] # Absent
                            /\ IsFile(u, q) => IsFile(T, q)
    BY <2>2 DEF Has
  <2>4. st.type \in {"create", "dir"} => st.path \in Paths
    BY <2>1 DEF IsStep
  <2> HIDE DEF st, u, T
  <2>5. st.type = "create" => IsFile(t, st.path) /\ t[st.path] = u[st.path]
    BY <1>2, <2>3, <2>4 DEF IsFile
  <2>6. st.type = "dir" => t[st.path] = Dir
    BY <1>2, <2>3, <2>4, NullAssumption
  <2>7. \A q \in Paths : /\ u[q] # Absent => t[q] # Absent
                         /\ IsFile(u, q) => IsFile(t, q)
    BY <1>2, <2>3 DEF IsFile
  <2> QED
    BY <2>5, <2>6, <2>7 DEF Has, st, u
<1> QED
  BY <1>1, <1>3

\* What a step counts, of those such a plan has.
LEMMA CountsAreNumbers ==
  ASSUME NEW s, RunOK(s), NEW t, IsTree(t), NEW st, IsStep(st),
         st.type \notin {"patch", "change"}
  PROVE  Counted(s, t, st) \in Nat
<1>1. CASE st.type = "create"
  <2>1. GetText(s.fs, t, st.path) \in Contents \cup {None} /\ st.text \in Contents
    BY <1>1, TextRead DEF IsStep
  <2>2. Empty \in Contents
    BY DEF Empty, Contents
  <2> DEFINE old == IF GetText(s.fs, t, st.path) = None THEN Empty ELSE GetText(s.fs, t, st.path)
  <2>3. old \in Contents
    BY <2>1, <2>2
  <2>4. Counted(s, t, st) = DiffLines(old, st.text)
    BY <1>1 DEF Counted
  <2> HIDE DEF old
  <2> QED
    BY <2>1, <2>3, <2>4, DifferenceCounts
<1>2. CASE st.type # "create"
  <2>1. Counted(s, t, st) = 0
    BY <1>2 DEF Counted
  <2> QED
    BY <2>1
<1> QED
  BY <1>1, <1>2

LEMMA GoodLines ==
  ASSUME NEW U, NEW p, NEW b, Good(U, p, b)
  PROVE  \A i \in 0 .. Len(StepsOf(p)) : U[i].run.lines \in [Milestones -> Nat]
<1> DEFINE n == Len(StepsOf(p))
           G == {k \in Nat : U[k].run.lines \in [Milestones -> Nat]}
<1>1. n \in Nat /\ p \in Plans
  BY PlanSteps DEF Good
<1>2. 0 \in G
  BY DEF Good, IsCourse, NewRun
<1>3. ASSUME NEW k \in 0 .. (n - 1), k \in G PROVE k + 1 \in G
  <2> DEFINE st == StepsOf(p)[k + 1]
             c == Counted(U[k].run, U[k].tree, st)
             l == U[k].run.lines
  <2>1. k + 1 \in 1 .. n /\ (k + 1) - 1 = k /\ k \in 0 .. n /\ k + 1 \in Nat
    BY <1>1
  <2>2. RunOK(U[k].run) /\ IsTree(U[k].tree) /\ IsStep(st)
    BY <1>1, <2>1, GoodStates, PlanSteps
  <2>3. st.type \notin {"patch", "change"}
    BY <2>1, GoodKinds
  <2>4. c \in Nat
    BY <2>2, <2>3, CountsAreNumbers
  <2>5. U[k + 1].run.lines = RunAfter(U[k].run, U[k].tree, st).lines
    BY <2>1, GoodStep
  <2>6. U[k + 1].run.lines = [l EXCEPT ![st.ms] = @ + c]
    <3> DEFINE s == U[k].run
               t == U[k].tree
    <3>1. RunOK(s)
      BY <2>2
    <3> HIDE DEF s, t, st
    <3>2. RunAfter(s, t, st).lines = LinesAfter(s, t, st)
      BY <3>1, RunCounts
    <3> QED
      BY <2>5, <3>2 DEF s, t, LinesAfter
  <2>7. l \in [Milestones -> Nat]
    BY <1>3
  <2> HIDE DEF c, l, st
  <2>8. [l EXCEPT ![st.ms] = @ + c] \in [Milestones -> Nat]
    <3>1. \A m \in Milestones : l[m] + c \in Nat
      BY <2>4, <2>7
    <3> QED
      BY <2>7, <3>1
  <2> QED
    BY <2>1, <2>6, <2>8
<1>4. \A k \in 0 .. n : k \in G
  <2> HIDE DEF G, n
  <2> QED
    BY <1>1, <1>2, <1>3, UpwardInduction
<1> QED
  BY <1>4

(* A run that does over what the course has done so far: the same allowlist *)
(* and files touched, and no more lines counted.                            *)
Follows(U, p, i, s) ==
  /\ RunOK(s) /\ s.plan = p /\ s.mode = "apply"
  /\ s.allow = U[i].run.allow /\ s.touched = U[i].run.touched
  /\ s.lines \in [Milestones -> Nat]
  /\ \A m \in Milestones : s.lines[m] <= U[i].run.lines[m]

\* It is refused no write that the course is allowed.
LEMMA SameBarrier ==
  ASSUME NEW s, NEW r, NEW st, s.plan = r.plan, s.allow = r.allow
  PROVE  Barrier(s, st) = Barrier(r, st)
BY DEF Barrier, Limits

\* Nor anything else, where all that was there is there.
LEMMA NotRefused ==
  ASSUME NEW U, NEW p, NEW b, Good(U, p, b), NEW i \in 1 .. Len(StepsOf(p)),
         NEW s, Follows(U, p, i - 1, s), NEW t,
         \A q \in Paths : /\ U[i - 1].tree[q] # Absent => t[q] # Absent
                          /\ IsFile(U[i - 1].tree, q) => IsFile(t, q),
         StepsOf(p)[i].type = "create" /\ Keeps(s, t, StepsOf(p)[i])
           => Matches(s, t, StepsOf(p)[i])
  PROVE  Refusal(s, t, StepsOf(p)[i]) = "OK"
<1> DEFINE r == U[i - 1].run
           u == U[i - 1].tree
           st == StepsOf(p)[i]
<1>1. /\ r.plan = p /\ r.mode = "apply" /\ r.fs = <<>> /\ IsStep(st)
      /\ Refusal(r, u, st) = "OK"
  BY GoodStates, GoodStep, PlanSteps DEF Good, RunOK
<1>2. /\ s.plan = r.plan /\ s.allow = r.allow /\ s.mode = "apply" /\ s.fs = <<>>
  BY <1>1 DEF Follows, RunOK
<1>3. st.type \notin {"cmd", "patch", "change", "pointer", "scan"}
  BY GoodKinds
<1> HIDE DEF r, u, st
<1>4. Barrier(s, st) = Barrier(r, st)
  BY <1>2, SameBarrier
<1>5. CASE st.type = "create"
  <2>1. CreateRefusal(s, t, st) = "OK"
    BY <1>5 DEF CreateRefusal, st
  <2>2. Barrier(s, st) = "OK"
    BY <1>1, <1>4, <1>5 DEF Refusal
  <2> QED
    BY <1>5, <2>1, <2>2 DEF Refusal, st
<1>6. CASE st.type = "dir"
  BY <1>1, <1>4, <1>6 DEF Refusal, st
<1>7. CASE st.type = "assert"
  <2>1. AssertRefusal(r, u, st) = "OK"
    BY <1>1, <1>7 DEF Refusal
  <2>2. st.paths \subseteq Paths
    BY <1>1, <1>7 DEF IsStep
  <2>3. SkippedInDryRun(s, st) <=> SkippedInDryRun(r, st)
    BY <1>1, <1>2 DEF SkippedInDryRun
  <2>4. \A q \in Paths : WouldExist(r.fs, u, q) => WouldExist(s.fs, t, q)
    BY <1>1, <1>2 DEF WouldExist, u
  <2>5. AssertRefusal(s, t, st) = "OK"
    BY <2>1, <2>2, <2>3, <2>4 DEF AssertRefusal
  <2> QED
    BY <1>7, <2>5 DEF Refusal, st
<1>8. CASE st.type = "iso"
  <2>1. IsoRefusal(u, st) = "OK"
    BY <1>1, <1>8 DEF Refusal
  <2>2. st.paths \subseteq Paths
    BY <1>1, <1>8 DEF IsStep
  <2>3. IsoRefusal(t, st) = "OK"
    BY <2>1, <2>2 DEF IsoRefusal, u
  <2> QED
    BY <1>8, <2>3 DEF Refusal, st
<1>9. CASE st.type = "core"
  <2>1. CoreRefusal(u, st) = "OK"
    BY <1>1, <1>9 DEF Refusal
  <2>2. st.paths \subseteq Paths
    BY <1>1, <1>9 DEF IsStep
  <2>3. \A q \in st.paths : (IF core = "outside" THEN head[q] ELSE u[q]) # Absent
    BY <2>1 DEF CoreRefusal
  <2>4. \A q \in st.paths : (IF core = "outside" THEN head[q] ELSE t[q]) # Absent
    BY <2>2, <2>3 DEF u
  <2>5. CoreRefusal(t, st) = "OK"
    BY <2>4 DEF CoreRefusal
  <2> QED
    BY <1>9, <2>5 DEF Refusal, st
<1>10. CASE st.type \notin {"create", "dir", "assert", "iso", "core"}
  BY <1>3, <1>10 DEF Refusal, st
<1> QED
  BY <1>5, <1>6, <1>7, <1>8, <1>9, <1>10

\* A step it can carry out leaves it so.
LEMMA StepFollows ==
  ASSUME NEW U, NEW p, NEW b, Good(U, p, b), NEW i \in 1 .. Len(StepsOf(p)),
         NEW s, Follows(U, p, i - 1, s), NEW t, IsTree(t),
         Refusal(s, t, StepsOf(p)[i]) = "OK", ~Unhandled(s, t, StepsOf(p)[i]),
         Counted(s, t, StepsOf(p)[i])
           <= Counted(U[i - 1].run, U[i - 1].tree, StepsOf(p)[i])
  PROVE  LET h == Handle(s, t, StepsOf(p)[i])
         IN /\ h.run.code = "OK" /\ h.tree = TreeAfter(s, t, StepsOf(p)[i])
            /\ Follows(U, p, i, h.run)
<1> DEFINE r == U[i - 1].run
           u == U[i - 1].tree
           st == StepsOf(p)[i]
           c == Counted(s, t, st)
           d == Counted(r, u, st)
           done == RunAfter(s, t, st)
           goal == RunAfter(r, u, st)
           h == Handle(s, t, st)
<1>1. /\ i - 1 \in 0 .. Len(StepsOf(p)) /\ i \in 0 .. Len(StepsOf(p))
      /\ RunOK(r) /\ r.plan = p /\ IsTree(u) /\ IsStep(st) /\ st.ms \in Milestones
      /\ p \in Plans
  BY GoodStates, PlanSteps DEF Good
<1>2. /\ U[i].run.allow = goal.allow /\ U[i].run.touched = goal.touched
      /\ U[i].run.lines = goal.lines /\ Caps(goal, st) = "OK"
  BY GoodStep
<1>3. st.type \notin {"cmd", "patch", "change"}
  BY GoodKinds
<1>4. r.lines \in [Milestones -> Nat]
  BY <1>1, GoodLines
<1>5. /\ RunOK(s) /\ s.plan = p /\ s.mode = "apply"
      /\ s.allow = r.allow /\ s.touched = r.touched /\ s.lines \in [Milestones -> Nat]
      /\ \A m \in Milestones : s.lines[m] <= r.lines[m]
  BY DEF Follows
<1>6. Refusal(s, t, st) = "OK" /\ ~Unhandled(s, t, st) /\ c <= d
  OBVIOUS
<1> HIDE DEF r, u, st
<1>7. c \in Nat /\ d \in Nat
  BY <1>1, <1>3, <1>5, CountsAreNumbers
<1>8. /\ done.allow = goal.allow /\ done.touched = goal.touched /\ done.plan = p
      /\ done.lines = [s.lines EXCEPT ![st.ms] = @ + c]
      /\ goal.lines = [r.lines EXCEPT ![st.ms] = @ + d] /\ goal.plan = p
  <2>1. /\ st.type = "allow" => done.allow = st.paths
        /\ st.type # "allow" => done.allow = s.allow
        /\ done.touched = TouchedAfter(s, st) /\ done.lines = LinesAfter(s, t, st)
        /\ done.plan = p
    BY <1>5, RunCounts
  <2>2. /\ st.type = "allow" => goal.allow = st.paths
        /\ st.type # "allow" => goal.allow = r.allow
        /\ goal.touched = TouchedAfter(r, st) /\ goal.lines = LinesAfter(r, u, st)
        /\ goal.plan = p
    BY <1>1, RunCounts
  <2>3. TouchedAfter(s, st) = TouchedAfter(r, st)
    <3>1. Touched(s, st) = Touched(r, st)
      BY <1>3 DEF Touched
    <3> QED
      BY <1>5, <3>1 DEF TouchedAfter
  <2> HIDE DEF done, goal
  <2> QED
    BY <1>5, <2>1, <2>2, <2>3 DEF LinesAfter
<1> HIDE DEF c, d
<1>9. /\ done.lines \in [Milestones -> Nat] /\ goal.lines \in [Milestones -> Nat]
      /\ \A m \in Milestones : done.lines[m] <= goal.lines[m]
  <2>1. \A m \in Milestones : s.lines[m] \in Nat /\ r.lines[m] \in Nat /\ s.lines[m] <= r.lines[m]
    BY <1>4, <1>5
  <2>2. ASSUME NEW m \in Milestones
        PROVE  /\ s.lines[m] + c \in Nat /\ r.lines[m] + d \in Nat
               /\ s.lines[m] + c <= r.lines[m] + d
    BY <1>6, <1>7, <2>1
  <2> HIDE DEF done, goal
  <2>3. DOMAIN done.lines = Milestones /\ DOMAIN goal.lines = Milestones
    BY <1>4, <1>5, <1>8
  <2>4. ASSUME NEW m \in Milestones
        PROVE  /\ done.lines[m] \in Nat /\ goal.lines[m] \in Nat
               /\ done.lines[m] <= goal.lines[m]
    <3>1. CASE m = st.ms
      <4>1. done.lines[m] = s.lines[m] + c /\ goal.lines[m] = r.lines[m] + d
        BY <1>4, <1>5, <1>8, <3>1
      <4> QED
        BY <2>2, <4>1
    <3>2. CASE m # st.ms
      <4>1. done.lines[m] = s.lines[m] /\ goal.lines[m] = r.lines[m]
        BY <1>4, <1>5, <1>8, <3>2
      <4> QED
        BY <2>1, <4>1
    <3> QED
      BY <3>1, <3>2
  <2>5. done.lines = [m \in Milestones |-> done.lines[m]]
        /\ goal.lines = [m \in Milestones |-> goal.lines[m]]
    BY <1>4, <1>5, <1>8
  <2> QED
    BY <2>4, <2>5
<1>10. Caps(done, st) = "OK"
  <2>1. Limits(s, st) = Limits(r, st) /\ Limits(done, st) = Limits(goal, st)
    BY <1>1, <1>5, <1>8 DEF Limits
  <2>2. Limits(goal, st).diff \in Nat
    BY <1>1, <1>8, RoadmapAssumption DEF Limits
  <2> HIDE DEF done, goal
  <2>3. done.lines[st.ms] <= goal.lines[st.ms] /\ done.lines[st.ms] \in Nat
        /\ goal.lines[st.ms] \in Nat
    BY <1>1, <1>9
  <2>4. ~(Cardinality(goal.touched[st.ms]) > Limits(goal, st).files)
    BY <1>2 DEF Caps
  <2>5. ~(/\ Cardinality(goal.touched[st.ms]) <= Limits(goal, st).files
          /\ goal.lines[st.ms] > Limits(goal, st).diff)
    BY <1>2, <2>4 DEF Caps
  <2>6. goal.lines[st.ms] > Limits(goal, st).diff \/ ~(done.lines[st.ms] > Limits(goal, st).diff)
    BY <2>2, <2>3
  <2>7. done.touched = goal.touched /\ Limits(done, st) = Limits(goal, st)
    BY <1>8, <2>1
  <2> QED
    BY <2>4, <2>5, <2>6, <2>7 DEF Caps
<1>11. /\ h.run.code = "OK" /\ h.tree = TreeAfter(s, t, st)
       /\ h.run.allow = done.allow /\ h.run.touched = done.touched /\ h.run.lines = done.lines
  BY <1>1, <1>5, <1>6, <1>10, CarriedOut
<1>12. RunOK(h.run) /\ h.run.plan = p /\ h.run.mode = "apply"
  <2>1. RunOK(s) /\ IsTree(t) /\ IsStep(st)
    BY <1>1, <1>5
  <2>2. RunOK(h.run) /\ h.run.plan = s.plan /\ h.run.mode = s.mode
    BY <2>1, StepHandled
  <2> QED
    BY <1>5, <2>2
<1>13. Follows(U, p, i, h.run)
  <2> HIDE DEF h, done, goal
  <2> QED
    BY <1>2, <1>8, <1>9, <1>11, <1>12 DEF Follows
<1> QED
  BY <1>11, <1>13 DEF st

\* A step done over finds its own work, changes nothing and counts no more lines.
LEMMA RedoStep ==
  ASSUME NEW U, NEW p, NEW b, Good(U, p, b), NEW i \in 1 .. Len(StepsOf(p)),
         NEW s, Follows(U, p, i - 1, s), NEW t, IsTree(t), Has(U, p, i, t)
  PROVE  LET st == StepsOf(p)[i]
         IN /\ Refusal(s, t, st) = "OK" /\ ~Unhandled(s, t, st) /\ TreeAfter(s, t, st) = t
            /\ Counted(s, t, st) <= Counted(U[i - 1].run, U[i - 1].tree, st)
<1> DEFINE r == U[i - 1].run
           u == U[i - 1].tree
           st == StepsOf(p)[i]
<1>1. /\ RunOK(r) /\ r.mode = "apply" /\ r.fs = <<>> /\ IsTree(u) /\ IsStep(st)
  BY GoodStates, PlanSteps DEF Good, RunOK
<1>2. RunOK(s) /\ s.mode = "apply" /\ s.fs = <<>>
  BY DEF Follows, RunOK
<1>3. /\ st.type \notin {"cmd", "patch", "change"}
      /\ st.type = "create" /\ ~Keeps(r, u, st) =>
           CanHold(u, st.path) /\ U[i].tree = Put(u, st.path, st.text)
      /\ st.type = "create" /\ Keeps(r, u, st) =>
           IsFile(u, st.path) /\ u[st.path] \in st.same /\ U[i].tree = u
      /\ st.type = "dir" => CanBeDir(u, st.path) /\ U[i].tree = Put(u, st.path, Dir)
      /\ st.type \notin {"create", "dir"} => U[i].tree = u
  BY GoodKinds
<1>4. /\ st.type = "create" => IsFile(t, st.path) /\ t[st.path] = U[i].tree[st.path]
      /\ st.type = "dir" => t[st.path] = Dir
      /\ \A q \in Paths : /\ U[i].tree[q] # Absent => t[q] # Absent
                          /\ IsFile(U[i].tree, q) => IsFile(t, q)
  BY DEF Has
<1>5. Counted(r, u, st) \in Nat
  BY <1>1, <1>3, CountsAreNumbers
<1> HIDE DEF r, u, st
<1>6. \A q \in Paths : (u[q] # Absent => t[q] # Absent) /\ (IsFile(u, q) => IsFile(t, q))
  <2>1. \A q \in Paths : /\ u[q] # Absent => U[i].tree[q] # Absent
                         /\ IsFile(u, q) => IsFile(U[i].tree, q)
    <3>1. CASE st.type = "create" /\ ~Keeps(r, u, st)
      <4>1. CanHold(u, st.path) /\ U[i].tree = Put(u, st.path, st.text)
        BY <1>3, <3>1
      <4>2. st.path \in Paths /\ st.text \in Contents /\ st.text \notin {Absent, Dir}
        BY <1>1, <3>1, NullAssumption DEF IsStep
      <4> QED
        BY <1>1, <4>1, <4>2, PutKeeps DEF IsFile
    <3>2. CASE st.type = "dir"
      <4>1. CanBeDir(u, st.path) /\ U[i].tree = Put(u, st.path, Dir)
        BY <1>3, <3>2
      <4>2. st.path \in Paths /\ Dir # Absent /\ ~IsFile(u, st.path)
        BY <1>1, <3>2, <4>1, NullAssumption DEF IsStep, CanBeDir, IsFile
      <4> QED
        BY <1>1, <4>1, <4>2, PutKeeps DEF IsFile
    <3> QED
      BY <1>3, <3>1, <3>2
  <2> QED
    BY <1>4, <2>1
<1>7. CASE st.type = "create"
  <2>1. /\ st.path \in Paths /\ st.text \in Contents /\ st.text \in st.same
        /\ IsFile(t, st.path) /\ t[st.path] = U[i].tree[st.path] /\ t[st.path] # Absent
    BY <1>1, <1>4, <1>7 DEF IsStep, IsFile
  <2>2. /\ GetText(s.fs, t, st.path) = t[st.path]
        /\ GetText(r.fs, u, st.path) = IF IsFile(u, st.path) THEN u[st.path] ELSE None
    BY <1>1, <1>2, <2>1 DEF GetText
  <2>3. t[st.path] \in Contents
    BY <1>1, <2>1 DEF IsTree, IsFile
  <2>4. \/ Keeps(r, u, st) /\ IsFile(u, st.path) /\ u[st.path] = t[st.path]
           /\ t[st.path] \in st.same
        \/ ~Keeps(r, u, st) /\ t[st.path] = st.text
    <3>1. CASE Keeps(r, u, st)
      BY <1>3, <1>7, <2>1, <3>1
    <3>2. CASE ~Keeps(r, u, st)
      <4>1. CanHold(u, st.path) /\ U[i].tree = Put(u, st.path, st.text)
        BY <1>3, <1>7, <3>2
      <4>2. U[i].tree[st.path] = st.text
        BY <1>1, <2>1, <4>1, PutKeeps
      <4> QED
        BY <2>1, <3>2, <4>2
    <3> QED
      BY <3>1, <3>2
  <2>5. Matches(s, t, st)
    BY <2>1, <2>2, <2>4 DEF Matches
  <2>6. Refusal(s, t, st) = "OK"
    BY <1>6, <2>5, NotRefused DEF u, st
  <2>7. Keeps(s, t, st) \/ t[st.path] = st.text
    <3>1. CASE Keeps(r, u, st)
      BY <2>1, <3>1 DEF Keeps, WouldExist
    <3> QED
      BY <2>4, <3>1
  <2>8. CanHold(t, st.path)
    BY <2>1 DEF CanHold, IsFile, IsTree
  <2>9. ~Unhandled(s, t, st)
    BY <1>7, <2>8 DEF Unhandled
  <2>10. TreeAfter(s, t, st) = t
    <3>1. CASE Keeps(s, t, st)
      BY <1>2, <1>7, <3>1 DEF TreeAfter, Writes
    <3>2. CASE ~Keeps(s, t, st)
      <4>1. t[st.path] = st.text
        BY <2>7, <3>2
      <4>2. TreeAfter(s, t, st) = Put(t, st.path, t[st.path])
        BY <1>2, <1>7, <3>2, <4>1 DEF TreeAfter, Writes, NewText
      <4> QED
        BY <2>1, <4>2, PutAgain
    <3> QED
      BY <3>1, <3>2
  <2>11. Counted(s, t, st) <= Counted(r, u, st)
    <3>1. Counted(s, t, st) = DiffLines(t[st.path], st.text)
      BY <1>7, <2>2, <2>3, NullAssumption DEF Counted
    <3>2. CASE Keeps(r, u, st)
      <4>1. u[st.path] = t[st.path] /\ GetText(r.fs, u, st.path) = t[st.path]
        BY <2>2, <2>4, <3>2
      <4>2. Counted(r, u, st) = DiffLines(t[st.path], st.text)
        BY <1>7, <2>3, <4>1, NullAssumption DEF Counted
      <4>3. DiffLines(t[st.path], st.text) \in Nat
        BY <2>1, <2>3, DifferenceCounts
      <4> QED
        BY <3>1, <4>2, <4>3
    <3>3. CASE ~Keeps(r, u, st)
      <4>1. Counted(s, t, st) = 0
        BY <2>1, <2>4, <3>1, <3>3, DifferenceCounts
      <4> QED
        BY <1>5, <4>1
    <3> QED
      BY <3>2, <3>3
  <2> QED
    BY <2>6, <2>9, <2>10, <2>11 DEF r, u, st
<1>8. CASE st.type # "create"
  <2>1. Refusal(s, t, st) = "OK"
    BY <1>6, <1>8, NotRefused DEF u, st
  <2>2. Counted(s, t, st) = 0 /\ Counted(r, u, st) = 0
    BY <1>3, <1>8 DEF Counted
  <2>3. Counted(s, t, st) <= Counted(r, u, st)
    BY <2>2
  <2>4. CASE st.type = "dir"
    <3>1. st.path \in Paths /\ t[st.path] = Dir /\ t[st.path] # Absent
      BY <1>1, <1>4, <2>4, NullAssumption DEF IsStep
    <3>2. CanBeDir(t, st.path)
      BY <3>1 DEF CanBeDir, IsTree
    <3>3. ~Unhandled(s, t, st)
      BY <2>4, <3>2 DEF Unhandled, Writes
    <3>4. TreeAfter(s, t, st) = Put(t, st.path, t[st.path])
      BY <1>2, <2>4, <3>1 DEF TreeAfter, Writes
    <3>5. TreeAfter(s, t, st) = t
      BY <3>1, <3>4, PutAgain
    <3> QED
      BY <2>1, <2>3, <3>3, <3>5 DEF r, u, st
  <2>5. CASE st.type # "dir"
    <3>1. ~Unhandled(s, t, st) /\ TreeAfter(s, t, st) = t
      BY <1>2, <1>3, <1>8, <2>5 DEF Unhandled, TreeAfter, Writes
    <3> QED
      BY <2>1, <2>3, <3>1 DEF r, u, st
  <2> QED
    BY <2>4, <2>5
<1> QED
  BY <1>7, <1>8

\* The step that is next does what the course has it do.
LEMMA NextStep ==
  ASSUME NEW U, NEW p, NEW b, Good(U, p, b), NEW i \in 1 .. Len(StepsOf(p)),
         NEW s, Follows(U, p, i - 1, s), NEW t, Mid(U, p, i - 1, t)
  PROVE  LET st == StepsOf(p)[i]
         IN /\ IsTree(t)
            /\ Refusal(s, t, st) = "OK" /\ ~Unhandled(s, t, st)
            /\ TreeAfter(s, t, st) = U[i].tree
            /\ Counted(s, t, st) <= Counted(U[i - 1].run, U[i - 1].tree, st)
<1> DEFINE r == U[i - 1].run
           u == U[i - 1].tree
           st == StepsOf(p)[i]
<1>1. /\ RunOK(r) /\ r.mode = "apply" /\ r.fs = <<>> /\ IsTree(u) /\ IsStep(st)
      /\ i - 1 \in 0 .. Len(StepsOf(p)) /\ (i - 1) + 1 = i
  BY GoodStates, PlanSteps DEF Good, RunOK
<1>2. RunOK(s) /\ s.mode = "apply" /\ s.fs = <<>>
  BY DEF Follows, RunOK
<1>3. st.type \notin {"cmd", "patch", "change"}
  BY GoodKinds
<1>4. /\ Refusal(r, u, st) = "OK" /\ ~Unhandled(r, u, st)
      /\ U[i].tree = TreeAfter(r, u, st)
  BY GoodStep
<1>5. IsTree(t)
  BY <1>1, MidTree
<1>6. \A q \in Paths : t[q] = u[q] \/ (u[q] = Absent /\ t[q] = Dir /\ q \in Needs(st))
  BY <1>1 DEF Mid
<1>7. Counted(r, u, st) \in Nat
  BY <1>1, <1>3, CountsAreNumbers
<1> HIDE DEF r, u, st
<1>8. st.type \in {"create", "dir"} => st.path \in Paths /\ st.path \notin Above[st.path]
                                      /\ Above[st.path] \subseteq Paths
  BY <1>1, RoadmapAssumption DEF IsStep
<1>9. /\ st.type = "create" => t[st.path] = u[st.path]
      /\ \A q \in Paths : (u[q] # Absent => t[q] # Absent) /\ (IsFile(u, q) => IsFile(t, q))
  BY <1>6, <1>8 DEF Needs, IsFile
<1>10. st.type = "create" => GetText(s.fs, t, st.path) = GetText(r.fs, u, st.path)
                             /\ (Keeps(s, t, st) <=> Keeps(r, u, st))
  BY <1>1, <1>2, <1>9 DEF GetText, Keeps, WouldExist, IsFile
<1>11. Counted(s, t, st) = Counted(r, u, st)
  BY <1>3, <1>10 DEF Counted
<1>12. Refusal(s, t, st) = "OK"
  <2>1. ASSUME st.type = "create", Keeps(s, t, st) PROVE Matches(s, t, st)
    <3>1. CreateRefusal(r, u, st) = "OK" /\ Keeps(r, u, st)
      BY <1>4, <1>10, <2>1 DEF Refusal
    <3>2. Matches(r, u, st)
      BY <3>1 DEF CreateRefusal
    <3> QED
      BY <1>10, <2>1, <3>2 DEF Matches
  <2> QED
    BY <1>9, <2>1, NotRefused DEF u, st
<1>13. CASE st.type = "create" /\ ~Keeps(r, u, st)
  <2>1. CanHold(u, st.path) /\ U[i].tree = Put(u, st.path, st.text)
    BY <1>13, GoodKinds DEF r, u, st
  <2>2. CanHold(t, st.path)
    BY <1>6, <1>8, <1>9, <1>13, <2>1 DEF CanHold
  <2>3. ~Unhandled(s, t, st)
    BY <1>13, <2>2 DEF Unhandled
  <2>4. TreeAfter(s, t, st) = Put(t, st.path, st.text)
    BY <1>1, <1>2, <1>10, <1>13 DEF TreeAfter, Writes, NewText
  <2>5. Put(t, st.path, st.text) = Put(u, st.path, st.text)
    BY <1>6, <1>13 DEF Put, Needs
  <2> QED
    BY <1>5, <1>7, <1>11, <1>12, <2>1, <2>3, <2>4, <2>5 DEF r, u, st
<1>14. CASE st.type = "dir"
  <2>1. CanBeDir(u, st.path) /\ U[i].tree = Put(u, st.path, Dir)
    BY <1>14, GoodKinds DEF r, u, st
  <2>2. CanBeDir(t, st.path)
    BY <1>6, <1>8, <1>14, <2>1 DEF CanBeDir
  <2>3. ~Unhandled(s, t, st)
    BY <1>14, <2>2 DEF Unhandled, Writes
  <2>4. TreeAfter(s, t, st) = Put(t, st.path, Dir)
    BY <1>1, <1>2, <1>14 DEF TreeAfter, Writes
  <2>5. Put(t, st.path, Dir) = Put(u, st.path, Dir)
    BY <1>6, <1>14 DEF Put, Needs
  <2> QED
    BY <1>5, <1>7, <1>11, <1>12, <2>1, <2>3, <2>4, <2>5 DEF r, u, st
<1>15. CASE (st.type = "create" /\ Keeps(r, u, st)) \/ st.type \notin {"create", "dir"}
  <2>1. \A q \in Paths : t[q] = u[q]
    <3>1. CASE st.type = "create" /\ Keeps(r, u, st)
      <4>1. u[st.path] # Absent
        BY <1>1, <3>1 DEF Keeps, WouldExist
      <4>2. \A q \in Needs(st) : u[q] = Dir
        BY <1>1, <1>8, <3>1, <4>1 DEF Needs, IsTree
      <4> QED
        BY <1>6, <4>2, NullAssumption
    <3>2. CASE st.type \notin {"create", "dir"}
      BY <1>6, <3>2 DEF Needs
    <3> QED
      BY <1>15, <3>1, <3>2
  <2>2. t = u
    BY <1>1, <1>5, <2>1, SameTree
  <2>3. ~Unhandled(s, t, st) /\ TreeAfter(s, t, st) = TreeAfter(r, u, st)
    BY <1>1, <1>2, <1>3, <1>4, <1>10, <2>2 DEF Unhandled, TreeAfter, Writes, NewText
  <2> QED
    BY <1>4, <1>5, <1>7, <1>11, <1>12, <2>3 DEF r, u, st
<1> QED
  BY <1>13, <1>14, <1>15

\* Started over, the run follows the course, over its own work and then on.
LEMMA CourseStep ==
  ASSUME NEW U, NEW p, NEW b, Good(U, p, b), NEW i \in 1 .. Len(StepsOf(p)),
         NEW s, Follows(U, p, i - 1, s), NEW j \in 0 .. Len(StepsOf(p)), i - 1 <= j,
         NEW t, Mid(U, p, j, t)
  PROVE  LET h == Handle(s, t, StepsOf(p)[i])
         IN /\ h.run.code = "OK" /\ Follows(U, p, i, h.run)
            /\ \E k \in 0 .. Len(StepsOf(p)) : Mid(U, p, k, h.tree) /\ i <= k
<1> DEFINE st == StepsOf(p)[i]
           h == Handle(s, t, st)
<1>1. Len(StepsOf(p)) \in Nat
  BY PlanSteps DEF Good
<1>2. CASE i <= j
  <2>1. i \in 1 .. j
    BY <1>1, <1>2
  <2>2. IsTree(t) /\ Has(U, p, i, t)
    BY <2>1, MidTree
  <2>3. /\ Refusal(s, t, st) = "OK" /\ ~Unhandled(s, t, st) /\ TreeAfter(s, t, st) = t
        /\ Counted(s, t, st) <= Counted(U[i - 1].run, U[i - 1].tree, st)
    BY <2>2, RedoStep
  <2>4. h.run.code = "OK" /\ h.tree = t /\ Follows(U, p, i, h.run)
    BY <2>2, <2>3, StepFollows
  <2> QED
    BY <1>2, <2>4
<1>3. CASE ~(i <= j)
  <2>1. j = i - 1 /\ i \in 0 .. Len(StepsOf(p)) /\ i <= i
    BY <1>1, <1>3
  <2>2. /\ IsTree(t) /\ Refusal(s, t, st) = "OK" /\ ~Unhandled(s, t, st)
        /\ TreeAfter(s, t, st) = U[i].tree
        /\ Counted(s, t, st) <= Counted(U[i - 1].run, U[i - 1].tree, st)
    BY <2>1, NextStep
  <2>3. h.run.code = "OK" /\ h.tree = U[i].tree /\ Follows(U, p, i, h.run)
    BY <2>2, StepFollows
  <2>4. Mid(U, p, i, h.tree)
    BY <2>1, <2>3, GoodStates DEF Mid
  <2> QED
    BY <2>1, <2>3, <2>4
<1> QED
  BY <1>2, <1>3

-----------------------------------------------------------------------------
(* Runs cut short and started over. *)

Applying == run # None /\ run.mode = "apply"
Sound == Applying /\ run.code # "OS_ERROR"
Done == IF run.phase = "record" THEN run.pc ELSE run.pc - 1

(* The tree is one that the course passes, a run that applies the plan is   *)
(* no further than the tree, and it follows, unless the disk fails it; one  *)
(* that has ended has ended where the course does.                          *)
OnCourse(U, p) ==
  /\ \E j \in 0 .. Len(StepsOf(p)) : Mid(U, p, j, tree) /\ (Sound => Done <= j)
  /\ Sound => /\ Done \in 0 .. Len(StepsOf(p)) /\ run.phase \in {"step", "record"}
              /\ run.code = "OK" /\ Follows(U, p, Done, run)
  /\ Ended("apply") /\ evidence.plan = p =>
       \/ evidence.summary.code = "OS_ERROR"
       \/ evidence.summary.code = "OK" /\ tree = U[Len(StepsOf(p))].tree

OriginInv ==
  origin # None =>
    /\ origin = [plan |-> origin.plan, base |-> origin.base]
    /\ origin.plan \in Plans /\ IsTree(origin.base)
    /\ Applying => run.plan = origin.plan

CourseInv ==
  \A U, p, b :
    origin # None /\ origin = [plan |-> p, base |-> b] /\ Good(U, p, b) => OnCourse(U, p)

\* core and head are never written, and temporary files are only scanned: a handler says
\* tomorrow what it says today.
LEMMA HandleKept ==
  ASSUME core' = core, head' = head, NEW s, NEW t, NEW st,
         st.type # "scan" \/ litter' = litter
  PROVE  Handle(s, t, st)' = Handle(s, t, st)
<1>1. Barrier(s, st)' = Barrier(s, st)
  BY DEF Barrier
<1>2. ChangeRefusal(s)' = ChangeRefusal(s)
  BY DEF ChangeRefusal
<1>3. CoreRefusal(t, st)' = CoreRefusal(t, st)
  BY DEF CoreRefusal
<1>4. st.type = "scan" => ScanRefusal(t, st)' = ScanRefusal(t, st)
  BY DEF ScanRefusal
<1>5. Refusal(s, t, st)' = Refusal(s, t, st)
  BY <1>1, <1>2, <1>3, <1>4 DEF Refusal
<1> QED
  BY <1>5 DEF Handle

LEMMA CourseKept ==
  ASSUME core' = core, head' = head, NEW U, NEW p, p \in Plans,
         "scan" \notin Types(p) \/ litter' = litter,
         NEW mode, NEW b, IsCourse(U, p, mode, b)'
  PROVE  IsCourse(U, p, mode, b)
<1>1. \A i \in 1 .. Len(StepsOf(p)) : StepsOf(p)[i].type # "scan" \/ litter' = litter
  BY DEF Types
<1>2. \A i \in 1 .. Len(StepsOf(p)) : \A a : NextOf(p, i, a)' = NextOf(p, i, a)
  <2> SUFFICES ASSUME NEW i \in 1 .. Len(StepsOf(p)), NEW a
               PROVE  NextOf(p, i, a)' = NextOf(p, i, a)
    OBVIOUS
  <2>1. Handle(a.run, a.tree, StepsOf(p)[i])' = Handle(a.run, a.tree, StepsOf(p)[i])
    BY <1>1, HandleKept
  <2> QED
    BY <2>1 DEF NextOf
<1> QED
  BY <1>2 DEF IsCourse

LEMMA GoodKept ==
  ASSUME core' = core, head' = head, NEW U, NEW p, NEW b, Good(U, p, b)'
  PROVE  Good(U, p, b)
<1>1. p \in Plans /\ Rerunnable(p) /\ IsCourse(U, p, "apply", b)'
  BY DEF Good
<1>2. IsCourse(U, p, "apply", b)
  BY <1>1, CourseKept DEF Rerunnable
<1> QED
  BY <1>2 DEF Good, IsTree

\* A run that has gone on in its phase only still follows.
LEMMA FollowsOn ==
  ASSUME NEW U, NEW p, NEW i, NEW s, Follows(U, p, i, s), NEW ph,
         NEW q, q = [s EXCEPT !.phase = ph]
  PROVE  Follows(U, p, i, q) /\ q.code = s.code /\ q.phase = ph /\ q.pc = s.pc
BY DEF Follows, RunOK, RunFields

\* What a step of the run leaves of it: its plan and its mode, if it goes on.
LEMMA RunContinues ==
  ASSUME RunInv, NEW Plain, Plain => Step \/ RunCmd \/ Fail \/ Record \/ DeadLetter, Plain
  PROVE  /\ run # None /\ run'.plan = run.plan /\ run'.mode = run.mode
         /\ evidence'.summary = evidence.summary /\ evidence'.plan = evidence.plan
         /\ origin' = origin \/ origin' = None
<1>1. CASE Step
  <2>1. /\ run # None /\ run' = [Handle(run, tree, Current).run EXCEPT !.phase = "record"]
        /\ evidence' = evidence /\ origin' = origin
    BY <1>1 DEF Step, Working
  <2>2. RunOK(run) /\ IsStep(Current) /\ IsTree(tree)
    BY <1>1, <2>1, RunIsOK, CurrentStep DEF RunInv, TypeOK, Step
  <2> DEFINE r == Handle(run, tree, Current).run
  <2>3. RunOK(r) /\ r.plan = run.plan /\ r.mode = run.mode
    BY <2>2, StepHandled
  <2> HIDE DEF r
  <2>4. [r EXCEPT !.phase = "record"].plan = r.plan /\ [r EXCEPT !.phase = "record"].mode = r.mode
    BY <2>3 DEF RunOK, RunFields
  <2> QED
    BY <2>1, <2>3, <2>4 DEF r
<1>2. CASE RunCmd
  <2>1. PICK c \in Codes : run' = [run EXCEPT !.phase = "record", !.code = c]
    BY <1>2, CommandRun
  <2>2. /\ run # None /\ evidence' = evidence
        /\ origin' = origin \/ origin' = None
    BY <1>2 DEF RunCmd, Working, Command
  <2>3. RunOK(run)
    BY <2>2, RunIsOK
  <2>4. run'.plan = run.plan /\ run'.mode = run.mode
    BY <2>1, <2>3 DEF RunOK, RunFields
  <2> QED
    BY <2>2, <2>4
<1>3. CASE Record
  <2>1. /\ run # None /\ origin' = origin
        /\ evidence' = [evidence EXCEPT !.steps =
             Append(@, IF run.code \in NoStepError THEN "OK" ELSE run.code)]
        /\ run' = IF run.code = "OK" THEN [run EXCEPT !.pc = @ + 1, !.phase = "step"]
                  ELSE [run EXCEPT !.phase = "dlq"]
    BY <1>3 DEF Record
  <2>2. RunOK(run) /\ DOMAIN evidence = EvidenceFields
    BY <2>1, RunIsOK DEF RunInv, Shaped
  <2>3. evidence'.summary = evidence.summary /\ evidence'.plan = evidence.plan
    BY <2>1, <2>2 DEF EvidenceFields
  <2>4. run'.plan = run.plan /\ run'.mode = run.mode
    BY <2>1, <2>2 DEF RunOK, RunFields
  <2> QED
    BY <2>1, <2>3, <2>4
<1>4. CASE DeadLetter
  <2>1. /\ run # None /\ origin' = origin
        /\ evidence' = [evidence EXCEPT !.dlq = run.code]
        /\ run' = [run EXCEPT !.phase = "summary"]
    BY <1>4 DEF DeadLetter
  <2>2. RunOK(run) /\ DOMAIN evidence = EvidenceFields
    BY <2>1, RunIsOK DEF RunInv, Shaped
  <2>3. evidence'.summary = evidence.summary /\ evidence'.plan = evidence.plan
    BY <2>1, <2>2 DEF EvidenceFields
  <2>4. run'.plan = run.plan /\ run'.mode = run.mode
    BY <2>1, <2>2 DEF RunOK, RunFields
  <2> QED
    BY <2>1, <2>3, <2>4
<1>5. CASE Fail
  <2>1. /\ run # None /\ run' = [run EXCEPT !.code = "OS_ERROR", !.phase = "record"]
        /\ evidence' = evidence /\ origin' = origin
    BY <1>5, CutLeaves DEF Fail
  <2>2. RunOK(run)
    BY <2>1, RunIsOK
  <2>3. run'.plan = run.plan /\ run'.mode = run.mode
    BY <2>1, <2>2 DEF RunOK, RunFields
  <2> QED
    BY <2>1, <2>3
<1> QED
  BY <1>1, <1>2, <1>3, <1>4, <1>5

LEMMA OriginNext ==
  ASSUME RunInv, OriginInv, [Next]_vars
  PROVE  OriginInv'
<1>1. ASSUME origin' = origin \/ origin' = None, Applying' => Applying /\ run'.plan = run.plan
      PROVE  OriginInv'
  BY <1>1 DEF OriginInv, IsTree
<1>2. ASSUME NEW p \in Plans, NEW mode \in Modes, Start(p, mode) PROVE OriginInv'
  <2>1. /\ run' = NewRun(p, mode) /\ run'.plan = p /\ run'.mode = mode
        /\ origin' = IF mode # "apply" \/ (origin # None /\ origin.plan = p) THEN origin
                     ELSE [plan |-> p, base |-> tree]
    BY <1>2 DEF Start, NewRun
  <2>2. IsTree(tree)
    BY DEF RunInv, TypeOK
  <2>3. CASE origin' = [plan |-> p, base |-> tree]
    <3>1. origin'.plan = p /\ origin'.base = tree
      BY <2>3
    <3>2. origin' = [plan |-> origin'.plan, base |-> origin'.base]
      BY <2>3, <3>1
    <3> QED
      BY <2>1, <2>2, <3>1, <3>2 DEF OriginInv, IsTree
  <2>4. CASE origin' = origin /\ (mode = "apply" => origin.plan = p)
    BY <2>1, <2>4 DEF OriginInv, Applying, IsTree
  <2> QED
    BY <2>1, <2>3, <2>4
<1>3. CASE Step \/ RunCmd \/ Fail \/ Record \/ DeadLetter
  <2>1. /\ run # None /\ run'.plan = run.plan /\ run'.mode = run.mode
        /\ origin' = origin \/ origin' = None
    BY <1>3, RunContinues
  <2> QED
    BY <1>1, <2>1 DEF Applying
<1>4. CASE Summarise \/ Crash
  <2>1. run' = None /\ origin' = origin
    BY <1>4 DEF Summarise, Crash
  <2> QED
    BY <1>1, <2>1 DEF Applying
<1>5. CASE UNCHANGED vars
  BY <1>1, <1>5 DEF vars, Applying
<1> QED
  BY <1>2, <1>3, <1>4, <1>5 DEF Next

LEMMA CourseStart ==
  ASSUME RunInv, CourseInv, NEW q \in Plans, NEW mode \in Modes, Start(q, mode),
         NEW U, NEW p, NEW b, origin' # None, origin' = [plan |-> p, base |-> b],
         Good(U, p, b)
  PROVE  OnCourse(U, p)'
<1> DEFINE n == Len(StepsOf(p))
<1>1. /\ run' = NewRun(q, mode) /\ tree' = tree
      /\ evidence' = [mode |-> mode, plan |-> q, base |-> tree, litter |-> litter,
                      steps |-> <<>>, dlq |-> None, summary |-> None]
      /\ origin' = IF mode # "apply" \/ (origin # None /\ origin.plan = q) THEN origin
                   ELSE [plan |-> q, base |-> tree]
  BY DEF Start
<1>2. /\ run'.plan = q /\ run'.mode = mode /\ run'.pc = 1 /\ run'.phase = "step"
      /\ run'.code = "OK" /\ evidence'.summary = None
  BY <1>1 DEF NewRun
<1>3. n \in Nat /\ 0 \in 0 .. n /\ p \in Plans
  BY PlanSteps DEF Good
<1>4. origin'.plan = p /\ origin'.base = b
  OBVIOUS
<1>5. mode = "apply" => q = p
  <2>1. CASE origin' = origin /\ (mode = "apply" => origin.plan = q)
    BY <1>4, <2>1
  <2>2. CASE origin' = [plan |-> q, base |-> tree]
    BY <1>4, <2>2
  <2> QED
    BY <1>1, <2>1, <2>2
<1>6. \E j \in 0 .. n : Mid(U, p, j, tree)
  <2>1. CASE origin' = origin
    BY <2>1 DEF CourseInv, OnCourse
  <2>2. CASE origin' = [plan |-> q, base |-> tree]
    <3>1. b = tree
      BY <1>4, <2>2
    <3>2. U[0].tree = b
      BY DEF Good, IsCourse
    <3>3. IsTree(tree)
      BY DEF RunInv, TypeOK
    <3> QED
      BY <1>3, <3>1, <3>2, <3>3 DEF Mid
  <2> QED
    BY <1>1, <2>1, <2>2
<1>7. mode = "apply" => Follows(U, p, 0, run')
  <2> SUFFICES ASSUME mode = "apply" PROVE Follows(U, p, 0, run')
    OBVIOUS
  <2>1. run' = NewRun(p, "apply") /\ U[0].run = NewRun(p, "apply")
    BY <1>1, <1>5 DEF Good, IsCourse
  <2> DEFINE s == NewRun(p, "apply")
  <2>2. RunOK(s) /\ s.plan = p /\ s.mode = "apply"
    BY <1>3 DEF NewRun, RunOK, RunFields, Modes
  <2>3. s.lines \in [Milestones -> Nat] /\ \A m \in Milestones : s.lines[m] = 0
    BY DEF NewRun
  <2>4. \A m \in Milestones : s.lines[m] <= s.lines[m]
    BY <2>3
  <2> HIDE DEF s
  <2>5. run' = s /\ U[0].run = s
    BY <2>1 DEF s
  <2> QED
    BY <2>2, <2>3, <2>4, <2>5 DEF Follows
<1>8. Done' = 0
  BY <1>2 DEF Done
<1>9. ~Ended("apply")'
  BY <1>2 DEF Ended
<1>10. Sound' => mode = "apply"
  BY <1>2 DEF Sound, Applying
<1>11. \A j \in 0 .. n : 0 <= j
  BY <1>3
<1> HIDE DEF n
<1>12. \E j \in 0 .. n : Mid(U, p, j, tree') /\ (Sound' => Done' <= j)
  BY <1>1, <1>6, <1>8, <1>11
<1>13. Sound' => /\ Done' \in 0 .. n /\ run'.phase \in {"step", "record"}
                    /\ run'.code = "OK" /\ Follows(U, p, Done', run')
  BY <1>2, <1>3, <1>7, <1>8, <1>10
<1> QED
  BY <1>9, <1>12, <1>13 DEF OnCourse, n

\* Where a run of another kind goes on, or one that the disk failed, the tree alone
\* matters.
LEMMA CourseApart ==
  ASSUME NEW U, NEW p, \E j \in 0 .. Len(StepsOf(p)) : Mid(U, p, j, tree'),
         ~Sound', ~Ended("apply")'
  PROVE  OnCourse(U, p)'
BY DEF OnCourse

LEMMA CourseBeside ==
  ASSUME NEW U, NEW p, OnCourse(U, p), tree' = tree, ~Sound', ~Ended("apply")'
  PROVE  OnCourse(U, p)'
<1>1. \E j \in 0 .. Len(StepsOf(p)) : Mid(U, p, j, tree')
  BY DEF OnCourse
<1> QED
  BY <1>1, CourseApart

LEMMA CourseHandled ==
  ASSUME RunInv, ReadInv, OriginInv, Step,
         NEW U, NEW p, NEW b, origin # None, origin = [plan |-> p, base |-> b],
         Good(U, p, b), OnCourse(U, p)
  PROVE  OnCourse(U, p)'
<1> DEFINE n == Len(StepsOf(p))
           h == Handle(run, tree, Current)
<1>1. /\ run # None /\ Working /\ evidence' = evidence
      /\ run' = [h.run EXCEPT !.phase = "record"] /\ tree' = h.tree
  BY DEF Step, Working
<1>2. evidence'.summary = None
  BY <1>1 DEF ReadInv
<1>3. ~Ended("apply")'
  BY <1>2 DEF Ended
<1>4. run'.mode = run.mode
  BY RunContinues
<1>5. CASE run.mode # "apply"
  <2>1. RunOK(run) /\ IsStep(Current) /\ IsTree(tree)
    BY <1>1, RunIsOK, CurrentStep DEF RunInv, TypeOK
  <2>2. h.tree = tree
    BY <1>5, <2>1, StepHandled
  <2> QED
    BY <1>1, <1>3, <1>4, <1>5, <2>2, CourseBeside DEF Sound, Applying
<1>6. CASE run.mode = "apply"
  <2>1. Applying /\ Sound /\ run.plan = p
    BY <1>1, <1>6 DEF Sound, Applying, OriginInv, ReadInv, Working
  <2> DEFINE i == run.pc
  <2>2. i \in 1 .. n /\ Done = i - 1 /\ Current = StepsOf(p)[i]
    <3>1. n \in Nat
      BY PlanSteps DEF Good
    <3>2. i \in Nat \ {0} /\ i <= n /\ run.phase = "step"
      BY <1>1, <2>1 DEF RunInv, Shaped, Working
    <3> QED
      BY <2>1, <3>1, <3>2 DEF Done, Current
  <2>3. PICK j \in 0 .. n : Mid(U, p, j, tree) /\ i - 1 <= j
    BY <2>1, <2>2 DEF OnCourse
  <2>4. Follows(U, p, i - 1, run)
    BY <2>1, <2>2 DEF OnCourse
  <2>5. /\ h.run.code = "OK" /\ Follows(U, p, i, h.run)
        /\ \E k \in 0 .. n : Mid(U, p, k, h.tree) /\ i <= k
    BY <2>2, <2>3, <2>4, CourseStep
  <2>6. i \in 0 .. n
    BY <2>2
  <2>7. h.run.pc = i
    <3>1. RunOK(run) /\ IsStep(Current) /\ IsTree(tree)
      BY <1>1, RunIsOK, CurrentStep DEF RunInv, TypeOK
    <3> QED
      BY <3>1, StepHandled
  <2> HIDE DEF h, n, i
  <2>8. /\ Follows(U, p, i, run') /\ run'.code = "OK" /\ run'.phase = "record" /\ run'.pc = i
    BY <1>1, <2>5, <2>7, FollowsOn
  <2>9. Done' = i
    BY <2>8 DEF Done
  <2>10. \E k \in 0 .. n : Mid(U, p, k, tree') /\ (Sound' => Done' <= k)
    BY <1>1, <2>5, <2>9
  <2> QED
    BY <1>3, <2>6, <2>8, <2>9, <2>10 DEF OnCourse, n
<1> QED
  BY <1>5, <1>6

\* A plan on this course has no commands.
LEMMA CourseCommand ==
  ASSUME RunInv, ReadInv, OriginInv, RunCmd, origin' = origin,
         NEW U, NEW p, NEW b, origin # None, origin = [plan |-> p, base |-> b],
         Good(U, p, b), OnCourse(U, p)
  PROVE  OnCourse(U, p)'
<1>1. /\ run # None /\ Working /\ Current.type = "cmd" /\ evidence' = evidence
  BY DEF RunCmd, Working
<1>2. evidence'.summary = None
  BY <1>1 DEF ReadInv
<1>3. ~Ended("apply")'
  BY <1>2 DEF Ended
<1>4. run'.mode = run.mode
  BY RunContinues
<1>5. run.mode # "apply"
  <2> SUFFICES ASSUME run.mode = "apply" PROVE FALSE
    OBVIOUS
  <2>1. run.plan = p
    BY <1>1 DEF Applying, OriginInv
  <2>2. Len(StepsOf(p)) \in Nat
    BY PlanSteps DEF Good
  <2>3. run.pc \in 1 .. Len(StepsOf(p)) /\ Current = StepsOf(p)[run.pc]
    BY <1>1, <2>1, <2>2 DEF RunInv, Shaped, Working, Current
  <2>4. "cmd" \in Types(p)
    BY <1>1, <2>3 DEF Types
  <2> QED
    BY <2>4 DEF Good, Rerunnable
<1>6. tree' = tree
  <2>1. CASE UNCHANGED tree
    BY <2>1
  <2>2. CASE Command(Current)
    <3>1. origin # None
      OBVIOUS
    <3> QED
      BY <2>2, <3>1 DEF Command
  <2> QED
    BY <2>1, <2>2 DEF RunCmd
<1> QED
  BY <1>3, <1>4, <1>5, <1>6, CourseBeside DEF Sound, Applying

LEMMA CourseRecord ==
  ASSUME RunInv, ReadInv, OriginInv, Record,
         NEW U, NEW p, NEW b, origin # None, origin = [plan |-> p, base |-> b],
         Good(U, p, b), OnCourse(U, p)
  PROVE  OnCourse(U, p)'
<1> DEFINE n == Len(StepsOf(p))
<1>1. /\ run # None /\ run.phase = "record" /\ tree' = tree
      /\ run' = IF run.code = "OK" THEN [run EXCEPT !.pc = @ + 1, !.phase = "step"]
                ELSE [run EXCEPT !.phase = "dlq"]
  BY DEF Record
<1>2. evidence'.summary = None /\ run'.mode = run.mode
  BY <1>1, RunContinues DEF ReadInv
<1>3. ~Ended("apply")'
  BY <1>2 DEF Ended
<1>4. CASE run.mode # "apply"
  BY <1>1, <1>2, <1>3, <1>4, CourseBeside DEF Sound, Applying
<1>6. CASE run.code = "OS_ERROR"
  <2>1. RunOK(run) /\ run' = [run EXCEPT !.phase = "dlq"]
    BY <1>1, <1>6, RunIsOK
  <2>2. run'.code = "OS_ERROR"
    BY <1>6, <2>1 DEF RunOK, RunFields
  <2> QED
    BY <1>1, <1>3, <2>2, CourseBeside DEF Sound
<1>5. CASE run.mode = "apply" /\ run.code # "OS_ERROR"
  <2> DEFINE i == run.pc
  <2>1. Sound /\ Done = i /\ i \in Nat
    BY <1>1, <1>5 DEF Sound, Applying, Done, RunInv, Shaped
  <2>2. i \in 0 .. n /\ run.code = "OK" /\ Follows(U, p, i, run)
    BY <2>1 DEF OnCourse
  <2> DEFINE k == i + 1
  <2>3. run' = [run EXCEPT !.pc = k, !.phase = "step"]
    BY <1>1, <2>2
  <2> HIDE DEF i, n, k
  <2>4. Follows(U, p, i, run') /\ run'.code = "OK" /\ run'.phase = "step" /\ run'.pc = k
    <3>1. Follows(U, p, i, run') /\ run'.code = run.code /\ run'.phase = "step" /\ run'.pc = k
      BY <2>2, <2>3 DEF Follows, RunOK, RunFields
    <3> QED
      BY <2>2, <3>1
  <2>5. Done' = i
    <3>1. Done' = (i + 1) - 1
      BY <2>4 DEF Done, k
    <3> QED
      BY <2>1, <3>1
  <2>6. \E j \in 0 .. n : Mid(U, p, j, tree') /\ (Sound' => Done' <= j)
    BY <1>1, <2>1, <2>5 DEF OnCourse, n
  <2> QED
    BY <1>3, <2>2, <2>4, <2>5, <2>6 DEF OnCourse, n
<1> QED
  BY <1>4, <1>5, <1>6

LEMMA CourseDeadLetter ==
  ASSUME RunInv, ReadInv, OriginInv, DeadLetter,
         NEW U, NEW p, NEW b, OnCourse(U, p)
  PROVE  OnCourse(U, p)'
<1>1. /\ run # None /\ run.phase = "dlq" /\ tree' = tree
      /\ run' = [run EXCEPT !.phase = "summary"]
  BY DEF DeadLetter
<1>2. evidence'.summary = None /\ run'.mode = run.mode /\ run'.code = run.code
  <2>1. evidence'.summary = None /\ run'.mode = run.mode
    BY <1>1, RunContinues DEF ReadInv
  <2>2. RunOK(run)
    BY <1>1, RunIsOK
  <2>3. run'.code = run.code
    BY <1>1, <2>2 DEF RunOK, RunFields
  <2> QED
    BY <2>1, <2>3
<1>3. ~Sound
  BY <1>1 DEF OnCourse
<1> QED
  BY <1>1, <1>2, <1>3, CourseBeside DEF Sound, Applying, Ended

\* A run that ends after the last step ends where the course does.
LEMMA CourseSummary ==
  ASSUME RunInv, OriginInv, Summarise,
         NEW U, NEW p, NEW b, origin # None, origin = [plan |-> p, base |-> b],
         Good(U, p, b), OnCourse(U, p)
  PROVE  OnCourse(U, p)'
<1> DEFINE n == Len(StepsOf(p))
<1>1. /\ run # None /\ run' = None /\ tree' = tree
      /\ evidence' = [evidence EXCEPT !.summary = Verdict]
      /\ \/ run.phase = "summary"
         \/ run.phase = "step" /\ run.pc > Len(StepsOf(run.plan))
  BY DEF Summarise
<1>2. ~Sound'
  BY <1>1 DEF Sound, Applying
<1>3. \E j \in 0 .. n : Mid(U, p, j, tree')
  BY <1>1 DEF OnCourse
<1>4. ASSUME Ended("apply")', evidence'.plan = p, run.code # "OS_ERROR"
      PROVE  evidence'.summary.code = "OK" /\ tree' = U[n].tree
  <2>1. /\ evidence'.mode = evidence.mode /\ evidence'.summary = Verdict
        /\ evidence.mode = run.mode
    BY <1>1 DEF RunInv, TypeOK, Shaped, EvidenceFields
  <2>2. Applying /\ Sound /\ run.plan = p
    BY <1>1, <1>4, <2>1 DEF Ended, Sound, Applying, OriginInv
  <2>3. n \in Nat /\ run.pc \in Nat
    BY <1>1, PlanSteps DEF Good, RunInv, Shaped
  <2>4. run.code = "OK" /\ run.phase = "step" /\ run.pc > n /\ Done = run.pc - 1 /\ Done \in 0 .. n
    BY <1>1, <2>2 DEF OnCourse, Done
  <2>5. Done = n
    BY <2>3, <2>4
  <2>6. PICK j \in 0 .. n : Mid(U, p, j, tree) /\ Done <= j
    BY <2>2 DEF OnCourse
  <2>7. j = n
    BY <2>3, <2>5, <2>6
  <2>8. tree = U[n].tree
    <3>1. IsTree(tree) /\ IsTree(U[n].tree)
      BY <2>3, GoodStates DEF RunInv, TypeOK
    <3>2. \A q \in Paths : tree[q] = U[n].tree[q]
      BY <2>3, <2>6, <2>7 DEF Mid
    <3> QED
      BY <3>1, <3>2, SameTree
  <2>9. evidence'.summary.code = run.code
    BY <2>1 DEF Verdict
  <2> QED
    BY <1>1, <2>4, <2>8, <2>9
<1>5. evidence'.summary.code = run.code
  BY <1>1 DEF RunInv, TypeOK, Shaped, EvidenceFields, Verdict
<1> QED
  BY <1>2, <1>3, <1>4, <1>5 DEF OnCourse

\* A write that is cut short leaves what was there, be it with directories that the
\* step it was needs.
LEMMA CourseCut ==
  ASSUME RunInv, ReadInv, OriginInv, CutShort,
         NEW U, NEW p, NEW b, origin # None, origin = [plan |-> p, base |-> b],
         Good(U, p, b), OnCourse(U, p)
  PROVE  \E j \in 0 .. Len(StepsOf(p)) : Mid(U, p, j, tree')
<1> DEFINE n == Len(StepsOf(p))
           i == run.pc
           st == StepsOf(p)[i]
<1>1. /\ Working /\ run # None /\ run.mode = "apply"
      /\ IsTree(tree) /\ IsTree(tree')
      /\ \A q \in Paths : tree'[q] = tree[q] \/ (q \in Lacks /\ tree'[q] = Dir)
  BY CutLeaves DEF RunInv, TypeOK
<1>2. Sound /\ run.plan = p
  BY <1>1 DEF Sound, Applying, OriginInv, ReadInv, Working
<1>3. n \in Nat /\ i \in 1 .. n /\ Done = i - 1 /\ Current = st
  <2>1. n \in Nat
    BY PlanSteps DEF Good
  <2>2. i \in Nat \ {0} /\ i <= n /\ run.phase = "step"
    BY <1>1, <1>2 DEF RunInv, Shaped, Working
  <2> QED
    BY <1>2, <2>1, <2>2 DEF Done, Current
<1>4. st.type \in {"create", "dir"} /\ st.path \in Paths
  <2>1. Current.type \in {"create", "dir", "patch", "change"}
    BY CutLeaves
  <2>2. st.type \notin {"patch", "change"}
    BY <1>3, GoodKinds
  <2> QED
    BY <1>1, <1>3, <2>1, <2>2, CurrentStep DEF IsStep
<1>5. Lacks = {q \in Needs(st) : tree[q] = Absent}
  BY <1>3, <1>4 DEF Lacks, Needs
<1>6. PICK j \in 0 .. n : Mid(U, p, j, tree) /\ i - 1 <= j
  BY <1>2, <1>3 DEF OnCourse
<1>7. CASE i <= j
  <2>1. i \in 1 .. j
    BY <1>3, <1>6, <1>7
  <2>2. Has(U, p, i, tree)
    BY <1>6, <2>1, MidTree
  <2>3. tree[st.path] # Absent
    BY <1>4, <2>2, NullAssumption DEF Has, IsFile
  <2>4. \A q \in Needs(st) : tree[q] # Absent
    <3>1. \A q \in Above[st.path] : tree[q] = Dir
      BY <1>1, <1>4, <2>3 DEF IsTree
    <3> QED
      BY <1>4, <2>3, <3>1, NullAssumption DEF Needs
  <2>5. \A q \in Paths : tree'[q] = tree[q]
    BY <1>1, <1>5, <2>4
  <2>6. tree' = tree
    BY <1>1, <2>5, SameTree
  <2> QED
    BY <1>6, <2>6
<1>8. CASE ~(i <= j)
  <2>1. j = i - 1 /\ j < n /\ j + 1 = i
    BY <1>3, <1>6, <1>8
  <2> DEFINE u == U[j].tree
  <2>2. \A q \in Paths :
          \/ tree[q] = u[q]
          \/ u[q] = Absent /\ tree[q] = Dir /\ q \in Needs(st)
    BY <1>6, <2>1 DEF Mid
  <2>3. ASSUME NEW q \in Paths
        PROVE  \/ tree'[q] = u[q]
               \/ u[q] = Absent /\ tree'[q] = Dir /\ q \in Needs(st)
    BY <1>1, <1>5, <2>2, NullAssumption
  <2>4. Mid(U, p, j, tree')
    BY <1>1, <2>1, <2>3 DEF Mid
  <2> QED
    BY <1>6, <2>4
<1> QED
  BY <1>7, <1>8

LEMMA CourseFail ==
  ASSUME RunInv, ReadInv, OriginInv, Fail,
         NEW U, NEW p, NEW b, origin # None, origin = [plan |-> p, base |-> b],
         Good(U, p, b), OnCourse(U, p)
  PROVE  OnCourse(U, p)'
<1>1. /\ CutShort /\ run # None /\ evidence' = evidence
      /\ run' = [run EXCEPT !.code = "OS_ERROR", !.phase = "record"]
  BY CutLeaves DEF Fail
<1>2. run'.code = "OS_ERROR"
  <2>1. RunOK(run)
    BY <1>1, RunIsOK
  <2> QED
    BY <1>1, <2>1 DEF RunOK, RunFields
<1>3. ~Sound' /\ ~Ended("apply")'
  BY <1>1, <1>2 DEF Sound, Ended, ReadInv
<1>4. \E j \in 0 .. Len(StepsOf(p)) : Mid(U, p, j, tree')
  BY <1>1, CourseCut
<1> QED
  BY <1>3, <1>4, CourseApart

LEMMA CourseCrash ==
  ASSUME RunInv, ReadInv, OriginInv, Crash,
         NEW U, NEW p, NEW b, origin # None, origin = [plan |-> p, base |-> b],
         Good(U, p, b), OnCourse(U, p)
  PROVE  OnCourse(U, p)'
<1>1. run # None /\ run' = None /\ evidence' = evidence
  BY DEF Crash
<1>2. ~Sound' /\ ~Ended("apply")'
  BY <1>1 DEF Sound, Applying, Ended, ReadInv
<1>3. CASE UNCHANGED tree
  BY <1>2, <1>3, CourseBeside
<1>4. CASE CutShort
  <2>1. \E j \in 0 .. Len(StepsOf(p)) : Mid(U, p, j, tree')
    BY <1>4, CourseCut
  <2> QED
    BY <1>2, <2>1, CourseApart
<1> QED
  BY <1>3, <1>4 DEF Crash

LEMMA CourseNext ==
  ASSUME RunInv, ReadInv, OriginInv, CourseInv, [Next]_vars
  PROVE  CourseInv'
<1>1. core' = core /\ head' = head
  BY DEF Next, Start, Step, RunCmd, Fail, Record, DeadLetter, Summarise, Crash, vars
<1> SUFFICES ASSUME NEW U, NEW p, NEW b, origin' # None, origin' = [plan |-> p, base |-> b],
                    Good(U, p, b)'
             PROVE  OnCourse(U, p)'
  BY DEF CourseInv
<1>2. Good(U, p, b)
  BY <1>1, GoodKept
<1>3. ASSUME NEW q \in Plans, NEW mode \in Modes, Start(q, mode) PROVE OnCourse(U, p)'
  BY <1>2, <1>3, CourseStart
<1>4. ASSUME origin' = origin
      PROVE  origin # None /\ origin = [plan |-> p, base |-> b] /\ OnCourse(U, p)
  BY <1>2, <1>4 DEF CourseInv
<1>5. CASE Step
  BY <1>2, <1>4, <1>5, CourseHandled DEF Step
<1>6. CASE RunCmd
  <2>1. origin' = origin
    BY <1>6, RunContinues
  <2> QED
    BY <1>2, <1>4, <1>6, <2>1, CourseCommand
<1>7. CASE Record
  BY <1>2, <1>4, <1>7, CourseRecord DEF Record
<1>8. CASE DeadLetter
  BY <1>2, <1>4, <1>8, CourseDeadLetter DEF DeadLetter
<1>9. CASE Summarise
  BY <1>2, <1>4, <1>9, CourseSummary DEF Summarise
<1>10. CASE Crash
  BY <1>2, <1>4, <1>10, CourseCrash DEF Crash
<1>11. CASE UNCHANGED vars
  BY <1>2, <1>4, <1>11 DEF vars, OnCourse, Sound, Applying, Done, Ended
<1>12. CASE Fail
  BY <1>2, <1>4, <1>12, CourseFail DEF Fail
<1> QED
  BY <1>3, <1>5, <1>6, <1>7, <1>8, <1>9, <1>10, <1>11, <1>12 DEF Next

\* What is so on every course is so on the one the property computes.
LEMMA CourseEnds ==
  ASSUME OriginInv, CourseInv
  PROVE  RerunConverges
<1> DEFINE p == origin.plan
           b == origin.base
<1> SUFFICES ASSUME Ended("apply"), origin # None, p = evidence.plan, Rerunnable(p),
                    Uninterrupted(p, b).run.code = "OK", evidence.summary.code # "OS_ERROR"
             PROVE  evidence.summary.code = "OK" /\ tree = Uninterrupted(p, b).tree
  BY DEF RerunConverges
<1>1. p \in Plans /\ IsTree(b) /\ origin = [plan |-> p, base |-> b]
  BY DEF OriginInv
<1>2. PICK U : IsCourse(U, p, "apply", b) /\ U[Len(StepsOf(p))] = Uninterrupted(p, b)
  BY <1>1, CourseExists
<1>3. Good(U, p, b)
  BY <1>1, <1>2 DEF Good
<1>4. OnCourse(U, p)
  BY <1>1, <1>3 DEF CourseInv
<1> QED
  BY <1>2, <1>4 DEF OnCourse

(* A plan that creates, and would succeed undisturbed, succeeds however     *)
(* often its runs are cut short and it is started over, and leaves the same *)
(* tree, whatever the plan, its limits and the tree it begins on.           *)
THEOREM RerunsConverge == Spec => []RerunConverges
<1>1. Init => RunInv /\ ReadInv /\ OriginInv /\ CourseInv
  BY RunInit, ReadInit DEF Init, OriginInv, CourseInv
<1>2. RunInv /\ ReadInv /\ OriginInv /\ CourseInv /\ [Next]_vars
        => (RunInv /\ ReadInv /\ OriginInv /\ CourseInv)'
  BY RunNext, ReadNext, OriginNext, CourseNext
<1>3. OriginInv /\ CourseInv => RerunConverges
  BY CourseEnds
<1> QED
  BY <1>1, <1>2, <1>3, PTL DEF Spec

-----------------------------------------------------------------------------
(* A dry run beside the run it is to foretell. *)

(* The disk a beside the overlay fs of a dry run over the tree b: it holds  *)
(* the planned texts, and directories that are not planned as files.        *)
Overlays(fs, b, a) ==
  \A q \in Paths : /\ q \in DOMAIN fs => a[q] = fs[q]
                   /\ q \notin DOMAIN fs => a[q] = b[q] \/ (b[q] = Absent /\ a[q] = Dir)

LEMMA OverlaysPut ==
  ASSUME NEW fs, \A q \in DOMAIN fs : fs[q] \in Contents, NEW b, NEW a, Overlays(fs, b, a),
         NEW p \in Paths, NEW x \in Contents, CanHold(a, p)
  PROVE  Overlays(SetText(fs, p, x), b, Put(a, p, x))
<1> DEFINE u == Put(a, p, x)
           g == SetText(fs, p, x)
<1>1. DOMAIN g = DOMAIN fs \cup {p} /\ \A q \in DOMAIN g : g[q] = IF q = p THEN x ELSE fs[q]
  BY DEF SetText
<1>2. \A q \in Paths : u[q] = IF q = p THEN x ELSE IF q \in Above[p] THEN Dir ELSE a[q]
  BY DEF Put
<1>3. \A q \in Above[p] : a[q] \in {Absent, Dir}
  BY DEF CanHold
<1> HIDE DEF u, g
<1>4. ASSUME NEW q \in Paths
      PROVE  /\ q \in DOMAIN g => u[q] = g[q]
             /\ q \notin DOMAIN g => u[q] = b[q] \/ (b[q] = Absent /\ u[q] = Dir)
  <2>1. /\ q \in DOMAIN fs => a[q] = fs[q]
        /\ q \notin DOMAIN fs => a[q] = b[q] \/ (b[q] = Absent /\ a[q] = Dir)
    BY DEF Overlays
  <2>2. CASE q = p
    BY <1>1, <1>2, <2>2
  <2>3. CASE q # p /\ q \in Above[p]
    <3>1. q \notin DOMAIN fs
      BY <1>3, <2>1, <2>3, NullAssumption
    <3>2. u[q] = Dir /\ q \notin DOMAIN g
      BY <1>1, <1>2, <2>3, <3>1
    <3> QED
      BY <1>3, <2>1, <2>3, <3>1, <3>2
  <2>4. CASE q # p /\ q \notin Above[p]
    BY <1>1, <1>2, <2>1, <2>4
  <2> QED
    BY <2>2, <2>3, <2>4
<1>5. Overlays(g, b, u)
  BY <1>4 DEF Overlays
<1> QED
  BY <1>5 DEF u, g

LEMMA OverlaysDir ==
  ASSUME NEW fs, \A q \in DOMAIN fs : fs[q] \in Contents, NEW b, NEW a, Overlays(fs, b, a),
         NEW p \in Paths, CanBeDir(a, p)
  PROVE  Overlays(fs, b, Put(a, p, Dir))
<1> DEFINE u == Put(a, p, Dir)
<1>1. \A q \in Paths : u[q] = IF q \in Above[p] \cup {p} THEN Dir ELSE a[q]
  BY DEF Put
<1>2. \A q \in Above[p] \cup {p} : a[q] \in {Absent, Dir}
  BY DEF CanBeDir
<1> HIDE DEF u
<1>3. ASSUME NEW q \in Paths
      PROVE  /\ q \in DOMAIN fs => u[q] = fs[q]
             /\ q \notin DOMAIN fs => u[q] = b[q] \/ (b[q] = Absent /\ u[q] = Dir)
  <2>1. /\ q \in DOMAIN fs => a[q] = fs[q]
        /\ q \notin DOMAIN fs => a[q] = b[q] \/ (b[q] = Absent /\ a[q] = Dir)
    BY DEF Overlays
  <2>2. CASE q \in Above[p] \cup {p}
    <3>1. q \notin DOMAIN fs
      BY <1>2, <2>1, <2>2, NullAssumption
    <3> QED
      BY <1>1, <1>2, <2>1, <2>2, <3>1
  <2>3. CASE q \notin Above[p] \cup {p}
    BY <1>1, <2>1, <2>3
  <2> QED
    BY <2>2, <2>3
<1>4. Overlays(fs, b, u)
  BY <1>3 DEF Overlays
<1> QED
  BY <1>4 DEF u

\* Both read the same texts, and the disk has what the dry run thinks is there.
LEMMA SameText ==
  ASSUME NEW s, RunOK(s), NEW r, RunOK(r), r.mode = "apply",
         NEW b, NEW a, Overlays(s.fs, b, a),
         NEW q \in Paths
  PROVE  /\ GetText(s.fs, b, q) = GetText(r.fs, a, q)
         /\ WouldExist(s.fs, b, q) => WouldExist(r.fs, a, q)
         /\ WouldExist(r.fs, a, q) => WouldExist(s.fs, b, q) \/ a[q] = Dir
         /\ b[q] # Absent => a[q] # Absent
<1>1. /\ q \in DOMAIN s.fs => a[q] = s.fs[q] /\ s.fs[q] \in Contents
      /\ q \notin DOMAIN s.fs => a[q] = b[q] \/ (b[q] = Absent /\ a[q] = Dir)
  BY DEF Overlays, RunOK
<1>2. \A x : x \notin DOMAIN r.fs
  <2>1. r.fs = <<>>
    BY DEF RunOK
  <2> QED
    BY <2>1
<1>3. CASE q \in DOMAIN s.fs
  <2>1. GetText(s.fs, b, q) = s.fs[q] /\ GetText(r.fs, a, q) = s.fs[q] /\ a[q] # Absent
    BY <1>1, <1>2, <1>3, NullAssumption DEF GetText, IsFile
  <2> QED
    BY <1>2, <1>3, <2>1 DEF WouldExist
<1>4. CASE q \notin DOMAIN s.fs
  BY <1>1, <1>2, <1>4, NullAssumption DEF GetText, IsFile, WouldExist
<1> QED
  BY <1>3, <1>4

(* A dry run s over the tree b, and the run r that applies the plan on the  *)
(* disk a, when they have done the same steps.                              *)
Beside(s, b, r, a) ==
  /\ RunOK(s) /\ RunOK(r) /\ s.mode = "simulate" /\ r.mode = "apply" /\ s.plan = r.plan
  /\ IsTree(b) /\ IsTree(a)
  /\ s.allow = r.allow /\ s.touched = r.touched /\ s.lines = r.lines
  /\ Overlays(s.fs, b, a)

\* What a file step finds.
LEMMA SameFile ==
  ASSUME NEW s, NEW b, NEW r, NEW a, Beside(s, b, r, a), NEW st, IsStep(st),
         st.type \in {"create", "patch"}
  PROVE  /\ GetText(s.fs, b, st.path) = GetText(r.fs, a, st.path)
         /\ NewText(s, b, st) = NewText(r, a, st)
         /\ Matches(s, b, st) <=> Matches(r, a, st)
         /\ Keeps(s, b, st) => Keeps(r, a, st)
         /\ Keeps(r, a, st) /\ ~Keeps(s, b, st) => a[st.path] = Dir
<1>1. /\ st.path \in Paths /\ RunOK(s) /\ RunOK(r) /\ r.mode = "apply"
      /\ Overlays(s.fs, b, a)
  BY DEF IsStep, Beside
<1>2. /\ GetText(s.fs, b, st.path) = GetText(r.fs, a, st.path)
      /\ WouldExist(s.fs, b, st.path) => WouldExist(r.fs, a, st.path)
      /\ WouldExist(r.fs, a, st.path) => WouldExist(s.fs, b, st.path) \/ a[st.path] = Dir
  <2> DEFINE q == st.path
  <2>1. q \in Paths
    BY <1>1
  <2> HIDE DEF q
  <2>2. /\ GetText(s.fs, b, q) = GetText(r.fs, a, q)
        /\ WouldExist(s.fs, b, q) => WouldExist(r.fs, a, q)
        /\ WouldExist(r.fs, a, q) => WouldExist(s.fs, b, q) \/ a[q] = Dir
    BY <1>1, <2>1, SameText
  <2> QED
    BY <2>2 DEF q
<1>3. NewText(s, b, st) = NewText(r, a, st)
  BY <1>2 DEF NewText
<1>4. Matches(s, b, st) <=> Matches(r, a, st)
  BY <1>2 DEF Matches
<1> QED
  BY <1>2, <1>3, <1>4 DEF Keeps

\* What is read from the disk alone, and how.
OnDisk(t, st) ==
  CASE st.type = "pointer" -> PointerRefusal(t, st)
    [] st.type = "iso" -> IsoRefusal(t, st)
    [] st.type = "core" -> CoreRefusal(t, st)
    [] st.type = "scan" -> ScanRefusal(t, st)

LEMMA DiskCodes ==
  ASSUME NEW t, NEW st, st.type \in {"pointer", "iso", "core", "scan"}
  PROVE  OnDisk(t, st) \in OnDiskCodes \union {"OK"}
<1>1. PointerRefusal(t, st) \in OnDiskCodes \union {"OK"}
  BY DEF PointerRefusal, OnDiskCodes
<1>2. IsoRefusal(t, st) \in OnDiskCodes \union {"OK"}
  BY DEF IsoRefusal, OnDiskCodes
<1>3. CoreRefusal(t, st) \in OnDiskCodes \union {"OK"}
  BY DEF CoreRefusal, OnDiskCodes
<1>4. ScanRefusal(t, st) \in OnDiskCodes \union {"OK"}
  BY DEF ScanRefusal, OnDiskCodes
<1> QED
  BY <1>1, <1>2, <1>3, <1>4 DEF OnDisk

\* A step that reads the disk alone finds what it reads, and nothing else.
LEMMA SameDisk ==
  ASSUME NEW b, NEW a, NEW st, IsStep(st), st.type \in {"pointer", "iso", "core", "scan"},
         \A q \in Paths : q \in Reads(b, st) => a[q] = b[q]
  PROVE  OnDisk(b, st) = OnDisk(a, st)
<1>1. CASE st.type = "pointer"
  <2> DEFINE p == st.path
             target == StoredPath(b[p])
  <2>1. p \in Paths
    BY <1>1 DEF IsStep
  <2>2. Reads(b, st) = {p} \union ({IF IsFile(b, p) THEN target ELSE p} \intersect Paths)
    BY <1>1 DEF Reads
  <2>3. a[p] = b[p]
    BY <2>1, <2>2
  <2>4. StoredPath(a[p]) = target /\ (IsFile(a, p) <=> IsFile(b, p))
    BY <2>3 DEF IsFile
  <2>5. IsFile(b, p) /\ target \in Paths => a[target] = b[target]
    BY <2>2
  <2>6. PointerRefusal(b, st) = PointerRefusal(a, st)
    <3> HIDE DEF target
    <3>1. PointerRefusal(b, st)
            = CASE b[p] = Absent -> "POINTER_MISSING"
                [] IsFile(b, p) /\ target \in Paths ->
                     IF b[target] = Absent THEN "POINTER_TARGET_MISSING" ELSE "OK"
                [] IsFile(b, p) /\ target \notin Paths /\ target = "outside" ->
                     "WORKSPACE_ROOT_VIOLATION"
                [] OTHER -> "POINTER_INVALID"
      BY DEF PointerRefusal, target
    <3>2. PointerRefusal(a, st)
            = CASE a[p] = Absent -> "POINTER_MISSING"
                [] IsFile(a, p) /\ target \in Paths ->
                     IF a[target] = Absent THEN "POINTER_TARGET_MISSING" ELSE "OK"
                [] IsFile(a, p) /\ target \notin Paths /\ target = "outside" ->
                     "WORKSPACE_ROOT_VIOLATION"
                [] OTHER -> "POINTER_INVALID"
      BY <2>4 DEF PointerRefusal, target
    <3> HIDE DEF p
    <3>3. CASE IsFile(b, p) /\ target \in Paths
      <4>1. IsFile(a, p) /\ a[target] = b[target] /\ a[p] = b[p]
        BY <2>3, <2>4, <2>5, <3>3
      <4>2. b[p] # Absent
        BY <3>3 DEF IsFile
      <4> QED
        BY <3>1, <3>2, <3>3, <4>1, <4>2
    <3>4. CASE ~(IsFile(b, p) /\ target \in Paths)
      BY <2>3, <2>4, <3>1, <3>2, <3>4
    <3> QED
      BY <3>3, <3>4
  <2> QED
    BY <1>1, <2>6 DEF OnDisk
<1>2. CASE st.type = "iso"
  <2>1. \A q \in st.paths : a[q] = b[q]
    BY <1>2 DEF Reads, IsStep
  <2>2. IsoRefusal(b, st) = IsoRefusal(a, st)
    BY <2>1 DEF IsoRefusal, IsFile
  <2> QED
    BY <1>2, <2>2 DEF OnDisk
<1>3. CASE st.type = "core"
  <2>1. core # "outside" => \A q \in st.paths : a[q] = b[q]
    BY <1>3 DEF Reads, IsStep
  <2>2. CoreRefusal(b, st) = CoreRefusal(a, st)
    BY <2>1 DEF CoreRefusal
  <2> QED
    BY <1>3, <2>2 DEF OnDisk
<1>4. CASE st.type = "scan"
  <2>1. \A q \in Paths : st.path \in Above[q] => a[q] = b[q]
    BY <1>4 DEF Reads
  <2>2. ScanRefusal(b, st) = ScanRefusal(a, st)
    BY <2>1 DEF ScanRefusal
  <2> QED
    BY <1>4, <2>2 DEF OnDisk
<1> QED
  BY <1>1, <1>2, <1>3, <1>4

(* How a step may turn out for the two, c in the dry run over b and d on the *)
(* disk, where it leaves y and the steps before wrote no paths but w.       *)
Apart(c, d, st, b, y, w) ==
  \/ c = d /\ c # "OK"
  \/ c = "PATHS_MISSING"
  \/ c \in OnDiskCodes /\ Reads(b, st) \intersect w # {}
  \/ d \in OnDiskCodes /\ Reads(b, st) \intersect w # {}
  \/ /\ d \in OnDiskCodes \union {"PATHS_MISSING"}
     /\ st.type \in {"assert", "pointer"} /\ st.applyOnly
  \/ d = "UNHANDLED_ERROR"
  \/ d = "CONTENT_MISMATCH" /\ y[st.path] = Dir

(* A step is refused to both or to none, but for the assertions, for what   *)
(* has been written meanwhile, and for a file where a directory has been    *)
(* planned.                                                                 *)
LEMMA SameRefusal ==
  ASSUME NEW s, NEW b, NEW r, NEW a, Beside(s, b, r, a), NEW st, IsStep(st),
         st.type # "change", NEW w, \A q \in Paths : q \notin w => a[q] = b[q]
  PROVE  \/ Refusal(s, b, st) = Refusal(r, a, st)
         \/ Apart(Refusal(s, b, st), Refusal(r, a, st), st, b, a, w)
<1>1. /\ RunOK(s) /\ RunOK(r) /\ r.fs = <<>> /\ s.mode = "simulate" /\ r.mode = "apply"
      /\ s.plan = r.plan /\ s.allow = r.allow /\ Overlays(s.fs, b, a)
  BY DEF Beside, RunOK
<1>2. Barrier(s, st) = Barrier(r, st)
  BY <1>1, SameBarrier
<1>3. CASE st.type = "create"
  <2>1. st.path \in Paths /\ None \notin st.same
    BY <1>3, NullAssumption DEF IsStep
  <2>2. /\ Matches(s, b, st) <=> Matches(r, a, st)
        /\ Keeps(s, b, st) => Keeps(r, a, st)
        /\ Keeps(r, a, st) /\ ~Keeps(s, b, st) => a[st.path] = Dir
    BY <1>3, SameFile
  <2>3. /\ Refusal(s, b, st) = IF Barrier(s, st) # "OK" THEN Barrier(s, st) ELSE CreateRefusal(s, b, st)
        /\ Refusal(r, a, st) = IF Barrier(r, st) # "OK" THEN Barrier(r, st) ELSE CreateRefusal(r, a, st)
    BY <1>3 DEF Refusal
  <2>4. CASE Keeps(s, b, st) <=> Keeps(r, a, st)
    <3>1. CreateRefusal(s, b, st) = CreateRefusal(r, a, st)
      BY <2>2, <2>4 DEF CreateRefusal
    <3> QED
      BY <1>2, <2>3, <3>1
  <2>5. CASE ~(Keeps(s, b, st) <=> Keeps(r, a, st))
    <3>1. Keeps(r, a, st) /\ a[st.path] = Dir
      BY <2>2, <2>5
    <3>2. GetText(r.fs, a, st.path) = None
      BY <1>1, <2>1, <3>1 DEF GetText, IsFile
    <3>3. CreateRefusal(r, a, st) = "CONTENT_MISMATCH"
      BY <2>1, <3>1, <3>2 DEF CreateRefusal, Matches
    <3> QED
      BY <1>2, <2>3, <3>1, <3>3 DEF Apart
  <2> QED
    BY <2>4, <2>5
<1>4. CASE st.type = "patch"
  <2>1. /\ GetText(s.fs, b, st.path) = GetText(r.fs, a, st.path)
        /\ NewText(s, b, st) = NewText(r, a, st)
    BY <1>4, SameFile
  <2>2. PatchRefusal(s, b, st) = PatchRefusal(r, a, st)
    BY <2>1 DEF PatchRefusal
  <2> QED
    BY <1>2, <1>4, <2>2 DEF Refusal
<1>5. CASE st.type = "dir"
  BY <1>2, <1>5 DEF Refusal
<1>6. CASE st.type = "assert"
  <2>1. Refusal(s, b, st) = AssertRefusal(s, b, st) /\ Refusal(r, a, st) = AssertRefusal(r, a, st)
    BY <1>6 DEF Refusal
  <2>2. \A q \in st.paths : WouldExist(s.fs, b, q) => WouldExist(r.fs, a, q)
    BY <1>1, <1>6, SameText DEF IsStep
  <2>3. AssertRefusal(s, b, st) \in {"OK", "PATHS_MISSING"}
        /\ AssertRefusal(r, a, st) \in {"OK", "PATHS_MISSING"}
    BY DEF AssertRefusal
  <2>4. ASSUME AssertRefusal(s, b, st) = "OK", ~st.applyOnly PROVE AssertRefusal(r, a, st) = "OK"
    BY <1>1, <2>2, <2>4 DEF AssertRefusal, SkippedInDryRun
  <2> QED
    BY <1>6, <2>1, <2>3, <2>4 DEF Apart
<1>7. CASE st.type \in {"pointer", "iso", "core", "scan"}
  <2>1. ~SkippedInDryRun(s, st) => Refusal(s, b, st) = OnDisk(b, st)
    BY <1>7 DEF Refusal, OnDisk
  <2>2. SkippedInDryRun(s, st) <=> st.applyOnly
    BY <1>1 DEF SkippedInDryRun
  <2>3. Refusal(r, a, st) = OnDisk(a, st)
    BY <1>1, <1>7 DEF Refusal, OnDisk, SkippedInDryRun
  <2>4. SkippedInDryRun(s, st) /\ st.type # "pointer" => Refusal(s, b, st) = OnDisk(b, st)
    BY <1>7 DEF Refusal, OnDisk
  <2>5. SkippedInDryRun(s, st) /\ st.type = "pointer" => Refusal(s, b, st) = "OK"
    BY DEF Refusal
  <2>6. OnDisk(b, st) \in OnDiskCodes \union {"OK"} /\ OnDisk(a, st) \in OnDiskCodes \union {"OK"}
    BY <1>7, DiskCodes
  <2>7. CASE SkippedInDryRun(s, st) /\ st.type = "pointer"
    BY <2>2, <2>3, <2>5, <2>6, <2>7 DEF Apart
  <2>8. CASE ~(SkippedInDryRun(s, st) /\ st.type = "pointer")
    <3>1. Refusal(s, b, st) = OnDisk(b, st)
      BY <2>1, <2>4, <2>8
    <3>2. CASE Reads(b, st) \intersect w = {}
      <4>1. \A q \in Paths : q \in Reads(b, st) => a[q] = b[q]
        BY <3>2
      <4>2. OnDisk(b, st) = OnDisk(a, st)
        BY <1>7, <4>1, SameDisk
      <4> QED
        BY <2>3, <3>1, <4>2
    <3>3. CASE Reads(b, st) \intersect w # {}
      <4>1. \/ OnDisk(b, st) = OnDisk(a, st)
            \/ OnDisk(b, st) \in OnDiskCodes \/ OnDisk(a, st) \in OnDiskCodes
        BY <2>6
      <4> QED
        BY <2>3, <3>1, <3>3, <4>1 DEF Apart
    <3> QED
      BY <3>2, <3>3
  <2> QED
    BY <2>7, <2>8
<1>8. CASE st.type \notin {"create", "patch", "dir", "assert", "pointer", "iso", "core", "scan"}
  BY <1>8 DEF Refusal
<1> QED
  BY <1>3, <1>4, <1>5, <1>6, <1>7, <1>8

\* What a step that both can carry out counts, and where it leaves them.
LEMMA SameWork ==
  ASSUME NEW s, NEW b, NEW r, NEW a, Beside(s, b, r, a), NEW st, IsStep(st),
         st.type # "change",
         Refusal(s, b, st) = "OK", Refusal(r, a, st) = "OK", ~Unhandled(r, a, st)
  PROVE  LET x == RunAfter(s, b, st)
             y == RunAfter(r, a, st)
         IN /\ x.plan = y.plan /\ x.allow = y.allow /\ x.touched = y.touched /\ x.lines = y.lines
            /\ TreeAfter(s, b, st) = b /\ Overlays(x.fs, b, TreeAfter(r, a, st))
<1> DEFINE x == RunAfter(s, b, st)
           y == RunAfter(r, a, st)
<1>1. /\ RunOK(s) /\ RunOK(r) /\ r.fs = <<>> /\ s.mode = "simulate" /\ r.mode = "apply"
      /\ s.plan = r.plan /\ s.allow = r.allow /\ s.touched = r.touched /\ s.lines = r.lines
      /\ IsTree(b) /\ IsTree(a) /\ Overlays(s.fs, b, a)
  BY DEF Beside, RunOK
<1>2. /\ st.type = "allow" => x.allow = st.paths /\ y.allow = st.paths
      /\ st.type # "allow" => x.allow = s.allow /\ y.allow = r.allow
      /\ x.touched = TouchedAfter(s, st) /\ y.touched = TouchedAfter(r, st)
      /\ x.lines = LinesAfter(s, b, st) /\ y.lines = LinesAfter(r, a, st)
      /\ x.plan = s.plan /\ y.plan = r.plan
  <2>1. /\ st.type = "allow" => x.allow = st.paths
        /\ st.type # "allow" => x.allow = s.allow
        /\ x.touched = TouchedAfter(s, st) /\ x.lines = LinesAfter(s, b, st) /\ x.plan = s.plan
    BY <1>1, RunCounts
  <2>2. /\ st.type = "allow" => y.allow = st.paths
        /\ st.type # "allow" => y.allow = r.allow
        /\ y.touched = TouchedAfter(r, st) /\ y.lines = LinesAfter(r, a, st) /\ y.plan = r.plan
    BY <1>1, RunCounts
  <2> QED
    BY <2>1, <2>2
<1>3. TouchedAfter(s, st) = TouchedAfter(r, st)
  <2>1. Touched(s, st) = Touched(r, st)
    BY DEF Touched
  <2> QED
    BY <1>1, <2>1 DEF TouchedAfter
<1>4. LinesAfter(s, b, st) = LinesAfter(r, a, st)
  <2>1. Counted(s, b, st) = Counted(r, a, st)
    <3>1. CASE st.type \in {"create", "patch"}
      <4>1. /\ GetText(s.fs, b, st.path) = GetText(r.fs, a, st.path)
            /\ NewText(s, b, st) = NewText(r, a, st)
        BY <3>1, SameFile
      <4> QED
        BY <3>1, <4>1 DEF Counted
    <3>2. CASE st.type \notin {"create", "patch"}
      BY <3>2 DEF Counted
    <3> QED
      BY <3>1, <3>2
  <2> QED
    BY <1>1, <2>1 DEF LinesAfter
<1>5. x.fs = IF Writes(s, b, st) THEN SetText(s.fs, st.path, NewText(s, b, st)) ELSE s.fs
  BY <1>1 DEF RunAfter, RunOK, RunFields
<1>6. TreeAfter(s, b, st) = b
  BY <1>1 DEF TreeAfter
<1>7. Writes(s, b, st) <=> Writes(r, a, st)
  <2>1. CASE st.type = "create"
    <3>1. /\ Keeps(s, b, st) => Keeps(r, a, st)
          /\ Keeps(r, a, st) /\ ~Keeps(s, b, st) => a[st.path] = Dir
      BY <2>1, SameFile
    <3>2. ASSUME Keeps(r, a, st) PROVE a[st.path] # Dir
      <4>1. CreateRefusal(r, a, st) = "OK"
        BY <2>1 DEF Refusal
      <4>2. GetText(r.fs, a, st.path) \in st.same
        BY <3>2, <4>1 DEF CreateRefusal, Matches
      <4>3. None \notin st.same
        BY <2>1, NullAssumption DEF IsStep
      <4> QED
        BY <1>1, <4>2, <4>3 DEF GetText, IsFile
    <3> QED
      BY <2>1, <3>1, <3>2 DEF Writes
  <2>2. CASE st.type # "create"
    BY <2>2 DEF Writes
  <2> QED
    BY <2>1, <2>2
<1>8. \A q \in DOMAIN s.fs : s.fs[q] \in Contents
  BY <1>1 DEF RunOK
<1>9. CASE Writes(r, a, st)
  <2>1. st.type \in {"create", "patch"} /\ st.path \in Paths
    BY <1>9 DEF Writes, IsStep
  <2>2. CanHold(a, st.path)
    BY <1>1, <1>9 DEF Unhandled
  <2>3. NewText(s, b, st) \in Contents /\ NewText(s, b, st) = NewText(r, a, st)
    BY <1>1, <1>7, <1>9, <2>1, TextWritten, SameFile
  <2>4. TreeAfter(r, a, st) = Put(a, st.path, NewText(s, b, st))
    BY <1>1, <1>9, <2>1, <2>3 DEF TreeAfter
  <2>5. x.fs = SetText(s.fs, st.path, NewText(s, b, st))
    BY <1>5, <1>7, <1>9
  <2>6. Overlays(SetText(s.fs, st.path, NewText(s, b, st)), b, Put(a, st.path, NewText(s, b, st)))
    BY <1>1, <1>8, <2>1, <2>2, <2>3, OverlaysPut
  <2>7. Overlays(x.fs, b, TreeAfter(r, a, st))
    BY <2>4, <2>5, <2>6
  <2> HIDE DEF x, y
  <2> QED
    BY <1>1, <1>2, <1>3, <1>4, <1>6, <2>7 DEF x, y
<1>10. CASE st.type = "dir"
  <2>1. st.path \in Paths /\ CanBeDir(a, st.path)
    BY <1>1, <1>10 DEF Unhandled, IsStep
  <2>2. TreeAfter(r, a, st) = Put(a, st.path, Dir) /\ x.fs = s.fs
    BY <1>1, <1>5, <1>10 DEF TreeAfter, Writes
  <2>3. Overlays(s.fs, b, Put(a, st.path, Dir))
    BY <1>1, <1>8, <2>1, OverlaysDir
  <2>4. Overlays(x.fs, b, TreeAfter(r, a, st))
    BY <2>2, <2>3
  <2> HIDE DEF x, y
  <2> QED
    BY <1>1, <1>2, <1>3, <1>4, <1>6, <2>4 DEF x, y
<1>11. CASE ~Writes(r, a, st) /\ st.type # "dir"
  <2>1. TreeAfter(r, a, st) = a /\ x.fs = s.fs
    BY <1>1, <1>5, <1>7, <1>11 DEF TreeAfter
  <2>2. Overlays(x.fs, b, TreeAfter(r, a, st))
    BY <1>1, <2>1
  <2> HIDE DEF x, y
  <2> QED
    BY <1>1, <1>2, <1>3, <1>4, <1>6, <2>2 DEF x, y
<1> QED
  BY <1>9, <1>10, <1>11

(* How the same step turns out for both: alike, or as the property excepts. *)
LEMMA ForecastStep ==
  ASSUME NEW s, NEW b, NEW r, NEW a, Beside(s, b, r, a), NEW st, IsStep(st),
         st.type # "change", NEW w, \A q \in Paths : q \notin w => a[q] = b[q]
  PROVE  LET x == Handle(s, b, st)
             y == Handle(r, a, st)
         IN \/ x.run.code = "OK" /\ y.run.code = "OK" /\ Beside(x.run, x.tree, y.run, y.tree)
            \/ Apart(x.run.code, y.run.code, st, b, y.tree, w)
<1> DEFINE x == Handle(s, b, st)
           y == Handle(r, a, st)
           f == RunAfter(s, b, st)
           g == RunAfter(r, a, st)
<1>1. /\ RunOK(s) /\ RunOK(r) /\ s.mode = "simulate" /\ r.mode = "apply" /\ s.plan = r.plan
      /\ IsTree(b) /\ IsTree(a)
  BY DEF Beside
<1>2. /\ Refusal(s, b, st) # "OK" => x.run.code = Refusal(s, b, st) /\ x.tree = b
      /\ Refusal(s, b, st) = "OK" /\ Unhandled(s, b, st) => x.run.code = "UNHANDLED_ERROR"
      /\ Refusal(s, b, st) = "OK" /\ ~Unhandled(s, b, st) =>
           /\ x.run.code = Caps(f, st) /\ x.tree = TreeAfter(s, b, st)
           /\ x.run.allow = f.allow /\ x.run.touched = f.touched
           /\ x.run.lines = f.lines /\ x.run.fs = f.fs
  BY <1>1, HandledAs
<1>3. /\ Refusal(r, a, st) # "OK" => y.run.code = Refusal(r, a, st) /\ y.tree = a
      /\ Refusal(r, a, st) = "OK" /\ Unhandled(r, a, st) => y.run.code = "UNHANDLED_ERROR"
      /\ Refusal(r, a, st) = "OK" /\ ~Unhandled(r, a, st) =>
           /\ y.run.code = Caps(g, st) /\ y.tree = TreeAfter(r, a, st)
           /\ y.run.allow = g.allow /\ y.run.touched = g.touched
           /\ y.run.lines = g.lines /\ y.run.fs = g.fs
  BY <1>1, HandledAs
<1>4. /\ RunOK(x.run) /\ x.run.plan = s.plan /\ x.run.mode = s.mode /\ IsTree(x.tree)
  <2>1. RunOK(s) /\ IsTree(b) /\ IsStep(st)
    BY <1>1
  <2> QED
    BY <2>1, StepHandled
<1>5. /\ RunOK(y.run) /\ y.run.plan = r.plan /\ y.run.mode = r.mode /\ IsTree(y.tree)
  <2>1. RunOK(r) /\ IsTree(a) /\ IsStep(st)
    BY <1>1
  <2> QED
    BY <2>1, StepHandled
<1>6. ~Unhandled(s, b, st)
  BY <1>1 DEF Unhandled
<1>7. "OK" \notin OnDiskCodes
  BY DEF OnDiskCodes
<1>8. CASE Refusal(s, b, st) = "OK" /\ Refusal(r, a, st) = "OK" /\ ~Unhandled(r, a, st)
  <2>1. /\ f.plan = g.plan /\ f.allow = g.allow /\ f.touched = g.touched /\ f.lines = g.lines
        /\ TreeAfter(s, b, st) = b /\ Overlays(f.fs, b, TreeAfter(r, a, st))
    BY <1>8, SameWork
  <2> HIDE DEF f, g, x, y
  <2>2. Caps(f, st) = Caps(g, st)
    BY <2>1 DEF Caps, Limits
  <2>3. Beside(x.run, x.tree, y.run, y.tree)
    BY <1>1, <1>2, <1>3, <1>4, <1>5, <1>6, <1>8, <2>1 DEF Beside
  <2>4. x.run.code = y.run.code
    BY <1>2, <1>3, <1>6, <1>8, <2>2
  <2>5. \/ x.run.code = "OK" /\ y.run.code = "OK" /\ Beside(x.run, x.tree, y.run, y.tree)
        \/ Apart(x.run.code, y.run.code, st, b, y.tree, w)
    BY <2>3, <2>4 DEF Apart
  <2> QED
    BY <2>5 DEF x, y
<1>9. CASE Refusal(r, a, st) = "OK" /\ Unhandled(r, a, st)
  BY <1>3, <1>9 DEF Apart
<1>10. CASE Refusal(s, b, st) # "OK" \/ Refusal(r, a, st) # "OK"
  <2> DEFINE c == Refusal(s, b, st)
             d == Refusal(r, a, st)
  <2>1. c = d \/ Apart(c, d, st, b, a, w)
    BY SameRefusal
  <2>2. c # "OK" => x.run.code = c
    BY <1>2
  <2>3. d # "OK" => y.run.code = d /\ y.tree = a
    BY <1>3
  <2>4. c # "OK" \/ d # "OK"
    BY <1>10
  <2> HIDE DEF c, d, x, y
  <2>5. ASSUME c = d PROVE Apart(x.run.code, y.run.code, st, b, y.tree, w)
    BY <2>2, <2>3, <2>4, <2>5 DEF Apart
  <2>6. ASSUME Apart(c, d, st, b, a, w)
        PROVE  Apart(x.run.code, y.run.code, st, b, y.tree, w)
    <3> DEFINE e == x.run.code
               g1 == y.run.code
               u == y.tree
    <3>1. /\ c # "OK" => e = c
          /\ d # "OK" => g1 = d /\ u = a
      BY <2>2, <2>3
    <3> HIDE DEF e, g1, u
    <3>2. Apart(e, g1, st, b, u, w)
      BY <1>7, <2>6, <3>1 DEF Apart
    <3> QED
      BY <3>2 DEF e, g1, u
  <2> QED
    BY <2>1, <2>5, <2>6 DEF x, y
<1> QED
  BY <1>8, <1>9, <1>10

\* The verdict of a course: that of the step where it fails, if one does.
EndsAs(U, p, v) ==
  \/ U[Len(StepsOf(p))].run.code = "OK" /\ v = [code |-> "OK", failed |-> 0]
  \/ \E k \in 1 .. Len(StepsOf(p)) :
       /\ U[k - 1].run.code = "OK" /\ U[k].run.code # "OK"
       /\ v = [code |-> U[k].run.code,
               failed |-> IF U[k].run.code \in NoStepError THEN 0 ELSE k]

LEMMA EndsWhere ==
  ASSUME NEW p \in Plans, NEW mode, NEW b, NEW U, IsCourse(U, p, mode, b),
         NEW j \in 1 .. Len(StepsOf(p)), U[j - 1].run.code = "OK", U[j].run.code # "OK",
         NEW v, EndsAs(U, p, v)
  PROVE  /\ v = [code |-> U[j].run.code,
                 failed |-> IF U[j].run.code \in NoStepError THEN 0 ELSE j]
         /\ U[Len(StepsOf(p))] = U[j]
<1> DEFINE n == Len(StepsOf(p))
<1>1. n \in Nat
  BY PlanSteps
<1>2. j \in 0 .. n /\ n \in j .. n
  BY <1>1
<1>3. U[n] = U[j]
  BY <1>2, CourseStuck
<1>4. PICK k \in 1 .. n :
        /\ U[k - 1].run.code = "OK" /\ U[k].run.code # "OK"
        /\ v = [code |-> U[k].run.code,
                failed |-> IF U[k].run.code \in NoStepError THEN 0 ELSE k]
  BY <1>3 DEF EndsAs
<1>5. CASE k < j
  <2>1. k \in 0 .. n /\ j - 1 \in k .. n
    BY <1>1, <1>5
  <2>2. U[j - 1] = U[k]
    BY <1>4, <2>1, CourseStuck
  <2> QED
    BY <1>4, <2>2
<1>6. CASE j < k
  <2>1. k - 1 \in j .. n
    BY <1>1, <1>6
  <2>2. U[k - 1] = U[j]
    BY <1>2, <2>1, CourseStuck
  <2> QED
    BY <1>4, <2>2
<1>7. CASE k = j
  BY <1>3, <1>4, <1>7
<1> QED
  BY <1>1, <1>5, <1>6, <1>7

LEMMA EndsWell ==
  ASSUME NEW p \in Plans, NEW mode, NEW b, NEW U, IsCourse(U, p, mode, b),
         U[Len(StepsOf(p))].run.code = "OK", NEW v, EndsAs(U, p, v)
  PROVE  v = [code |-> "OK", failed |-> 0]
<1> SUFFICES ASSUME NEW k \in 1 .. Len(StepsOf(p)), U[k].run.code # "OK" PROVE FALSE
  BY DEF EndsAs
<1>1. k \in 0 .. Len(StepsOf(p)) /\ Len(StepsOf(p)) \in k .. Len(StepsOf(p))
  BY PlanSteps
<1>2. U[Len(StepsOf(p))] = U[k]
  BY <1>1, CourseStuck
<1> QED
  BY <1>2

\* The tree is written by the steps that have been done only.
LEMMA WrittenOnly ==
  ASSUME NEW s, RunOK(s), NEW t, IsTree(t), NEW st, IsStep(st), st.type # "change",
         Handle(s, t, st).run.code = "OK", NEW q \in Paths,
         st.type \in {"create", "dir", "patch"} => q \notin Above[st.path] \union {st.path}
  PROVE  Handle(s, t, st).tree[q] = t[q]
<1>1. Handle(s, t, st).tree = TreeAfter(s, t, st)
  BY CarriedOut
<1>2. \A x : st.type \in {"create", "dir", "patch"} => Put(t, st.path, x)[q] = t[q]
  BY DEF Put
<1>3. TreeAfter(s, t, st)[q] = t[q]
  BY <1>2 DEF TreeAfter, Writes
<1> QED
  BY <1>1, <1>3

LEMMA WrittenGrows ==
  ASSUME NEW p \in Plans, NEW n \in 1 .. Len(StepsOf(p))
  PROVE  LET st == StepsOf(p)[n]
         IN /\ WrittenBefore(p, n) \subseteq WrittenBefore(p, n + 1)
            /\ st.type \in {"create", "dir", "patch"} =>
                 Above[st.path] \union {st.path} \subseteq WrittenBefore(p, n + 1)
<1> DEFINE W(j) == Above[StepsOf(p)[j].path] \union {StepsOf(p)[j].path}
           I(m) == {j \in 1 .. m - 1 : StepsOf(p)[j].type \in {"create", "dir", "patch"}}
<1>1. \A m : WrittenBefore(p, m) = UNION {W(j) : j \in I(m)}
  BY DEF WrittenBefore
<1>2. n \in Nat /\ n \in 1 .. (n + 1) - 1 /\ 1 .. n - 1 \subseteq 1 .. (n + 1) - 1
  BY PlanSteps
<1>3. I(n) \subseteq I(n + 1)
  BY <1>2
<1>4. StepsOf(p)[n].type \in {"create", "dir", "patch"} => n \in I(n + 1)
  BY <1>2
<1>5. StepsOf(p)[n].type \in {"create", "dir", "patch"} => W(n) \subseteq WrittenBefore(p, n + 1)
  <2> HIDE DEF W, I
  <2> QED
    BY <1>1, <1>4
<1>6. WrittenBefore(p, n) \subseteq WrittenBefore(p, n + 1)
  <2> HIDE DEF W, I
  <2> QED
    BY <1>1, <1>3
<1> QED
  BY <1>5, <1>6

\* Where the two have parted: at a step that both came to.
Parts(S, A, p, j, b) ==
  /\ S[j - 1].run.code = "OK" /\ A[j - 1].run.code = "OK"
  /\ Apart(S[j].run.code, A[j].run.code, StepsOf(p)[j], b, A[j].tree, WrittenBefore(p, j))

Together(S, A, p, k, b) ==
  /\ S[k].run.code = "OK" /\ A[k].run.code = "OK"
  /\ Beside(S[k].run, S[k].tree, A[k].run, A[k].tree) /\ S[k].tree = b
  /\ \A q \in Paths : q \notin WrittenBefore(p, k + 1) => A[k].tree[q] = b[q]

LEMMA TogetherOrParted ==
  ASSUME NEW p \in Plans, "change" \notin Types(p), NEW b, IsTree(b),
         NEW S, IsCourse(S, p, "simulate", b), NEW A, IsCourse(A, p, "apply", b)
  PROVE  Together(S, A, p, Len(StepsOf(p)), b) \/ \E j \in 1 .. Len(StepsOf(p)) : Parts(S, A, p, j, b)
<1> DEFINE n == Len(StepsOf(p))
           G == {k \in Nat : Together(S, A, p, k, b)}
<1> SUFFICES ASSUME \A j \in 1 .. n : ~Parts(S, A, p, j, b) PROVE Together(S, A, p, n, b)
  OBVIOUS
<1>1. n \in Nat /\ "simulate" \in Modes /\ "apply" \in Modes
  BY PlanSteps DEF Modes
<1>2. 0 \in G
  <2> DEFINE s == NewRun(p, "simulate")
             r == NewRun(p, "apply")
  <2>1. S[0].run = s /\ S[0].tree = b /\ A[0].run = r /\ A[0].tree = b
    BY DEF IsCourse
  <2>2. /\ s.code = "OK" /\ s.mode = "simulate" /\ s.plan = p /\ s.fs = <<>>
        /\ r.code = "OK" /\ r.mode = "apply" /\ r.plan = p
        /\ s.allow = r.allow /\ s.touched = r.touched /\ s.lines = r.lines
    BY DEF NewRun
  <2>3. RunOK(s) /\ RunOK(r)
    BY <1>1 DEF NewRun, RunOK, RunFields
  <2>4. \A q : q \notin DOMAIN s.fs
    BY <2>2
  <2> HIDE DEF s, r
  <2>5. Overlays(s.fs, b, b)
    BY <2>4 DEF Overlays
  <2>6. Beside(S[0].run, S[0].tree, A[0].run, A[0].tree)
    BY <2>1, <2>2, <2>3, <2>5 DEF Beside
  <2>7. Together(S, A, p, 0, b)
    BY <2>1, <2>2, <2>6 DEF Together
  <2> QED
    BY <2>7
<1>3. ASSUME NEW k \in 0 .. (n - 1), k \in G PROVE k + 1 \in G
  <2>1. k + 1 \in 1 .. n /\ (k + 1) - 1 = k /\ k + 1 \in Nat
    BY <1>1
  <2>2. Together(S, A, p, k, b)
    BY <1>3
  <2> DEFINE st == StepsOf(p)[k + 1]
             s == S[k].run
             t == S[k].tree
             r == A[k].run
             a == A[k].tree
  <2>3. S[k + 1] = Handle(s, t, st)
    <3>1. S[k + 1] = NextOf(p, k + 1, S[k])
      BY <2>1 DEF IsCourse
    <3> QED
      BY <2>2, <3>1 DEF NextOf, Together
  <2>4. A[k + 1] = Handle(r, a, st)
    <3>1. A[k + 1] = NextOf(p, k + 1, A[k])
      BY <2>1 DEF IsCourse
    <3> QED
      BY <2>2, <3>1 DEF NextOf, Together
  <2>5. IsStep(st) /\ st.type # "change"
    BY <2>1, PlanSteps DEF Types
  <2>6. Beside(s, t, r, a) /\ s.code = "OK" /\ r.code = "OK"
    BY <2>2 DEF Together
  <2>7. ~Parts(S, A, p, k + 1, b)
    BY <2>1
  <2>8. t = b /\ \A q \in Paths : q \notin WrittenBefore(p, k + 1) => a[q] = b[q]
    BY <2>2 DEF Together
  <2> DEFINE w == WrittenBefore(p, k + 1)
             m == k + 1
  <2>9. /\ WrittenBefore(p, m) \subseteq WrittenBefore(p, m + 1)
        /\ st.type \in {"create", "dir", "patch"} =>
             Above[st.path] \union {st.path} \subseteq WrittenBefore(p, m + 1)
    BY <2>1, WrittenGrows
  <2>10. RunOK(r) /\ IsTree(a)
    BY <2>6 DEF Beside
  <2>11. RunOK(s) /\ s.mode = "simulate" /\ IsTree(t)
    BY <2>6 DEF Beside
  <2> HIDE DEF s, t, r, a, st, w
  <2>12. \/ /\ S[k + 1].run.code = "OK" /\ A[k + 1].run.code = "OK"
            /\ Beside(S[k + 1].run, S[k + 1].tree, A[k + 1].run, A[k + 1].tree)
         \/ Apart(S[k + 1].run.code, A[k + 1].run.code, st, b, A[k + 1].tree, w)
    <3>1. \A q \in Paths : q \notin w => a[q] = t[q]
      BY <2>8 DEF w
    <3> QED
      BY <2>3, <2>4, <2>5, <2>6, <2>8, <3>1, ForecastStep
  <2>13. ~Apart(S[k + 1].run.code, A[k + 1].run.code, st, b, A[k + 1].tree, w)
    <3>1. S[(k + 1) - 1] = S[k] /\ A[(k + 1) - 1] = A[k]
      BY <2>1
    <3>2. S[(k + 1) - 1].run.code = "OK" /\ A[(k + 1) - 1].run.code = "OK"
      BY <2>6, <3>1 DEF s, r
    <3> QED
      BY <2>7, <3>2 DEF Parts, st, w
  <2>14. S[k + 1].tree = b
    <3>1. RunOK(s) /\ s.mode # "apply" /\ IsTree(t) /\ IsStep(st)
      BY <2>5, <2>11
    <3>2. Handle(s, t, st).tree = t
      BY <3>1, StepHandled
    <3> QED
      BY <2>3, <2>8, <3>2
  <2>15. ASSUME NEW q \in Paths, q \notin WrittenBefore(p, m + 1) PROVE A[k + 1].tree[q] = b[q]
    <3>1. q \notin WrittenBefore(p, m)
      BY <2>9, <2>15
    <3>2. st.type \in {"create", "dir", "patch"} => q \notin Above[st.path] \union {st.path}
      BY <2>9, <2>15
    <3>3. Handle(r, a, st).tree[q] = a[q]
      BY <2>4, <2>5, <2>10, <2>12, <2>13, <3>2, WrittenOnly
    <3> QED
      BY <2>4, <2>8, <3>1, <3>3
  <2>16. Together(S, A, p, k + 1, b)
    BY <2>12, <2>13, <2>14, <2>15 DEF Together
  <2> QED
    BY <2>1, <2>16
<1>4. \A k \in 0 .. n : k \in G
  <2> HIDE DEF G, n
  <2> QED
    BY <1>1, <1>2, <1>3, UpwardInduction
<1> QED
  BY <1>1, <1>4

\* So what is said is what comes, but for what the property excepts.
LEMMA Foretold ==
  ASSUME NEW p \in Plans, "change" \notin Types(p), NEW b, IsTree(b),
         NEW S, IsCourse(S, p, "simulate", b), NEW A, IsCourse(A, p, "apply", b),
         NEW said, EndsAs(S, p, said), NEW came, EndsAs(A, p, came)
  PROVE  \/ said = came
         \/ said.code = "PATHS_MISSING"
         \/ said.code \in OnDiskCodes /\ ReadsWritten(p, said.failed, b)
         \/ came.code \in OnDiskCodes /\ ReadsWritten(p, came.failed, b)
         \/ /\ came.code \in OnDiskCodes \union {"PATHS_MISSING"}
            /\ StepsOf(p)[came.failed].type \in {"assert", "pointer"}
            /\ StepsOf(p)[came.failed].applyOnly
         \/ came.code = "UNHANDLED_ERROR"
         \/ /\ came.code = "CONTENT_MISMATCH"
            /\ A[Len(StepsOf(p))].tree[StepsOf(p)[came.failed].path] = Dir
<1>1. CASE Together(S, A, p, Len(StepsOf(p)), b)
  <2>1. said = [code |-> "OK", failed |-> 0]
    BY <1>1, EndsWell DEF Together
  <2>2. came = [code |-> "OK", failed |-> 0]
    BY <1>1, EndsWell DEF Together
  <2> QED
    BY <2>1, <2>2
<1>2. ASSUME NEW j \in 1 .. Len(StepsOf(p)), Parts(S, A, p, j, b)
      PROVE  \/ said = came
             \/ said.code = "PATHS_MISSING"
             \/ said.code \in OnDiskCodes /\ ReadsWritten(p, said.failed, b)
             \/ came.code \in OnDiskCodes /\ ReadsWritten(p, came.failed, b)
             \/ /\ came.code \in OnDiskCodes \union {"PATHS_MISSING"}
                /\ StepsOf(p)[came.failed].type \in {"assert", "pointer"}
                /\ StepsOf(p)[came.failed].applyOnly
             \/ came.code = "UNHANDLED_ERROR"
             \/ /\ came.code = "CONTENT_MISMATCH"
                /\ A[Len(StepsOf(p))].tree[StepsOf(p)[came.failed].path] = Dir
  <2> DEFINE st == StepsOf(p)[j]
             c == S[j].run.code
             d == A[j].run.code
             y == A[j].tree
             w == WrittenBefore(p, j)
             V(e) == [code |-> e, failed |-> IF e \in NoStepError THEN 0 ELSE j]
  <2>1. /\ S[j - 1].run.code = "OK" /\ A[j - 1].run.code = "OK"
        /\ Apart(c, d, st, b, y, w)
    BY <1>2 DEF Parts
  <2>2. c # "OK" => said = V(c)
    BY <2>1, EndsWhere
  <2>3. d # "OK" => came = V(d) /\ A[Len(StepsOf(p))].tree = y
    BY <2>1, EndsWhere
  <2>4. \A e \in OnDiskCodes \union {"PATHS_MISSING", "CONTENT_MISMATCH"} :
          e \notin NoStepError /\ e # "OK" /\ V(e).failed = j /\ V(e).code = e
    BY DEF OnDiskCodes, NoStepError
  <2>5. Reads(b, st) \intersect w # {} => ReadsWritten(p, j, b)
    BY PlanSteps DEF ReadsWritten
  <2> HIDE DEF c, d, y, w, V
  <2>6. CASE c = d /\ c # "OK"
    BY <2>2, <2>3, <2>6
  <2>7. CASE c = "PATHS_MISSING"
    BY <2>2, <2>4, <2>7
  <2>8. CASE c \in OnDiskCodes /\ Reads(b, st) \intersect w # {}
    BY <2>2, <2>4, <2>5, <2>8
  <2>9. CASE d \in OnDiskCodes /\ Reads(b, st) \intersect w # {}
    BY <2>3, <2>4, <2>5, <2>9
  <2>10. CASE /\ d \in OnDiskCodes \union {"PATHS_MISSING"}
              /\ st.type \in {"assert", "pointer"} /\ st.applyOnly
    BY <2>3, <2>4, <2>10
  <2>11. CASE d = "UNHANDLED_ERROR"
    BY <2>3, <2>11 DEF V
  <2>12. CASE d = "CONTENT_MISMATCH" /\ y[st.path] = Dir
    BY <2>3, <2>4, <2>12
  <2> QED
    BY <2>1, <2>6, <2>7, <2>8, <2>9, <2>10, <2>11, <2>12 DEF Apart
<1> QED
  BY <1>1, <1>2, TogetherOrParted

-----------------------------------------------------------------------------
(* What runs do is what their course says. *)

\* Two that differ in their place and phase only.
Agrees(s, r) ==
  /\ RunOK(s) /\ RunOK(r) /\ s.plan = r.plan /\ s.mode = r.mode /\ s.code = r.code
  /\ s.fs = r.fs /\ s.allow = r.allow /\ s.touched = r.touched /\ s.lines = r.lines

LEMMA HandleAgrees ==
  ASSUME NEW s, NEW r, Agrees(s, r), NEW t, IsTree(t), NEW st, IsStep(st)
  PROVE  /\ Handle(s, t, st).run.code = Handle(r, t, st).run.code
         /\ Handle(s, t, st).tree = Handle(r, t, st).tree
         /\ Handle(s, t, st).run.code = "OK" =>
              Agrees(Handle(s, t, st).run, Handle(r, t, st).run)
<1> DEFINE x == Handle(s, t, st)
           y == Handle(r, t, st)
           f == RunAfter(s, t, st)
           g == RunAfter(r, t, st)
<1>1. /\ RunOK(s) /\ RunOK(r) /\ s.plan = r.plan /\ s.mode = r.mode /\ s.code = r.code
      /\ s.fs = r.fs /\ s.allow = r.allow /\ s.touched = r.touched /\ s.lines = r.lines
  BY DEF Agrees
<1>2. /\ GetText(s.fs, t, st.path) = GetText(r.fs, t, st.path)
      /\ WouldExist(s.fs, t, st.path) <=> WouldExist(r.fs, t, st.path)
  BY <1>1
<1>3. /\ Keeps(s, t, st) <=> Keeps(r, t, st)
      /\ Matches(s, t, st) <=> Matches(r, t, st)
      /\ NewText(s, t, st) = NewText(r, t, st)
  BY <1>2 DEF Keeps, Matches, NewText
<1>4. Writes(s, t, st) <=> Writes(r, t, st)
  BY <1>3 DEF Writes
<1>5. Barrier(s, st) = Barrier(r, st)
  BY <1>1, SameBarrier
<1>6. CreateRefusal(s, t, st) = CreateRefusal(r, t, st)
  BY <1>3 DEF CreateRefusal
<1>7. PatchRefusal(s, t, st) = PatchRefusal(r, t, st)
  BY <1>2, <1>3 DEF PatchRefusal
<1>8. AssertRefusal(s, t, st) = AssertRefusal(r, t, st)
  BY <1>1 DEF AssertRefusal, SkippedInDryRun
<1>9. SkippedInDryRun(s, st) <=> SkippedInDryRun(r, st)
  BY <1>1 DEF SkippedInDryRun
<1>10. ChangeRefusal(s) = ChangeRefusal(r)
  BY <1>1 DEF ChangeRefusal
<1>11. Refusal(s, t, st) = Refusal(r, t, st)
  BY <1>5, <1>6, <1>7, <1>8, <1>9, <1>10 DEF Refusal
<1>12. Unhandled(s, t, st) <=> Unhandled(r, t, st)
  BY <1>1, <1>4 DEF Unhandled
<1>13. TreeAfter(s, t, st) = TreeAfter(r, t, st)
  BY <1>1, <1>3, <1>4 DEF TreeAfter
<1>14. /\ f.plan = g.plan /\ f.allow = g.allow /\ f.touched = g.touched /\ f.lines = g.lines
       /\ f.fs = g.fs
  <2>1. /\ st.type = "allow" => f.allow = st.paths
        /\ st.type # "allow" => f.allow = s.allow
        /\ f.touched = TouchedAfter(s, st) /\ f.lines = LinesAfter(s, t, st) /\ f.plan = s.plan
    BY <1>1, RunCounts
  <2>2. /\ st.type = "allow" => g.allow = st.paths
        /\ st.type # "allow" => g.allow = r.allow
        /\ g.touched = TouchedAfter(r, st) /\ g.lines = LinesAfter(r, t, st) /\ g.plan = r.plan
    BY <1>1, RunCounts
  <2>3. TouchedAfter(s, st) = TouchedAfter(r, st)
    <3>1. Touched(s, st) = Touched(r, st)
      BY <1>1 DEF Touched
    <3> QED
      BY <1>1, <3>1 DEF TouchedAfter
  <2>4. LinesAfter(s, t, st) = LinesAfter(r, t, st)
    <3>1. Counted(s, t, st) = Counted(r, t, st)
      BY <1>1, <1>2, <1>3 DEF Counted
    <3> QED
      BY <1>1, <3>1 DEF LinesAfter
  <2>5. f.fs = g.fs
    <3>1. f.fs = IF s.mode # "apply" /\ Writes(s, t, st)
                 THEN SetText(s.fs, st.path, NewText(s, t, st)) ELSE s.fs
      BY <1>1 DEF RunAfter, RunOK, RunFields
    <3>2. g.fs = IF r.mode # "apply" /\ Writes(r, t, st)
                 THEN SetText(r.fs, st.path, NewText(r, t, st)) ELSE r.fs
      BY <1>1 DEF RunAfter, RunOK, RunFields
    <3> HIDE DEF f, g
    <3> QED
      BY <1>1, <1>3, <1>4, <3>1, <3>2
  <2> HIDE DEF f, g
  <2> QED
    BY <1>1, <2>1, <2>2, <2>3, <2>4, <2>5
<1>15. Caps(f, st) = Caps(g, st)
  <2> HIDE DEF f, g
  <2> QED
    BY <1>14 DEF Caps, Limits
<1>16. /\ Refusal(s, t, st) # "OK" => x.run.code = Refusal(s, t, st) /\ x.tree = t
       /\ Refusal(s, t, st) = "OK" /\ Unhandled(s, t, st) =>
            x.run.code = "UNHANDLED_ERROR"
       /\ Refusal(s, t, st) = "OK" /\ ~Unhandled(s, t, st) =>
            /\ x.run.code = Caps(f, st) /\ x.tree = TreeAfter(s, t, st)
            /\ x.run.allow = f.allow /\ x.run.touched = f.touched
            /\ x.run.lines = f.lines /\ x.run.fs = f.fs
  BY <1>1, HandledAs
<1>17. /\ Refusal(r, t, st) # "OK" => y.run.code = Refusal(r, t, st) /\ y.tree = t
       /\ Refusal(r, t, st) = "OK" /\ Unhandled(r, t, st) =>
            y.run.code = "UNHANDLED_ERROR"
       /\ Refusal(r, t, st) = "OK" /\ ~Unhandled(r, t, st) =>
            /\ y.run.code = Caps(g, st) /\ y.tree = TreeAfter(r, t, st)
            /\ y.run.allow = g.allow /\ y.run.touched = g.touched
            /\ y.run.lines = g.lines /\ y.run.fs = g.fs
  BY <1>1, HandledAs
<1>18. CASE Refusal(s, t, st) = "OK" /\ Unhandled(s, t, st)
  <2>1. x.tree = t /\ y.tree = t
    BY <1>11, <1>12, <1>18 DEF Handle
  <2>2. x.run.code = "UNHANDLED_ERROR" /\ y.run.code = "UNHANDLED_ERROR"
    BY <1>11, <1>12, <1>16, <1>17, <1>18
  <2> HIDE DEF x, y
  <2> QED
    BY <2>1, <2>2 DEF x, y
<1>19. CASE ~(Refusal(s, t, st) = "OK" /\ Unhandled(s, t, st))
  <2>1. RunOK(x.run) /\ x.run.plan = s.plan /\ x.run.mode = s.mode
    BY <1>1, StepHandled
  <2>2. RunOK(y.run) /\ y.run.plan = r.plan /\ y.run.mode = r.mode
    BY <1>1, StepHandled
  <2> HIDE DEF x, y, f, g
  <2>3. x.run.code = y.run.code /\ x.tree = y.tree
    BY <1>11, <1>12, <1>13, <1>15, <1>16, <1>17, <1>19
  <2>4. x.run.code = "OK" => Agrees(x.run, y.run)
    BY <1>1, <1>11, <1>12, <1>14, <1>16, <1>17, <1>19, <2>1, <2>2, <2>3 DEF Agrees
  <2> QED
    BY <2>3, <2>4 DEF x, y
<1> QED
  BY <1>18, <1>19

Place == IF run.phase = "step" THEN run.pc - 1 ELSE run.pc

(* The run is at its place in the course: it has come as far, with what the *)
(* course has there, and goes to the dead letter only if the course fails.  *)
InStep(U, p) ==
  /\ Place \in 0 .. Len(StepsOf(p))
  /\ run.code = U[Place].run.code /\ tree = U[Place].tree
  /\ run.code = "OK" => Agrees(run, U[Place].run)
  /\ run.phase = "step" => run.code = "OK"
  /\ run.phase # "step" => Place \in 1 .. Len(StepsOf(p)) /\ U[Place - 1].run.code = "OK"
  /\ run.phase \in {"dlq", "summary"} => run.code # "OK"

InStepInv ==
  \A U, p, mode, b :
    /\ run # None /\ (run.mode = "apply" => run.code # "OS_ERROR") /\ run.plan = p /\ run.mode = mode /\ evidence.base = b
    /\ "cmd" \notin Types(p) /\ IsCourse(U, p, mode, b)
    => InStep(U, p)

\* What an apply run ended with, and what a simulation said, is what their courses end with.
CameInv ==
  \A U, p, b :
    /\ Ended("apply") /\ evidence.summary.code # "OS_ERROR"
    /\ evidence.plan = p /\ evidence.base = b
    /\ "cmd" \notin Types(p) /\ IsCourse(U, p, "apply", b)
    => EndsAs(U, p, evidence.summary) /\ tree = U[Len(StepsOf(p))].tree

SaidInv ==
  \A U, p, b :
    /\ forecast # None /\ forecast.plan = p /\ forecast.base = b /\ forecast.litter = litter
    /\ "cmd" \notin Types(p) /\ IsCourse(U, p, "simulate", b)
    => EndsAs(U, p, forecast.verdict)

BaseInv ==
  run # None \/ evidence # None => evidence.plan \in Plans /\ IsTree(evidence.base)

\* Temporary files come of a write that fails, or that a crash cuts short, and stay.
LitterInv ==
  /\ run # None /\ run.code # "OS_ERROR" => evidence.litter = litter
  /\ Ended("apply") /\ evidence.summary.code # "OS_ERROR" => evidence.litter = litter
  /\ forecast # None => /\ forecast.plan \in Plans /\ forecast.litter \in Littering
                        /\ Within(forecast.litter, litter)

LEMMA CoreKept ==
  ASSUME [Next]_vars
  PROVE  core' = core /\ head' = head
BY DEF Next, Start, Step, RunCmd, Fail, Record, DeadLetter, Summarise, Crash, vars

\* A run that goes on stays with its evidence.
LEMMA BaseKept ==
  ASSUME RunInv, run # None,
         Step \/ RunCmd \/ Fail \/ Record \/ DeadLetter \/ Summarise \/ Crash
  PROVE  /\ evidence'.base = evidence.base /\ evidence'.plan = evidence.plan
         /\ evidence'.mode = evidence.mode /\ evidence'.litter = evidence.litter
<1>1. DOMAIN evidence = EvidenceFields
  BY DEF RunInv, Shaped
<1> QED
  BY <1>1 DEF Step, RunCmd, Fail, Record, DeadLetter, Summarise, Crash, EvidenceFields

LEMMA WithinOrder ==
  /\ \A x \in Littering : Within(x, x)
  /\ \A x, y, z \in Littering : Within(x, y) /\ Within(y, z) => Within(x, z)
  /\ \A x, y \in Littering : Within(x, y) /\ Within(y, x) => x = y
<1>1. \A x \in Littering, q \in Paths : x[q] # Absent => x[q] \in [Lines -> Nat]
  BY DEF Littering, Contents
<1>2. ASSUME NEW x \in Littering PROVE Within(x, x)
  BY <1>1 DEF Within
<1>3. ASSUME NEW x \in Littering, NEW y \in Littering, NEW z \in Littering,
             Within(x, y), Within(y, z)
      PROVE  Within(x, z)
  <2> SUFFICES ASSUME NEW q \in Paths, x[q] # Absent
               PROVE  z[q] # Absent /\ \A l \in Lines : x[q][l] <= z[q][l]
    BY DEF Within
  <2>1. y[q] # Absent /\ z[q] # Absent
    BY <1>3 DEF Within
  <2>2. x[q] \in [Lines -> Nat] /\ y[q] \in [Lines -> Nat] /\ z[q] \in [Lines -> Nat]
    BY <1>1, <2>1
  <2>3. ASSUME NEW l \in Lines PROVE x[q][l] <= z[q][l]
    <3>1. x[q][l] <= y[q][l] /\ y[q][l] <= z[q][l]
      BY <1>3, <2>1 DEF Within
    <3>2. x[q][l] \in Nat /\ y[q][l] \in Nat /\ z[q][l] \in Nat
      BY <2>2
    <3> QED
      BY <3>1, <3>2
  <2> QED
    BY <2>1, <2>3
<1>4. ASSUME NEW x \in Littering, NEW y \in Littering, Within(x, y), Within(y, x)
      PROVE  x = y
  <2>1. ASSUME NEW q \in Paths, x[q] # Absent PROVE x[q] = y[q]
    <3>1. y[q] # Absent
      BY <1>4, <2>1 DEF Within
    <3>2. x[q] \in [Lines -> Nat] /\ y[q] \in [Lines -> Nat]
      BY <1>1, <2>1, <3>1
    <3>3. ASSUME NEW l \in Lines PROVE x[q][l] = y[q][l]
      <4>1. x[q][l] <= y[q][l] /\ y[q][l] <= x[q][l]
        BY <1>4, <2>1, <3>1 DEF Within
      <4>2. x[q][l] \in Nat /\ y[q][l] \in Nat
        BY <3>2
      <4> QED
        BY <4>1, <4>2
    <3> QED
      BY <3>2, <3>3
  <2>2. ASSUME NEW q \in Paths, x[q] = Absent PROVE x[q] = y[q]
    BY <1>4, <2>2 DEF Within
  <2>3. \A q \in Paths : x[q] = y[q]
    BY <2>1, <2>2
  <2> QED
    BY <2>3 DEF Littering
<1> QED
  BY <1>2, <1>3, <1>4

LEMMA LitterGrows ==
  ASSUME RunInv, [Next]_vars
  PROVE  litter \in Littering /\ litter' \in Littering /\ Within(litter, litter')
<1>1. litter \in Littering
  BY DEF RunInv, TypeOK, Littering
<1>2. CASE UNCHANGED litter
  BY <1>1, <1>2, WithinOrder
<1>3. CASE CutShort
  BY <1>1, <1>3, CutLeaves
<1>4. UNCHANGED litter \/ CutShort
  BY DEF Next, Start, Step, RunCmd, Fail, Record, DeadLetter, Summarise, Crash, vars
<1> QED
  BY <1>1, <1>2, <1>3, <1>4

LEMMA LitterNext ==
  ASSUME RunInv, ReadInv, LitterInv, [Next]_vars
  PROVE  LitterInv'
<1>1. /\ litter \in Littering /\ litter' \in Littering /\ Within(litter, litter')
  BY LitterGrows
<1>2. ASSUME forecast' = forecast, forecast # None
      PROVE  /\ forecast'.plan \in Plans /\ forecast'.litter \in Littering
             /\ Within(forecast'.litter, litter')
  BY <1>1, <1>2, WithinOrder DEF LitterInv
<1>3. ASSUME NEW p \in Plans, NEW mode \in Modes, Start(p, mode) PROVE LitterInv'
  <2>1. /\ run' # None \/ run' = None
        /\ run' = NewRun(p, mode) /\ evidence'.litter = litter /\ evidence'.summary = None
        /\ litter' = litter /\ forecast' = forecast
    BY <1>3 DEF Start
  <2> QED
    BY <1>2, <2>1 DEF LitterInv, Ended, Within, Littering
<1>4. CASE Step \/ RunCmd \/ Fail \/ Record \/ DeadLetter
  <2>1. run # None /\ forecast' = forecast
    BY <1>4 DEF Step, RunCmd, Fail, Record, DeadLetter, CutShort, Writing, Working
  <2>2. evidence.summary = None /\ DOMAIN evidence = EvidenceFields /\ RunOK(run)
    BY <2>1, RunIsOK DEF ReadInv, RunInv, Shaped
  <2>3. evidence'.summary = None /\ evidence'.litter = evidence.litter
    BY <1>4, <2>2 DEF Step, RunCmd, Fail, Record, DeadLetter, EvidenceFields
  <2>4. ASSUME run'.code # "OS_ERROR" PROVE run.code # "OS_ERROR" /\ litter' = litter
    <3>1. CASE Step \/ RunCmd
      <4>1. run.phase = "step" /\ litter' = litter
        BY <3>1 DEF Step, RunCmd, Working
      <4>2. run.code = "OK"
        BY <2>1, <4>1 DEF ReadInv
      <4> QED
        BY <4>1, <4>2
    <3>2. CASE Fail
      <4>1. run'.code = "OS_ERROR"
        BY <2>2, <3>2 DEF Fail, RunOK, RunFields
      <4> QED
        BY <2>4, <4>1
    <3>3. CASE Record \/ DeadLetter
      <4>1. run'.code = run.code /\ litter' = litter
        BY <2>2, <3>3 DEF Record, DeadLetter, RunOK, RunFields
      <4> QED
        BY <2>4, <4>1
    <3> QED
      BY <1>4, <3>1, <3>2, <3>3
  <2>5. run' # None /\ run'.code # "OS_ERROR" => evidence'.litter = litter'
    BY <2>1, <2>3, <2>4 DEF LitterInv
  <2>6. ~Ended("apply")'
    BY <2>3 DEF Ended
  <2>7. forecast' # None =>
          /\ forecast'.plan \in Plans /\ forecast'.litter \in Littering
          /\ Within(forecast'.litter, litter')
    BY <1>2, <2>1
  <2> QED
    BY <2>5, <2>6, <2>7 DEF LitterInv, Within, Littering
<1>5. CASE Summarise
  <2>1. /\ run # None /\ run' = None /\ litter' = litter
        /\ evidence' = [evidence EXCEPT !.summary = Verdict]
        /\ \/ forecast' = forecast
           \/ forecast' = [plan |-> run.plan, base |-> tree, litter |-> litter,
                           verdict |-> Verdict]
    BY <1>5 DEF Summarise
  <2>2. evidence'.summary.code = run.code /\ evidence'.litter = evidence.litter
    BY <2>1 DEF RunInv, Shaped, EvidenceFields, Verdict
  <2>3. evidence'.summary.code # "OS_ERROR" => evidence'.litter = litter'
    BY <2>1, <2>2 DEF LitterInv
  <2>4. forecast' # None =>
          /\ forecast'.plan \in Plans /\ forecast'.litter \in Littering
          /\ Within(forecast'.litter, litter')
    <3>1. CASE forecast' = forecast
      BY <1>2, <3>1
    <3>2. CASE forecast'.plan = run.plan /\ forecast'.litter = litter
      BY <1>1, <2>1, <3>2 DEF RunInv, TypeOK
    <3> QED
      BY <2>1, <3>1, <3>2
  <2> QED
    BY <2>1, <2>3, <2>4 DEF LitterInv, Within, Littering
<1>6. CASE Crash
  <2>1. run # None /\ run' = None /\ evidence' = evidence /\ forecast' = forecast
    BY <1>6 DEF Crash
  <2>2. evidence'.summary = None
    BY <2>1 DEF ReadInv
  <2> QED
    BY <1>2, <2>1, <2>2 DEF LitterInv, Ended, Within, Littering
<1>7. CASE UNCHANGED vars
  <2>1. /\ run' = run /\ evidence' = evidence /\ litter' = litter /\ forecast' = forecast
    BY <1>7 DEF vars
  <2> QED
    BY <1>2, <2>1 DEF LitterInv, Ended, Within, Littering
<1> QED
  BY <1>3, <1>4, <1>5, <1>6, <1>7 DEF Next

LEMMA BaseNext ==
  ASSUME RunInv, BaseInv, [Next]_vars
  PROVE  BaseInv'
<1>1. ASSUME NEW p \in Plans, NEW mode \in Modes, Start(p, mode) PROVE BaseInv'
  <2>1. evidence'.plan = p /\ evidence'.base = tree
    BY <1>1 DEF Start
  <2> QED
    BY <2>1 DEF BaseInv, RunInv, TypeOK, IsTree
<1>2. CASE Step \/ RunCmd \/ Fail \/ Record \/ DeadLetter \/ Summarise \/ Crash
  <2>1. run # None
    BY <1>2 DEF Step, RunCmd, Fail, CutShort, Writing, Record, DeadLetter, Summarise, Crash,
                Working
  <2>2. evidence'.base = evidence.base /\ evidence'.plan = evidence.plan
    BY <1>2, <2>1, BaseKept
  <2>3. evidence.plan \in Plans
    BY <2>1 DEF RunInv, TypeOK
  <2>4. IsTree(evidence.base)
    BY <2>1 DEF BaseInv
  <2> QED
    BY <2>2, <2>3, <2>4 DEF BaseInv, IsTree
<1>3. CASE UNCHANGED vars
  BY <1>3 DEF vars, BaseInv, IsTree
<1> QED
  BY <1>1, <1>2, <1>3 DEF Next

LEMMA InStepStart ==
  ASSUME NEW q \in Plans, NEW m \in Modes, Start(q, m),
         NEW U, NEW p, NEW mode, NEW b, run'.plan = p, run'.mode = mode,
         evidence'.base = b, IsCourse(U, p, mode, b)
  PROVE  InStep(U, p)'
<1>1. run' = NewRun(q, m) /\ evidence'.base = tree /\ tree' = tree
  BY DEF Start
<1>2. /\ p = q /\ mode = m /\ b = tree
      /\ run'.pc = 1 /\ run'.phase = "step" /\ run'.code = "OK"
  BY <1>1 DEF NewRun
<1>3. U[0].run = run' /\ U[0].tree = tree'
  BY <1>1, <1>2 DEF IsCourse
<1>4. Place' = 0 /\ 0 \in 0 .. Len(StepsOf(p))
  BY <1>2, PlanSteps DEF Place
<1>5. RunOK(run')
  BY <1>1 DEF NewRun, RunOK, RunFields
<1>6. Agrees(run', U[0].run)
  BY <1>3, <1>5 DEF Agrees
<1> QED
  BY <1>2, <1>3, <1>4, <1>6 DEF InStep

LEMMA InStepStep ==
  ASSUME RunInv, Step, NEW U, NEW p \in Plans, NEW mode \in Modes, NEW b,
         run.plan = p, IsCourse(U, p, mode, b), InStep(U, p)
  PROVE  InStep(U, p)'
<1> DEFINE i == run.pc
           st == Current
           h == Handle(run, tree, st)
           r == U[i - 1].run
           u == U[i - 1].tree
<1>1. run # None /\ run.phase = "step" /\ i \in 1 .. Len(StepsOf(p)) /\ Working
  <2>1. run # None /\ run.phase = "step" /\ i <= Len(StepsOf(p)) /\ Working
    BY DEF Step, Working
  <2> QED
    BY <2>1, PlanSteps DEF RunInv, Shaped
<1>2. Place = i - 1 /\ run.code = "OK" /\ r.code = "OK" /\ tree = u /\ Agrees(run, r)
  BY <1>1 DEF Place, InStep
<1>3. IsStep(st) /\ IsTree(tree)
  BY <1>1, CurrentStep DEF RunInv, TypeOK
<1>4. U[i] = Handle(r, tree, st)
  <2>1. U[i] = NextOf(p, i, U[i - 1])
    BY <1>1 DEF IsCourse
  <2>2. st = StepsOf(p)[i]
    BY DEF Current
  <2> QED
    BY <1>2, <2>1, <2>2 DEF NextOf
<1>5. run' = [h.run EXCEPT !.phase = "record"] /\ tree' = h.tree
  BY DEF Step
<1>6. RunOK(h.run) /\ h.run.pc = i
  <2>1. RunOK(run)
    BY <1>1, RunIsOK
  <2> QED
    BY <1>3, <2>1, StepHandled
<1> HIDE DEF st, h
<1>7. /\ run'.code = h.run.code /\ run'.phase = "record" /\ run'.pc = i
      /\ run'.plan = h.run.plan /\ run'.mode = h.run.mode /\ run'.fs = h.run.fs
      /\ run'.allow = h.run.allow /\ run'.touched = h.run.touched
      /\ run'.lines = h.run.lines /\ RunOK(run')
  BY <1>5, <1>6 DEF RunOK, RunFields
<1>8. /\ h.run.code = U[i].run.code /\ h.tree = U[i].tree
      /\ h.run.code = "OK" => Agrees(h.run, U[i].run)
  BY <1>2, <1>3, <1>4, HandleAgrees DEF h
<1>9. run'.code = "OK" => Agrees(run', U[i].run)
  BY <1>7, <1>8 DEF Agrees
<1>10. Place' = i
  BY <1>7 DEF Place
<1>11. i \in 0 .. Len(StepsOf(p))
  BY <1>1
<1> QED
  BY <1>1, <1>2, <1>5, <1>7, <1>8, <1>9, <1>10, <1>11 DEF InStep

LEMMA InStepRecord ==
  ASSUME RunInv, Record, NEW U, NEW p \in Plans, run.plan = p, InStep(U, p)
  PROVE  InStep(U, p)'
<1> DEFINE i == run.pc
<1>1. run # None /\ run.phase = "record" /\ tree' = tree /\ RunOK(run) /\ i \in Nat
  BY RunIsOK DEF Record, RunInv, Shaped
<1>2. /\ Place = i /\ i \in 1 .. Len(StepsOf(p)) /\ i \in 0 .. Len(StepsOf(p))
      /\ run.code = U[i].run.code /\ tree = U[i].tree /\ U[i - 1].run.code = "OK"
      /\ run.code = "OK" => Agrees(run, U[i].run)
  BY <1>1 DEF Place, InStep
<1>3. CASE run.code = "OK"
  <2>1. run' = [run EXCEPT !.pc = @ + 1, !.phase = "step"]
    BY <1>3 DEF Record
  <2>2. /\ run'.code = "OK" /\ run'.phase = "step" /\ run'.pc = i + 1
        /\ run'.plan = run.plan /\ run'.mode = run.mode /\ run'.fs = run.fs
        /\ run'.allow = run.allow /\ run'.touched = run.touched
        /\ run'.lines = run.lines /\ RunOK(run')
    BY <1>1, <1>3, <2>1 DEF RunOK, RunFields
  <2>3. Place' = i
    BY <1>1, <2>2 DEF Place
  <2>4. Agrees(run', U[i].run)
    BY <1>2, <1>3, <2>2 DEF Agrees
  <2> QED
    BY <1>1, <1>2, <1>3, <2>2, <2>3, <2>4 DEF InStep
<1>4. CASE run.code # "OK"
  <2>1. run' = [run EXCEPT !.phase = "dlq"]
    BY <1>4 DEF Record
  <2>2. run'.code = run.code /\ run'.phase = "dlq" /\ run'.pc = i
    BY <1>1, <2>1 DEF RunOK, RunFields
  <2>3. Place' = i
    BY <2>2 DEF Place
  <2> QED
    BY <1>1, <1>2, <1>4, <2>2, <2>3 DEF InStep
<1> QED
  BY <1>3, <1>4

LEMMA InStepDeadLetter ==
  ASSUME RunInv, DeadLetter, NEW U, NEW p, InStep(U, p)
  PROVE  InStep(U, p)'
<1>1. /\ run # None /\ run.phase = "dlq" /\ tree' = tree /\ RunOK(run)
      /\ run' = [run EXCEPT !.phase = "summary"]
  BY RunIsOK DEF DeadLetter
<1>2. run'.code = run.code /\ run'.phase = "summary" /\ run'.pc = run.pc
  BY <1>1 DEF RunOK, RunFields
<1>3. Place' = Place
  BY <1>1, <1>2 DEF Place
<1> QED
  BY <1>1, <1>2, <1>3 DEF InStep

LEMMA InStepNext ==
  ASSUME RunInv, ReadInv, InStepInv, [Next]_vars
  PROVE  InStepInv'
<1> SUFFICES ASSUME NEW U, NEW p, NEW mode, NEW b,
                    run' # None, run'.mode = "apply" => run'.code # "OS_ERROR", run'.plan = p, run'.mode = mode, evidence'.base = b,
                    "cmd" \notin Types(p), IsCourse(U, p, mode, b)'
             PROVE  InStep(U, p)'
  BY DEF InStepInv
<1>0. ~Fail /\ litter' = litter
  <2>1. ASSUME Fail PROVE FALSE
    <3>1. /\ run # None /\ run' = [run EXCEPT !.code = "OS_ERROR", !.phase = "record"]
          /\ run.mode = "apply"
      BY <2>1, CutLeaves DEF Fail
    <3>2. RunOK(run)
      BY <3>1, RunIsOK
    <3> QED
      BY <3>1, <3>2 DEF RunOK, RunFields
  <2>2. ~Crash
    BY DEF Crash
  <2>3. ~Fail => litter' = litter
    BY <2>2 DEF Next, Start, Step, RunCmd, Record, DeadLetter, Summarise, vars
  <2> QED
    BY <2>1, <2>3
<1>1. IsCourse(U, p, mode, b)
  <2>1. p \in Plans
    BY RunNext DEF RunInv, TypeOK
  <2> QED
    BY <1>0, <2>1, CoreKept, CourseKept
<1>2. ASSUME NEW q \in Plans, NEW m \in Modes, Start(q, m) PROVE InStep(U, p)'
  BY <1>1, <1>2, InStepStart
<1>3. RunInv'
  BY RunNext
<1>4. p \in Plans /\ mode \in Modes
  BY <1>3 DEF RunInv, TypeOK
<1>5. ASSUME run # None, run.mode = "apply" => run.code # "OS_ERROR", run.plan = p, run.mode = mode, evidence.base = b
      PROVE  InStep(U, p)
  BY <1>1, <1>5 DEF InStepInv
<1>6. CASE Step \/ RunCmd \/ Record \/ DeadLetter
  <2>1. run # None /\ evidence'.base = evidence.base
    BY <1>6, BaseKept DEF Step, RunCmd, Record, DeadLetter, Working
  <2>2. RunOK(run)
    BY <2>1, RunIsOK
  <2>3. run'.plan = run.plan /\ run'.mode = run.mode
    <3>1. CASE Step
      <4>1. IsStep(Current) /\ IsTree(tree)
        BY <3>1, CurrentStep DEF Step, RunInv, TypeOK
      <4> DEFINE h == Handle(run, tree, Current)
      <4>2. RunOK(h.run) /\ h.run.plan = run.plan /\ h.run.mode = run.mode
        BY <2>2, <4>1, StepHandled
      <4>3. run' = [h.run EXCEPT !.phase = "record"]
        BY <3>1 DEF Step
      <4> HIDE DEF h
      <4> QED
        BY <4>2, <4>3 DEF RunOK, RunFields
    <3>2. CASE Record \/ DeadLetter
      BY <2>2, <3>2 DEF Record, DeadLetter, RunOK, RunFields
    <3>3. CASE RunCmd
      BY <2>2, <3>3 DEF RunCmd, Command, RunOK, RunFields
    <3> QED
      BY <1>6, <3>1, <3>2, <3>3
  <2>6. run.mode = "apply" => run.code # "OS_ERROR"
    <3>1. CASE Step \/ RunCmd
      <4>1. run.phase = "step"
        BY <3>1 DEF Step, RunCmd, Working
      <4> QED
        BY <2>1, <4>1 DEF ReadInv
    <3>2. CASE Record \/ DeadLetter
      <4>1. run'.code = run.code
        BY <2>2, <3>2 DEF Record, DeadLetter, RunOK, RunFields
      <4> QED
        BY <2>3, <4>1
    <3> QED
      BY <1>6, <3>1, <3>2
  <2>4. InStep(U, p) /\ run.plan = p
    BY <1>5, <2>1, <2>3, <2>6
  <2>5. ~RunCmd
    <3> SUFFICES ASSUME RunCmd PROVE FALSE
      OBVIOUS
    <3>1. run.pc \in 1 .. Len(StepsOf(p)) /\ Current.type = "cmd" /\ Current = StepsOf(p)[run.pc]
      BY <1>4, <2>1, <2>4, PlanSteps DEF RunCmd, Working, RunInv, Shaped, Current
    <3> QED
      BY <3>1 DEF Types
  <2> QED
    BY <1>1, <1>4, <1>6, <2>4, <2>5, InStepStep, InStepRecord, InStepDeadLetter
<1>7. CASE Summarise \/ Crash
  BY <1>7 DEF Summarise, Crash
<1>8. CASE UNCHANGED vars
  <2>1. InStep(U, p)
    BY <1>5, <1>8 DEF vars
  <2> QED
    BY <1>8, <2>1 DEF vars, InStep, Place
<1> QED
  BY <1>0, <1>2, <1>6, <1>7, <1>8 DEF Next

\* A run that has nothing left to do but say so ends as its course does.
LEMMA EndsNow ==
  ASSUME RunInv, run # None, NEW U, NEW p \in Plans, NEW mode, NEW b,
         run.plan = p, IsCourse(U, p, mode, b), InStep(U, p),
         run.phase = "summary" \/ (run.phase = "step" /\ run.pc > Len(StepsOf(p)))
  PROVE  EndsAs(U, p, Verdict) /\ tree = U[Len(StepsOf(p))].tree
<1> DEFINE n == Len(StepsOf(p))
<1>1. n \in Nat /\ run.pc \in Nat
  BY PlanSteps DEF RunInv, Shaped
<1>2. CASE run.phase = "summary"
  <2> DEFINE k == run.pc
  <2>1. /\ k \in 1 .. n /\ U[k - 1].run.code = "OK" /\ run.code # "OK"
        /\ run.code = U[k].run.code /\ tree = U[k].tree
    BY <1>2 DEF InStep, Place
  <2>2. k \in 0 .. n /\ n \in k .. n
    BY <1>1, <2>1
  <2>3. U[n] = U[k]
    BY <2>1, <2>2, CourseStuck
  <2>4. Verdict = [code |-> U[k].run.code,
                   failed |-> IF U[k].run.code \in NoStepError THEN 0 ELSE k]
    BY <2>1 DEF Verdict
  <2> QED
    BY <2>1, <2>3, <2>4 DEF EndsAs
<1>3. CASE run.phase = "step" /\ run.pc > n
  <2>1. run.pc - 1 \in 0 .. n /\ Place = run.pc - 1
    BY <1>3 DEF InStep, Place
  <2>2. Place = n
    BY <1>1, <1>3, <2>1
  <2>3. run.code = "OK" /\ run.code = U[n].run.code /\ tree = U[n].tree
    BY <1>3, <2>2 DEF InStep
  <2> QED
    BY <2>3 DEF EndsAs, Verdict, NoStepError
<1> QED
  BY <1>2, <1>3

LEMMA CameNext ==
  ASSUME RunInv, ReadInv, BaseInv, InStepInv, CameInv, [Next]_vars
  PROVE  CameInv'
<1> SUFFICES ASSUME NEW U, NEW p, NEW b,
                    Ended("apply")', evidence'.summary.code # "OS_ERROR",
                    evidence'.plan = p, evidence'.base = b,
                    "cmd" \notin Types(p), IsCourse(U, p, "apply", b)'
             PROVE  EndsAs(U, p, evidence'.summary) /\ tree' = U[Len(StepsOf(p))].tree
  BY DEF CameInv
<1>2. /\ run' = None /\ evidence' # None /\ evidence'.mode = "apply"
      /\ evidence'.summary # None
  BY DEF Ended
<1>1. Summarise \/ UNCHANGED vars => IsCourse(U, p, "apply", b)
  <2>1. p \in Plans
    BY <1>2, BaseNext DEF BaseInv
  <2> SUFFICES ASSUME Summarise \/ UNCHANGED vars PROVE IsCourse(U, p, "apply", b)
    OBVIOUS
  <2>2. litter' = litter
    BY DEF Summarise, vars
  <2> QED
    BY <2>1, <2>2, CoreKept, CourseKept
<1>3. ASSUME NEW q \in Plans, NEW m \in Modes, Start(q, m) PROVE FALSE
  BY <1>2, <1>3 DEF Start
<1>4. CASE Summarise
  <2>1. /\ run # None /\ tree' = tree /\ evidence' = [evidence EXCEPT !.summary = Verdict]
        /\ run.phase = "summary" \/ (run.phase = "step" /\ run.pc > Len(StepsOf(run.plan)))
    BY <1>4 DEF Summarise
  <2>2. /\ evidence'.base = evidence.base /\ evidence'.plan = evidence.plan
        /\ evidence'.mode = evidence.mode
    BY <1>4, <2>1, BaseKept
  <2>3. run.plan = p /\ run.mode = "apply" /\ p \in Plans
    BY <1>2, <2>1, <2>2 DEF RunInv, TypeOK
  <2>6. evidence'.summary = Verdict
    BY <2>1 DEF RunInv, Shaped, EvidenceFields
  <2>7. run.code # "OS_ERROR"
    BY <2>6 DEF Verdict
  <2>4. InStep(U, p)
    BY <1>1, <1>4, <2>1, <2>2, <2>3, <2>7 DEF InStepInv
  <2>5. EndsAs(U, p, Verdict) /\ tree = U[Len(StepsOf(p))].tree
    BY <1>1, <1>4, <2>1, <2>3, <2>4, EndsNow
  <2> QED
    BY <2>1, <2>5, <2>6
<1>5. CASE Step \/ RunCmd \/ Fail \/ Record \/ DeadLetter \/ Crash
  <2>1. run # None
    BY <1>5 DEF Step, RunCmd, Fail, CutShort, Writing, Record, DeadLetter, Crash, Working
  <2>2. evidence.summary = None /\ DOMAIN evidence = EvidenceFields
    BY <2>1 DEF ReadInv, RunInv, Shaped
  <2>3. evidence'.summary = None
    BY <1>5, <2>2 DEF Step, RunCmd, Fail, Record, DeadLetter, Crash, EvidenceFields
  <2> QED
    BY <1>2, <2>3
<1>6. CASE UNCHANGED vars
  <2>1. Ended("apply") /\ evidence' = evidence /\ tree' = tree
    BY <1>2, <1>6 DEF vars, Ended
  <2> QED
    BY <1>1, <1>6, <2>1 DEF CameInv
<1> QED
  BY <1>3, <1>4, <1>5, <1>6 DEF Next

LEMMA SaidNext ==
  ASSUME RunInv, BaseInv, LitterInv, InStepInv, SaidInv, [Next]_vars
  PROVE  SaidInv'
<1> SUFFICES ASSUME NEW U, NEW p, NEW b,
                    forecast' # None, forecast'.plan = p, forecast'.base = b,
                    forecast'.litter = litter', "cmd" \notin Types(p), IsCourse(U, p, "simulate", b)'
             PROVE  EndsAs(U, p, forecast'.verdict)
  BY DEF SaidInv
<1>0. litter' = litter
  <2>1. litter \in Littering /\ litter' \in Littering /\ Within(litter, litter')
    BY LitterGrows
  <2>2. CASE forecast' = forecast
    <3>1. Within(litter', litter)
      BY <2>2 DEF LitterInv
    <3> QED
      BY <2>1, <3>1, WithinOrder
  <2>3. CASE forecast' # forecast
    BY <2>3 DEF Next, Start, Step, RunCmd, Fail, Record, DeadLetter, Summarise, Crash, vars
  <2> QED
    BY <2>2, <2>3
<1>1. p \in Plans => IsCourse(U, p, "simulate", b)
  BY <1>0, CoreKept, CourseKept
<1>2. CASE forecast' = forecast
  <2>1. p \in Plans
    BY <1>2 DEF LitterInv
  <2> QED
    BY <1>0, <1>1, <1>2, <2>1 DEF SaidInv
<1>3. CASE Summarise /\ run.mode = "simulate"
  <2>1. /\ run # None
        /\ run.phase = "summary" \/ (run.phase = "step" /\ run.pc > Len(StepsOf(run.plan)))
        /\ forecast' = [plan |-> run.plan, base |-> tree, litter |-> litter,
                        verdict |-> Verdict]
    BY <1>3 DEF Summarise
  <2>2. run.plan = p /\ tree = b /\ forecast'.verdict = Verdict /\ run.mode = "simulate"
    BY <1>3, <2>1
  <2>3. p \in Plans /\ IsTree(evidence.base) /\ "simulate" \in Modes
    BY <2>1, <2>2 DEF RunInv, TypeOK, BaseInv, Modes
  <2>4. evidence.base = b
    <3>1. PICK V : IsCourse(V, p, "simulate", evidence.base)
      BY <2>3, CourseExists
    <3>2. InStep(V, p)
      BY <2>1, <2>2, <3>1 DEF InStepInv
    <3>3. Place \in 0 .. Len(StepsOf(p)) /\ tree = V[Place].tree
      BY <3>2 DEF InStep
    <3>4. V[Place].tree = evidence.base
      BY <2>3, <3>1, <3>3, CourseStates
    <3> QED
      BY <2>2, <3>3, <3>4
  <2>5. InStep(U, p)
    BY <1>1, <2>1, <2>2, <2>3, <2>4 DEF InStepInv
  <2> QED
    BY <1>1, <2>1, <2>2, <2>3, <2>5, EndsNow
<1>4. forecast' = forecast \/ (Summarise /\ run.mode = "simulate")
  BY DEF Next, Start, Step, RunCmd, Fail, Record, DeadLetter, Summarise, Crash, vars
<1> QED
  BY <1>2, <1>3, <1>4

\* Both courses begin on the one tree: what the simulation said is what came.
LEMMA ForecastHolds ==
  ASSUME BaseInv, LitterInv, CameInv, SaidInv
  PROVE  DryRunPredicts
<1> DEFINE p == evidence.plan
           b == evidence.base
           said == forecast.verdict
           came == evidence.summary
           st == StepsOf(p)[came.failed]
<1> SUFFICES ASSUME Ended("apply"), forecast # None, forecast.plan = p, forecast.base = b,
                    forecast.litter = evidence.litter,
                    Types(p) \intersect {"cmd", "change"} = {}, came.code # "OS_ERROR"
             PROVE  \/ said = came
                    \/ said.code = "PATHS_MISSING"
                    \/ said.code \in OnDiskCodes /\ ReadsWritten(p, said.failed, b)
                    \/ came.code \in OnDiskCodes /\ ReadsWritten(p, came.failed, b)
                    \/ /\ came.code \in OnDiskCodes \union {"PATHS_MISSING"}
                       /\ st.type \in {"assert", "pointer"} /\ st.applyOnly
                    \/ came.code = "UNHANDLED_ERROR"
                    \/ came.code = "CONTENT_MISMATCH" /\ tree[st.path] = Dir
  BY DEF DryRunPredicts
<1>1. p \in Plans /\ IsTree(b) /\ forecast.litter = litter
  BY DEF Ended, BaseInv, LitterInv
<1>2. "cmd" \notin Types(p) /\ "change" \notin Types(p)
  OBVIOUS
<1>3. PICK S : IsCourse(S, p, "simulate", b)
  BY <1>1, CourseExists
<1>4. PICK A : IsCourse(A, p, "apply", b)
  BY <1>1, CourseExists
<1>5. EndsAs(S, p, said)
  BY <1>1, <1>2, <1>3 DEF SaidInv
<1>6. EndsAs(A, p, came) /\ tree = A[Len(StepsOf(p))].tree
  BY <1>2, <1>4 DEF CameInv
<1> HIDE DEF p, b, said, came
<1> QED
  BY <1>1, <1>2, <1>3, <1>4, <1>5, <1>6, Foretold

(* What a simulation says of a plan without commands and change proposals   *)
(* is what applying the plan to the same tree does, but for the cases the   *)
(* property names, whatever the plan, its limits and the tree.              *)
THEOREM DryRunForetells == Spec => []DryRunPredicts
<1>1. Init => RunInv /\ ReadInv /\ BaseInv /\ LitterInv /\ InStepInv /\ CameInv /\ SaidInv
  BY RunInit, ReadInit DEF Init, BaseInv, LitterInv, InStepInv, CameInv, SaidInv, Ended
<1>2. RunInv /\ ReadInv /\ BaseInv /\ LitterInv /\ InStepInv /\ CameInv /\ SaidInv /\ [Next]_vars
        => (RunInv /\ ReadInv /\ BaseInv /\ LitterInv /\ InStepInv /\ CameInv /\ SaidInv)'
  BY RunNext, ReadNext, BaseNext, LitterNext, InStepNext, CameNext, SaidNext
<1>3. BaseInv /\ LitterInv /\ CameInv /\ SaidInv => DryRunPredicts
  BY ForecastHolds
<1> QED
  BY <1>1, <1>2, <1>3, PTL DEF Spec
=============================================================================

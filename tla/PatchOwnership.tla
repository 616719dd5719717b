--------------------------- MODULE PatchOwnership ---------------------------
(***************************************************************************)
(* The patch steps of workflow runs.  A run claims the top-level areas its *)
(* patch touches, one claim after the other in sorted order, checks and    *)
(* applies the patch with git, keeps a reverse diff, and gives the claims  *)
(* back.  The worktree of a run is gone by then, so all runs patch the one *)
(* index of the workspace.  Claims are those of LeaseService without the   *)
(* tokens: the handle of a claim is stale once the claim has another       *)
(* owner.  A patch is named by its run; applied twice, it is no change.    *)
(***************************************************************************)
EXTENDS Naturals, FiniteSets

CONSTANTS
  Runs, Nobody,
  NumAreas,   \* number of top-level areas
  Touches,    \* Touches[r]: the areas of run r's patch (preview.files_changed)
  MaxClaims,  \* policy.max_claims_per_agent; 0 is unlimited
  MaxFaults   \* bound: steps that die or outlast a claim, calls that fail, together

ASSUME PatchAssumption ==
  /\ Nobody \notin Runs
  /\ NumAreas \in Nat /\ MaxClaims \in Nat /\ MaxFaults \in Nat
  /\ Touches \in [Runs -> (SUBSET (1 .. NumAreas)) \ {{}}]

VARIABLES
  owner, lapsed,   \* per area: who has the claim, and whether it is past grace
  index,           \* index[a]: the patches staged in area a
  unmerged,        \* the areas a three-way apply left in conflict
  rev,             \* rev[r]: the reverse diff r's latest apply kept
  step,            \* step[r]: where r's patch step is
  done, undone,    \* runs whose apply, whose rollback, was reported a success
  checked,         \* history: what r's check under its claims saw, till it is used
  overtaken,       \* history: a claim was taken from a step that went on
  left,            \* history: areas whose live claim a death or a failed call left
  partial,         \* history: runs whose latest reverse diff git cut short
  faults           \* the deaths, outlasted claims and failed calls so far

claims == <<owner, lapsed>>
repo == <<index, unmerged, rev>>
outcome == <<done, undone>>
history == <<checked, overtaken, left, partial>>
vars == <<claims, repo, step, outcome, history, faults>>

\* The areas, in the order of their names.
Areas == 1 .. NumAreas

Diffs == [Areas -> SUBSET Runs]
NoDiff == [a \in Areas |-> {}]

\* Areas(diff): the areas the headers of a reverse diff name.
Named(diff) == {a \in Areas : diff[a] # {}}

First(S) == CHOOSE a \in S : \A b \in S : a <= b
Last(S) == CHOOSE a \in S : \A b \in S : b <= a

Idle == [pc |-> "idle", op |-> "apply", areas |-> {}, got |-> {}, ok |-> FALSE]
At(r, pc) == step[r].pc = pc
Go(r, s) == step' = [step EXCEPT ![r] = s]
To(r, pc) == Go(r, [step[r] EXCEPT !.pc = pc])
\* To the releases, with what the step will report.
Leave(r, ok) == Go(r, [step[r] EXCEPT !.pc = "release", !.ok = ok])
Fault == faults < MaxFaults /\ faults' = faults + 1

Init ==
  /\ owner = [a \in Areas |-> Nobody] /\ lapsed = [a \in Areas |-> FALSE]
  /\ index = NoDiff /\ unmerged = {} /\ rev = [r \in Runs |-> NoDiff]
  /\ step = [r \in Runs |-> Idle]
  /\ done = {} /\ undone = {}
  /\ checked = rev /\ overtaken = FALSE /\ left = {} /\ partial = {}
  /\ faults = 0

-----------------------------------------------------------------------------
(* Claims                                                                  *)

\* Whose step goes on with the claim on a.
Users(a) == {s \in Runs : s = owner[a] /\ a \in step[s].got}

\* No heartbeat is sent during a patch step, so the claims of a step lapse in the
\* order it got them.
Lapse(a) ==
  /\ owner[a] # Nobody /\ ~lapsed[a]
  /\ \A s \in Users(a) : \A b \in step[s].got : b < a /\ owner[b] = s => lapsed[b]
  /\ lapsed' = [lapsed EXCEPT ![a] = TRUE]
  /\ IF Users(a) = {} THEN UNCHANGED faults ELSE Fault
  /\ left' = left \ {a}
  /\ UNCHANGED <<owner, repo, step, outcome, checked, overtaken, partial>>

\* A step starts once the preview of its patch passed: no file of it is unmerged.
Starting(r, op, areas) ==
  /\ At(r, "idle") /\ areas # {}
  /\ Go(r, [pc |-> "acquire", op |-> op, areas |-> areas, got |-> {}, ok |-> FALSE])
  /\ UNCHANGED <<claims, repo, outcome, history, faults>>

\* A failed or interrupted step is started again.
StartApply(r) ==
  /\ r \notin done
  /\ Touches[r] \cap unmerged = {}
  /\ Starting(r, "apply", Touches[r])

\* Mutant: the reverse diff of a step that failed is rolled back.
StartRollbackAny(r) == r \notin undone /\ Starting(r, "rollback", Named(rev[r]))

StartRollback(r) ==
  /\ r \in done \ undone
  /\ Starting(r, "rollback", Named(rev[r]))

\* acquire_claim and takeover_claim, for any owner: a live claim of the run
\* itself, left by a step that died, is refused too.
Available(r, a) == owner[a] = Nobody \/ lapsed[a]

UnderQuota(r) ==
  MaxClaims = 0 \/ Cardinality({a \in Areas : owner[a] = r /\ ~lapsed[a]}) < MaxClaims

\* Mutant: the areas are claimed in the order the patch names them.
NextAreaUnsorted(r) ==
  IF r = CHOOSE s \in Runs : TRUE THEN First(step[r].areas \ step[r].got)
                                  ELSE Last(step[r].areas \ step[r].got)

NextArea(r) == First(step[r].areas \ step[r].got)

\* Mutant: the claim of the first area is enough.
ClaimedFirst(r, got) == got # {}

Claimed(r, got) == got = step[r].areas

\* The claim file is written, over whatever claim was there.
Take(r, a) ==
  /\ owner' = [owner EXCEPT ![a] = r] /\ lapsed' = [lapsed EXCEPT ![a] = FALSE]
  /\ overtaken' = (overtaken \/ Users(a) # {})

\* acquire_claim answers, refuses, or fails: before its claim file is written,
\* or after, and then the claim is not among those the back-off gives back.
Claim(r) ==
  /\ At(r, "acquire")
  /\ LET a == NextArea(r)
         got == step[r].got \cup {a}
         granted == Available(r, a) /\ UnderQuota(r)
     IN \/ /\ granted /\ Take(r, a) /\ left' = left \ {a}
           /\ Go(r, [step[r] EXCEPT !.got = got, !.pc = IF Claimed(r, got) THEN "check"
                                                                ELSE "acquire"])
           /\ UNCHANGED faults
        \/ ~granted /\ To(r, "backoff") /\ UNCHANGED <<claims, overtaken, left, faults>>
        \/ granted /\ Fault /\ Take(r, a) /\ left' = left \cup {a} /\ To(r, "backoff")
        \/ Fault /\ To(r, "backoff") /\ UNCHANGED <<claims, overtaken, left>>
  /\ UNCHANGED <<repo, outcome, checked, partial>>

\* What r's step holds, of what it got.
Live(r) == {a \in step[r].got : owner[a] = r /\ ~lapsed[a]}

Freed(a) == owner' = [owner EXCEPT ![a] = Nobody] /\ lapsed' = [lapsed EXCEPT ![a] = FALSE]

\* Refused, a run gives back what it got, latest first.  The claim of another
\* owner is refused, and a release that fails before it unlinks the claim leaves
\* it: the back-off passes over both.
Backoff(r) ==
  /\ At(r, "backoff")
  /\ IF step[r].got = {}
     THEN Go(r, Idle) /\ UNCHANGED <<claims, left, faults>>
     ELSE LET a == Last(step[r].got) IN
          /\ Go(r, [step[r] EXCEPT !.got = @ \ {a}])
          /\ \/ owner[a] = r /\ Freed(a) /\ UNCHANGED <<left, faults>>
             \/ owner[a] # r /\ UNCHANGED <<claims, left, faults>>
             \/ owner[a] = r /\ Fault /\ left' = left \cup (Live(r) \cap {a}) /\ UNCHANGED claims
  /\ UNCHANGED <<repo, outcome, checked, overtaken, partial>>

\* Mutant: the claims are given back in the order they were got.
NextReleaseOldest(r) == First(step[r].got)

NextRelease(r) == Last(step[r].got)

\* After the patch, the first release that fails ends the step as a failure: one
\* refused because the claim has another owner, or one that failed before or
\* after it unlinked the claim.  The releases that were to follow are not made.
Release(r) ==
  /\ At(r, "release")
  /\ IF step[r].got = {}
     THEN /\ Go(r, Idle) /\ UNCHANGED <<claims, left, faults>>
          /\ done' = IF step[r].ok /\ step[r].op = "apply" THEN done \cup {r} ELSE done
          /\ undone' = IF step[r].ok /\ step[r].op = "rollback" THEN undone \cup {r} ELSE undone
     ELSE LET a == NextRelease(r) IN
          /\ \/ /\ owner[a] = r /\ Freed(a) /\ Go(r, [step[r] EXCEPT !.got = @ \ {a}])
                /\ UNCHANGED <<left, faults>>
             \/ owner[a] # r /\ Go(r, Idle) /\ UNCHANGED <<claims, left, faults>>
             \/ /\ owner[a] = r /\ Fault /\ Go(r, Idle)
                /\ \/ Freed(a) /\ left' = left \cup (Live(r) \ {a})
                   \/ UNCHANGED claims /\ left' = left \cup Live(r)
          /\ UNCHANGED outcome
  /\ UNCHANGED <<repo, checked, overtaken, partial>>

-----------------------------------------------------------------------------
(* git                                                                     *)

\* A rollback refuses changes outside the paths of its reverse diff.
Dirty(a) == index[a] # {} \/ a \in unmerged
Checks(r) ==
  /\ step[r].areas \cap unmerged = {}
  /\ step[r].op = "rollback" => \A a \in Areas \ step[r].areas : ~Dirty(a)

Check(r) ==
  /\ At(r, "check")
  /\ IF Checks(r)
     THEN To(r, "write") /\ checked' = [checked EXCEPT ![r] = index]
     ELSE Leave(r, FALSE) /\ UNCHANGED checked
  /\ UNCHANGED <<claims, repo, outcome, overtaken, left, partial, faults>>

\* The result of a clean apply in area a.
Patched(r, a) == IF step[r].op = "apply" THEN index[a] \cup {r} ELSE index[a] \ rev[r][a]

\* The areas where a three-way apply may conflict: others' patches are there,
\* or, for a rollback, patches its diff does not know.
Contested(r) ==
  {a \in step[r].areas :
     IF step[r].op = "apply" THEN r \notin index[a] /\ index[a] # {}
                             ELSE ~(index[a] \subseteq rev[r][a])}

\* git apply --3way --index, which holds the index for itself; the check with
\* --3way passes on a conflict, and the conflict leaves no .rej files, so the
\* areas stay unmerged.  It may fail for other reasons, and then changes nothing.
Write(r) ==
  /\ At(r, "write")
  /\ \/ /\ step[r].areas \cap unmerged = {}
        /\ \E bad \in SUBSET Contested(r) :
             /\ index' = [a \in Areas |-> IF a \in step[r].areas \ bad THEN Patched(r, a)
                                                                       ELSE index[a]]
             /\ unmerged' = unmerged \cup bad
             /\ IF bad # {} THEN Leave(r, FALSE)
                ELSE IF step[r].op = "apply" THEN To(r, "keep") ELSE Leave(r, TRUE)
     \/ Leave(r, FALSE) /\ UNCHANGED <<index, unmerged>>
  /\ checked' = [checked EXCEPT ![r] = NoDiff]
  /\ UNCHANGED <<claims, rev, outcome, overtaken, left, partial, faults>>

\* Mutant: the reverse diff is kept of the areas nobody else has staged.
StagedAlone(r) == [a \in Areas |-> IF index[a] = {r} THEN {r} ELSE {}]

\* git diff --cached -R: the whole index, not this patch.
Staged(r) == [a \in Areas |-> IF a \in unmerged THEN {} ELSE index[a]]

\* The diff ends in the middle of an area.
Cut(r, cut, part) ==
  [a \in Areas |-> CASE a < cut -> Staged(r)[a]
                     [] a = cut -> Staged(r)[a] \cap part
                     [] OTHER -> {}]

\* Its exit code is not looked at: of a git that fails, whatever it had written by
\* then is kept as the reverse diff.  A command that times out or a diff that
\* cannot be stored fails the step, with the patch staged.
Keep(r) ==
  /\ At(r, "keep")
  /\ \/ /\ rev' = [rev EXCEPT ![r] = Staged(r)] /\ partial' = partial \ {r}
        /\ Leave(r, TRUE)
        /\ UNCHANGED faults
     \/ /\ Fault
        /\ \E cut \in Areas, part \in SUBSET Runs : rev' = [rev EXCEPT ![r] = Cut(r, cut, part)]
        /\ partial' = partial \cup {r}
        /\ Leave(r, TRUE)
     \/ Leave(r, FALSE) /\ UNCHANGED <<rev, partial, faults>>
  /\ UNCHANGED <<claims, index, unmerged, outcome, checked, overtaken, left>>

\* The process dies; its claims stay until they lapse.
Die(r) ==
  /\ ~At(r, "idle") /\ Fault
  /\ left' = left \cup Live(r)
  /\ Go(r, Idle)
  /\ UNCHANGED <<claims, repo, outcome, checked, overtaken, partial>>

Continue(r) ==
  Claim(r) \/ Backoff(r) \/ Release(r) \/ Check(r) \/ Write(r) \/ Keep(r)

Next ==
  \/ \E a \in Areas : Lapse(a)
  \/ \E r \in Runs : StartApply(r) \/ StartRollback(r) \/ Continue(r) \/ Die(r)

Spec == Init /\ [][Next]_vars

\* A step that does not die goes on, a failed one is started again, and time
\* passes.
FairSpec ==
  /\ Spec
  /\ \A r \in Runs : WF_vars(StartApply(r)) /\ WF_vars(Continue(r))
  /\ \A a \in Areas : WF_vars(Lapse(a))

-----------------------------------------------------------------------------
(* Properties                                                              *)

Steps ==
  [pc : {"idle", "acquire", "backoff", "check", "write", "keep", "release"},
   op : {"apply", "rollback"}, areas : SUBSET Areas, got : SUBSET Areas, ok : BOOLEAN]

\* The type of the claims, of the index and of the steps; a step's claims are
\* among its areas.
TypeOK ==
  /\ owner \in [Areas -> Runs \cup {Nobody}] /\ lapsed \in [Areas -> BOOLEAN]
  /\ index \in Diffs /\ unmerged \subseteq Areas /\ rev \in [Runs -> Diffs]
  /\ step \in [Runs -> Steps]
  /\ \A r \in Runs : step[r].got \subseteq step[r].areas
  /\ done \subseteq Runs /\ undone \subseteq done
  /\ checked \in [Runs -> Diffs] /\ overtaken \in BOOLEAN
  /\ left \subseteq Areas /\ partial \subseteq Runs
  /\ faults \in 0..MaxFaults

\* What git writes to is what the check under the claims has seen: as long as no
\* claim is taken from a step that goes on, no other run changes the areas
\* of a step between its check and its apply.
CheckedIsApplied ==
  [][\A r \in Runs : At(r, "write") /\ (index' # index \/ unmerged' # unmerged)
                       /\ step'[r].pc # "write" /\ ~overtaken =>
       \A a \in step[r].areas : index[a] = checked[r][a]]_vars

\* A run between steps has no live claim that its death or a failing call did
\* not leave.  A claim that was taken over ends the releases too, and leaves none:
\* they go from the claim that lapses last to the one that lapses first.
ClaimsSettled ==
  \A r \in Runs : At(r, "idle") => \A a \in Areas : owner[a] = r => lapsed[a] \/ a \in left

\* An apply that was reported a success left a reverse diff that undoes its patch
\* in every area, unless git failed while it wrote that diff: though the diff is
\* taken from the index by a later command, and an earlier attempt may have died
\* between the two.
Undoable ==
  ~overtaken => \A r \in done \ partial : \A a \in Touches[r] : r \in rev[r][a]

\* A rollback takes out the patch of the run that asked for it, and no other.
RollbackUndoesOwn ==
  [][\A a \in Areas : \A s \in index[a] \ index'[a] :
       At(s, "write") /\ step[s].op = "rollback"]_vars

\* No conflict is left in the index once the steps are over.
ConflictsCleaned == (\A r \in Runs : At(r, "idle")) => unmerged = {}

\* Runs that refuse each other and are started again do not go on like that for
\* ever: the sorted order lets one of them through each time, until all
\* are done or a conflict blocks the index.
SomeoneServed ==
  []<>(done = Runs \/ unmerged # {} \/ \E r \in Runs : At(r, "check"))
=============================================================================

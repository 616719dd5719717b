------------------------ MODULE PatchOwnershipProofs ------------------------
(***************************************************************************)
(* What the claims of the patch steps guarantee, for any runs, areas,      *)
(* patches, quota and number of faults.                                    *)
(***************************************************************************)
EXTENDS PatchOwnership, InductionLemmas, TLAPS

-----------------------------------------------------------------------------
(* First and Last                                                          *)

\* First is the least area of a set.
LEMMA FirstArea ==
  ASSUME NEW S \in SUBSET Areas, S # {}
  PROVE  First(S) \in S /\ \A b \in S : First(S) <= b
<1>1. \E a \in S : \A b \in S : a <= b
  BY LeastElement DEF Areas
<1> QED
  BY <1>1 DEF First

\* Last is the greatest.
LEMMA LastArea ==
  ASSUME NEW S \in SUBSET Areas, S # {}
  PROVE  Last(S) \in S /\ \A b \in S : b <= Last(S)
<1>1. S \in SUBSET (0 .. NumAreas)
  BY DEF Areas
<1>2. \E a \in S : \A b \in S : b <= a
  BY <1>1, GreatestElement, PatchAssumption
<1> QED
  BY <1>2 DEF Last

-----------------------------------------------------------------------------
(* The invariant                                                           *)

\* Where a step is says what it has: a patch is applied by a run that has not
\* yet, and rolled back by one that has; git is called with all claims got, and
\* until then they are got in order.
StepSound(r) ==
  /\ ~At(r, "idle") =>
       /\ step[r].op = "apply" => r \notin done /\ step[r].areas = Touches[r]
       /\ step[r].op = "rollback" => r \in done
  /\ step[r].pc \in {"check", "write", "keep"} => step[r].got = step[r].areas
  /\ At(r, "keep") => step[r].op = "apply"
  /\ step[r].ok => At(r, "release")
  /\ At(r, "idle") => step[r].got = {}
  /\ At(r, "acquire") =>
       /\ step[r].got # step[r].areas
       /\ \A b \in step[r].got, c \in step[r].areas \ step[r].got : b < c

\* The claims of a step lapse in the order it got them.
LapsesInOrder ==
  \A s \in Runs : \A a, b \in step[s].got :
    b < a /\ (owner[a] # s \/ lapsed[a]) /\ owner[b] = s => lapsed[b]

\* A live claim is in the hands of a step, or was left by one.
LiveIsHeld ==
  \A a \in Areas : owner[a] \in Runs /\ ~lapsed[a] => a \in step[owner[a]].got \cup left

\* Nobody has taken a claim from a step.
HandlesGood == ~overtaken => \A s \in Runs : \A a \in step[s].got : owner[a] = s

\* The index between check, write and reverse diff.
WriteSound(r) ==
  ~overtaken /\ At(r, "write") => \A a \in step[r].areas : index[a] = checked[r][a]
KeepSound(r) ==
  ~overtaken /\ At(r, "keep") => \A a \in step[r].areas : r \in index[a] /\ a \notin unmerged
DiffSound(r) ==
  ~overtaken /\ r \notin partial /\ (r \in done \/ (step[r].ok /\ step[r].op = "apply")) =>
    \A a \in Touches[r] : r \in rev[r][a]

ClaimInv == /\ \A r \in Runs : StepSound(r)
            /\ LapsesInOrder /\ LiveIsHeld /\ HandlesGood
DiffInv == \A r \in Runs : WriteSound(r) /\ KeepSound(r) /\ DiffSound(r)

-----------------------------------------------------------------------------
(* Steps                                                                   *)

LEMMA InitInv == Init => TypeOK /\ ClaimInv /\ DiffInv
<1> SUFFICES ASSUME Init PROVE TypeOK /\ ClaimInv /\ DiffInv
  OBVIOUS
<1> USE PatchAssumption DEF Init, Idle, At, NoDiff
<1>1. TypeOK
  <2>1. Idle \in Steps /\ NoDiff \in Diffs
    BY DEF Steps, Diffs
  <2>2. \A r \in Runs : step[r].got \subseteq step[r].areas
    OBVIOUS
  <2>3. /\ step \in [Runs -> Steps] /\ index \in Diffs
        /\ rev \in [Runs -> Diffs] /\ checked \in [Runs -> Diffs]
    <3> HIDE DEF Idle, NoDiff
    <3> QED BY <2>1
  <2>4. /\ owner \in [Areas -> Runs \cup {Nobody}] /\ lapsed \in [Areas -> BOOLEAN]
        /\ overtaken \in BOOLEAN
    BY Zenon
  <2>5. /\ unmerged \subseteq Areas /\ done \subseteq Runs /\ undone \subseteq done
        /\ left \subseteq Areas /\ partial \subseteq Runs /\ faults \in 0 .. MaxFaults
    OBVIOUS
  <2> HIDE DEF Init, Idle, At, NoDiff
  <2> QED
    BY <2>2, <2>3, <2>4, <2>5 DEF TypeOK
<1>2. ClaimInv
  BY DEF ClaimInv, StepSound, LapsesInOrder, LiveIsHeld, HandlesGood
<1>3. DiffInv
  BY DEF DiffInv, WriteSound, KeepSound, DiffSound
<1> QED
  BY <1>1, <1>2, <1>3

\* A step takes the next of its areas.
LEMMA NextAreaSound ==
  ASSUME TypeOK, ClaimInv, NEW r \in Runs, At(r, "acquire")
  PROVE  /\ NextArea(r) \in step[r].areas \ step[r].got
         /\ \A c \in step[r].areas \ step[r].got : NextArea(r) <= c
<1>1. /\ step[r].areas \ step[r].got \in SUBSET Areas
      /\ step[r].areas \ step[r].got # {}
  BY DEF TypeOK, Steps, ClaimInv, StepSound
<1> QED
  BY <1>1, FirstArea DEF NextArea

LEMMA NextReleaseSound ==
  ASSUME TypeOK, NEW r \in Runs, step[r].got # {}
  PROVE  /\ Last(step[r].got) \in step[r].got
         /\ \A b \in step[r].got : b <= Last(step[r].got)
<1>1. step[r].got \in SUBSET Areas
  BY DEF TypeOK, Steps
<1> QED
  BY <1>1, LastArea

\* A handler changes the step of its run and no other.
LEMMA StepGoes ==
  ASSUME TypeOK, NEW r \in Runs, NEW s \in Steps, s.got \subseteq s.areas, Go(r, s)
  PROVE  /\ step' \in [Runs -> Steps]
         /\ step'[r] = s
         /\ \A q \in Runs \ {r} : step'[q] = step[q]
         /\ \A q \in Runs : step'[q].got \subseteq step'[q].areas
BY DEF TypeOK, Go

LEMMA NoDiffIsADiff == NoDiff \in Diffs
BY DEF NoDiff, Diffs

LEMMA StepType ==
  ASSUME TypeOK, ClaimInv, [Next]_vars
  PROVE  TypeOK'
<1> USE PatchAssumption DEF TypeOK, At
<1> Idle \in Steps /\ Idle.got = {} /\ Idle.areas = {}
  BY DEF Idle, Steps
<1> DEFINE Gone(r, s) == s \in Steps /\ s.got \subseteq s.areas /\ Go(r, s)
<1>0. ASSUME NEW r \in Runs, NEW s, Gone(r, s)
      PROVE step' \in [Runs -> Steps] /\ \A q \in Runs : step'[q].got \subseteq step'[q].areas
  BY <1>0, StepGoes
<1>00. (Fault => faults' \in 0 .. MaxFaults) /\ \A r \in Runs : Live(r) \subseteq Areas
  BY DEF Fault, Live, Steps
<1>1. ASSUME NEW a \in Areas, Lapse(a) PROVE TypeOK'
  BY <1>1, <1>00 DEF Lapse, claims, repo, outcome
<1>2. ASSUME NEW r \in Runs, StartApply(r) PROVE TypeOK'
  BY <1>2 DEF StartApply, Starting, Steps, Go, Areas, claims, repo, outcome, history
<1>3. ASSUME NEW r \in Runs, StartRollback(r) PROVE TypeOK'
  BY <1>3 DEF StartRollback, Starting, Named, Steps, Go, claims, repo, outcome, history
<1>4. ASSUME NEW r \in Runs, Claim(r) PROVE TypeOK'
  <2>1. NextArea(r) \in step[r].areas
    BY <1>4, NextAreaSound DEF Claim
  <2> DEFINE got == step[r].got \cup {NextArea(r)}
             pc == IF Claimed(r, got) THEN "check" ELSE "acquire"
             more == [step[r] EXCEPT !.got = got, !.pc = pc]
             back == [step[r] EXCEPT !.pc = "backoff"]
  <2>a. Go(r, more) \/ Go(r, back)
    BY <1>4 DEF Claim, To
  <2>b. got \in SUBSET Areas /\ got \subseteq step[r].areas /\ pc \in {"check", "acquire"}
    BY <2>1 DEF Steps
  <2>c. more \in Steps /\ more.got \subseteq more.areas
    <3> HIDE DEF got, pc
    <3> QED BY <2>b DEF Steps
  <2>d. back \in Steps /\ back.got \subseteq back.areas
    BY DEF Steps
  <2>2. \E s : Gone(r, s)
    BY <2>a, <2>c, <2>d
  <2> HIDE DEF Gone
  <2>3. step' \in [Runs -> Steps] /\ \A q \in Runs : step'[q].got \subseteq step'[q].areas
    BY <2>2, <1>0
  <2>5. NextArea(r) \in Areas
    BY <2>1 DEF Steps
  <2> QED
    BY <1>4, <1>00, <2>3, <2>5 DEF Claim, Take, claims, repo, outcome
<1>5. ASSUME NEW r \in Runs, Backoff(r) PROVE TypeOK'
  <2>1. \E s : Gone(r, s)
    BY <1>5 DEF Backoff, Steps
  <2> HIDE DEF Gone
  <2>2. step' \in [Runs -> Steps] /\ \A q \in Runs : step'[q].got \subseteq step'[q].areas
    BY <2>1, <1>0
  <2> QED
    BY <1>5, <1>00, <2>2 DEF Backoff, Freed, claims, repo, outcome
<1>6. ASSUME NEW r \in Runs, Release(r) PROVE TypeOK'
  <2>1. \E s : Gone(r, s)
    BY <1>6 DEF Release, Steps
  <2> HIDE DEF Gone
  <2>2. step' \in [Runs -> Steps] /\ \A q \in Runs : step'[q].got \subseteq step'[q].areas
    BY <2>1, <1>0
  <2>3. done' \subseteq Runs /\ undone' \subseteq done'
    BY <1>6 DEF Release, outcome, ClaimInv, StepSound
  <2> QED
    BY <1>6, <1>00, <2>2, <2>3 DEF Release, Freed, claims, repo
<1>7. ASSUME NEW r \in Runs, Check(r) PROVE TypeOK'
  <2>1. \E s : Gone(r, s)
    BY <1>7 DEF Check, To, Leave, Steps
  <2> HIDE DEF Gone
  <2>2. step' \in [Runs -> Steps] /\ \A q \in Runs : step'[q].got \subseteq step'[q].areas
    BY <2>1, <1>0
  <2> QED
    BY <1>7, <2>2 DEF Check, Leave, To, claims, repo, outcome
<1>8. ASSUME NEW r \in Runs, Write(r) PROVE TypeOK'
  <2>1. \E s : Gone(r, s)
    BY <1>8 DEF Write, To, Leave, Steps
  <2> HIDE DEF Gone
  <2>2. step' \in [Runs -> Steps] /\ \A q \in Runs : step'[q].got \subseteq step'[q].areas
    BY <2>1, <1>0
  <2>3. \A a \in Areas : Patched(r, a) \in SUBSET Runs
    BY DEF Patched, Diffs
  <2>4. Contested(r) \subseteq Areas
    BY DEF Contested, Steps
  <2>5. index' \in Diffs
    <3>1. CASE index' = index
      BY <3>1
    <3>2. CASE \E bad : index' = [a \in Areas |-> IF a \in step[r].areas \ bad
                                                THEN Patched(r, a) ELSE index[a]]
      BY <3>2, <2>3 DEF Diffs
    <3> QED
      BY <1>8, <3>1, <3>2 DEF Write
  <2>6. unmerged' \subseteq Areas
    BY <1>8, <2>4 DEF Write
  <2> QED
    BY <1>8, <2>2, <2>5, <2>6, NoDiffIsADiff DEF Write, claims, outcome
<1>9. ASSUME NEW r \in Runs, Keep(r) PROVE TypeOK'
  <2>1. \E s : Gone(r, s)
    BY <1>9 DEF Keep, Leave, Steps
  <2> HIDE DEF Gone
  <2>2. step' \in [Runs -> Steps] /\ \A q \in Runs : step'[q].got \subseteq step'[q].areas
    BY <2>1, <1>0
  <2>3. rev' \in [Runs -> Diffs]
    <3>1. Staged(r) \in Diffs
      BY DEF Staged, Diffs
    <3>2. ASSUME NEW d \in Diffs, rev' = [rev EXCEPT ![r] = d] PROVE rev' \in [Runs -> Diffs]
      BY <3>2
    <3>3. \A cut \in Areas, part \in SUBSET Runs : Cut(r, cut, part) \in Diffs
      BY <3>1 DEF Cut, Diffs
    <3> QED
      BY <1>9, <3>1, <3>2, <3>3 DEF Keep
  <2> QED
    BY <1>9, <1>00, <2>2, <2>3 DEF Keep, claims, outcome
<1>10. ASSUME NEW r \in Runs, Die(r) PROVE TypeOK'
  BY <1>10, <1>00 DEF Die, Go, claims, repo, outcome
<1>11. CASE UNCHANGED vars
  BY <1>11 DEF vars, claims, repo, outcome, history
<1> QED
  BY <1>1, <1>2, <1>3, <1>4, <1>5, <1>6, <1>7, <1>8, <1>9, <1>10, <1>11 DEF Next, Continue

\* A step that gives claims up keeps the order, and leaves no live claim that is
\* not among those left, whether or not one of its claims is freed.
LEMMA GivesUp ==
  ASSUME TypeOK, ClaimInv, NEW r \in Runs, NEW a,
         \A q \in Runs \ {r} : step'[q] = step[q],
         step'[r].got \subseteq step[r].got,
         UNCHANGED claims \/ (owner[a] = r /\ a \notin step'[r].got /\ Freed(a)),
         left \subseteq left', overtaken' = overtaken,
         \A b \in step[r].got \ step'[r].got : owner'[b] = r => lapsed'[b] \/ b \in left'
  PROVE  LapsesInOrder' /\ LiveIsHeld' /\ HandlesGood'
<1> USE PatchAssumption DEF ClaimInv
<1>1. \A q \in Runs : step'[q].got \subseteq step[q].got /\ step[q].got \subseteq Areas
  BY DEF TypeOK, Steps
<1>2. ASSUME NEW b \in Areas
      PROVE  \/ owner'[b] = owner[b] /\ lapsed'[b] = lapsed[b]
             \/ owner[b] = r /\ owner'[b] = Nobody /\ b \notin step'[r].got
  BY DEF Freed, claims, TypeOK
<1>3. LapsesInOrder'
  <2> SUFFICES ASSUME NEW s \in Runs, NEW c \in step'[s].got, NEW b \in step'[s].got,
                      b < c, owner'[c] # s \/ lapsed'[c], owner'[b] = s
               PROVE  lapsed'[b]
    BY DEF LapsesInOrder
  <2>1. c \in step[s].got /\ b \in step[s].got /\ c \in Areas /\ b \in Areas
    BY <1>1
  <2>2. owner[b] = s /\ lapsed'[b] = lapsed[b]
    BY <2>1, <1>2
  <2>3. owner[c] # s \/ lapsed[c]
    BY <2>1, <1>2
  <2> QED
    BY <2>1, <2>2, <2>3 DEF LapsesInOrder
<1>4. HandlesGood'
  <2> SUFFICES ASSUME ~overtaken', NEW s \in Runs, NEW b \in step'[s].got
               PROVE  owner'[b] = s
    BY DEF HandlesGood
  <2>1. b \in Areas /\ owner[b] = s
    BY <1>1 DEF HandlesGood
  <2> QED
    BY <2>1, <1>2
<1>5. LiveIsHeld'
  <2> SUFFICES ASSUME NEW b \in Areas, owner'[b] \in Runs, ~lapsed'[b]
               PROVE  b \in step'[owner'[b]].got \cup left'
    BY DEF LiveIsHeld
  <2>1. owner'[b] = owner[b] /\ lapsed'[b] = lapsed[b]
    BY <1>2
  <2>2. b \in step[owner[b]].got \cup left
    BY <2>1 DEF LiveIsHeld
  <2> QED
    BY <2>1, <2>2
<1> QED
  BY <1>3, <1>4, <1>5

LEMMA StepClaims ==
  ASSUME TypeOK, ClaimInv, [Next]_vars
  PROVE  ClaimInv'
<1> USE PatchAssumption DEF ClaimInv
<1> Idle \in Steps /\ Idle.got = {} /\ Idle.pc = "idle" /\ ~Idle.ok
  BY DEF Idle, Steps
<1>1. ASSUME NEW a \in Areas, Lapse(a) PROVE ClaimInv'
  <2>1. /\ step' = step /\ owner' = owner /\ done' = done /\ overtaken' = overtaken
        /\ lapsed' = [lapsed EXCEPT ![a] = TRUE] /\ left' = left \ {a}
        /\ \A s \in Users(a) : \A b \in step[s].got : b < a /\ owner[b] = s => lapsed[b]
    BY <1>1 DEF Lapse, repo, outcome
  <2>2. \A b \in Areas : lapsed[b] => lapsed'[b]
    BY <2>1 DEF TypeOK
  <2>3. (\A r \in Runs : StepSound(r))' /\ HandlesGood'
    BY <2>1 DEF StepSound, At, HandlesGood
  <2>4. LapsesInOrder'
    <3> SUFFICES ASSUME NEW s \in Runs, NEW c \in step[s].got, NEW b \in step[s].got,
                        b < c, owner[c] # s \/ lapsed'[c], owner[b] = s
                 PROVE  lapsed'[b]
      BY <2>1 DEF LapsesInOrder
    <3> c \in Areas /\ b \in Areas
      BY DEF TypeOK, Steps
    <3>1. CASE owner[c] # s \/ lapsed[c]
      BY <3>1, <2>2 DEF LapsesInOrder
    <3>2. CASE owner[c] = s /\ ~lapsed[c]
      <4>1. c = a
        BY <3>2, <2>1 DEF TypeOK
      <4> QED
        BY <4>1, <3>2, <2>1, <2>2 DEF Users
    <3> QED
      BY <3>1, <3>2
  <2>5. LiveIsHeld'
    BY <2>1, <2>2 DEF LiveIsHeld, TypeOK
  <2> QED
    BY <2>3, <2>4, <2>5
<1>2. ASSUME NEW r \in Runs, StartApply(r) \/ StartRollback(r) PROVE ClaimInv'
  <2>1. \E op \in {"apply", "rollback"}, areas \in SUBSET Areas :
          /\ op = "apply" => r \notin done /\ areas = Touches[r]
          /\ op = "rollback" => r \in done
          /\ Starting(r, op, areas)
    BY <1>2 DEF StartApply, StartRollback, Named, Areas
  <2>2. PICK op \in {"apply", "rollback"}, areas \in SUBSET Areas :
          /\ op = "apply" => r \notin done /\ areas = Touches[r]
          /\ op = "rollback" => r \in done
          /\ Starting(r, op, areas)
    BY <2>1
  <2> DEFINE n == [pc |-> "acquire", op |-> op, areas |-> areas, got |-> {}, ok |-> FALSE]
  <2>3. /\ Go(r, n) /\ areas # {} /\ At(r, "idle") /\ UNCHANGED <<claims, done, overtaken, left>>
    BY <2>2 DEF Starting, outcome, history
  <2>4. /\ step'[r] = n /\ \A q \in Runs \ {r} : step'[q] = step[q]
    <3>1. n \in Steps /\ n.got \subseteq n.areas
      BY DEF Steps
    <3> QED
      BY <2>3, <3>1, StepGoes
  <2>5. (\A q \in Runs : StepSound(q))'
    BY <2>2, <2>3, <2>4 DEF StepSound, At
  <2>6. step[r].got = {}
    BY <2>3 DEF StepSound, At
  <2>7. \A q \in Runs : step'[q].got = step[q].got
    <3>1. step'[r].got = {}
      BY <2>4
    <3> HIDE DEF n
    <3> QED
      BY <3>1, <2>4, <2>6
  <2>8. LapsesInOrder' /\ LiveIsHeld' /\ HandlesGood'
    BY <2>3, <2>7 DEF LapsesInOrder, LiveIsHeld, HandlesGood, claims
  <2> QED
    BY <2>5, <2>8
<1>3. ASSUME NEW r \in Runs, Claim(r) PROVE ClaimInv'
  <2> DEFINE a == NextArea(r)
             got == step[r].got \cup {a}
             pc == IF Claimed(r, got) THEN "check" ELSE "acquire"
             more == [step[r] EXCEPT !.got = got, !.pc = pc]
  <2>1. a \in step[r].areas \ step[r].got /\ \A c \in step[r].areas \ step[r].got : a <= c
    BY <1>3, NextAreaSound DEF Claim
  <2>2. step[r].areas \subseteq Areas /\ step[r].got \subseteq step[r].areas
    BY DEF TypeOK, Steps
  <2>3. CASE To(r, "backoff") /\ UNCHANGED <<claims, overtaken, left>>
    <3>1. /\ step'[r] = [step[r] EXCEPT !.pc = "backoff"]
          /\ \A q \in Runs \ {r} : step'[q] = step[q]
      <4> DEFINE n == [step[r] EXCEPT !.pc = "backoff"]
      <4>1. n \in Steps /\ n.got \subseteq n.areas
        BY DEF TypeOK, Steps
      <4> QED
        BY <2>2, <2>3, <4>1, StepGoes DEF To
    <3>2. done' = done
      BY <1>3 DEF Claim, outcome
    <3>3. \A q \in Runs : step'[q].got = step[q].got
      BY <3>1 DEF TypeOK, Steps
    <3>4. (\A q \in Runs : StepSound(q))'
      BY <3>1, <3>2, <1>3 DEF StepSound, At, Claim, TypeOK, Steps
    <3> QED
      BY <2>3, <3>2, <3>3, <3>4 DEF LapsesInOrder, LiveIsHeld, HandlesGood, claims
  <2>4. CASE /\ Available(r, a) /\ Take(r, a)
             /\ \/ Go(r, more) /\ left' = left \ {a}
                \/ To(r, "backoff") /\ left' = left \cup {a}
    <3>1. got \in SUBSET Areas /\ got \subseteq step[r].areas /\ pc \in {"check", "acquire"}
      BY <2>1, <2>2
    <3> DEFINE back == [step[r] EXCEPT !.pc = "backoff"]
    <3>2. \A q \in Runs \ {r} : step'[q] = step[q]
      BY <2>4 DEF Go, To, TypeOK
    <3>4. done' = done
      BY <1>3 DEF Claim, outcome
    <3>5. At(r, "acquire") /\ pc = (IF got = step[r].areas THEN "check" ELSE "acquire")
      BY <1>3 DEF Claim, Claimed
    <3>a. ASSUME Go(r, more)
          PROVE  /\ step'[r].got = got /\ step'[r].pc = pc /\ step'[r].areas = step[r].areas
                 /\ step'[r].op = step[r].op /\ step'[r].ok = step[r].ok
      <4>1. more \in Steps /\ more.got \subseteq more.areas
        <5> HIDE DEF got, pc
        <5> QED BY <3>1 DEF TypeOK, Steps
      <4>2. step'[r] = more
        BY <3>a, <4>1, StepGoes
      <4> HIDE DEF got, pc
      <4> QED BY <4>2 DEF TypeOK, Steps
    <3>b. ASSUME To(r, "backoff")
          PROVE  /\ step'[r].got = step[r].got /\ step'[r].pc = "backoff"
                 /\ step'[r].areas = step[r].areas
                 /\ step'[r].op = step[r].op /\ step'[r].ok = step[r].ok
      BY <3>b DEF To, Go, TypeOK, Steps
    <3>3. /\ step'[r].got \subseteq got /\ step[r].got \subseteq step'[r].got
          /\ a \in step'[r].got \cup left' /\ left \subseteq left' \cup {a}
      <4> HIDE DEF got, pc, more, a
      <4>1. step[r].got \subseteq got /\ a \in got
        BY DEF got
      <4> QED
        BY <2>4, <3>a, <3>b, <4>1
    <3>6. (\A q \in Runs : StepSound(q))'
      <4>1. ASSUME NEW q \in Runs \ {r} PROVE StepSound(q)'
        BY <3>2, <3>4 DEF StepSound, At
      <4>2. StepSound(r)'
        <5>1. /\ step[r].op = "apply" => r \notin done' /\ step[r].areas = Touches[r]
              /\ step[r].op = "rollback" => r \in done' /\ ~step[r].ok
          BY <3>4, <3>5 DEF StepSound, At
        <5>2. ~step[r].ok
          BY <3>5 DEF StepSound, At
        <5>3. \A b \in got, c \in step[r].areas \ got : b < c
          BY <2>1, <2>2, <3>5 DEF StepSound, Areas
        <5>4. CASE Go(r, more)
          <6> HIDE DEF got, pc
          <6> QED
            BY <5>4, <3>a, <3>5, <5>1, <5>2, <5>3 DEF StepSound, At
        <5>5. CASE To(r, "backoff")
          BY <5>5, <3>b, <5>1, <5>2 DEF StepSound, At
        <5> QED
          BY <2>4, <5>4, <5>5
      <4> QED
        BY <4>1, <4>2
    <3>7. a \in Areas /\ a \notin step[r].got
      BY <2>1, <2>2
    <3>8. \A b \in step[r].got : b < a
      BY <2>1, <3>5 DEF StepSound
    <3>9. /\ owner'[a] = r /\ ~lapsed'[a]
          /\ \A b \in Areas \ {a} : owner'[b] = owner[b] /\ lapsed'[b] = lapsed[b]
      BY <2>4, <3>7 DEF TypeOK, Take
    <3>10. owner[a] # Nobody => lapsed[a]
      BY <2>4 DEF Available
    <3>11. LapsesInOrder'
      <4> SUFFICES ASSUME NEW s \in Runs, NEW c \in step'[s].got, NEW b \in step'[s].got,
                          b < c, owner'[c] # s \/ lapsed'[c], owner'[b] = s
                   PROVE  lapsed'[b]
        BY DEF LapsesInOrder
      <4>1. c \in Areas /\ b \in Areas
        BY <3>1, <3>2, <3>3 DEF TypeOK, Steps
      <4>2. CASE s = r
        <5>1. c # a
          BY <4>2, <3>9
        <5>2. c \in step[r].got /\ b \in step[r].got
          BY <4>2, <5>1, <3>3, <3>8, <4>1 DEF Areas
        <5> QED
          BY <4>1, <4>2, <5>2, <3>7, <3>9 DEF LapsesInOrder
      <4>3. CASE s # r
        <5>1. c \in step[s].got /\ b \in step[s].got /\ b # a
          BY <4>3, <3>2, <3>9
        <5>2. owner[c] # s \/ lapsed[c]
          BY <4>1, <4>3, <3>9, <3>10, PatchAssumption
        <5> QED
          BY <4>1, <5>1, <5>2, <3>9 DEF LapsesInOrder
      <4> QED
        BY <4>2, <4>3
    <3>12. LiveIsHeld'
      <4> SUFFICES ASSUME NEW b \in Areas, owner'[b] \in Runs, ~lapsed'[b]
                   PROVE  b \in step'[owner'[b]].got \cup left'
        BY DEF LiveIsHeld
      <4>1. CASE b = a
        BY <4>1, <3>9, <3>3
      <4>2. CASE b # a
        <5>1. owner'[b] = owner[b] /\ b \in step[owner[b]].got \cup left
          BY <4>2, <3>9 DEF LiveIsHeld
        <5>2. step[owner[b]].got \subseteq step'[owner[b]].got
          BY <5>1, <3>2, <3>3
        <5> QED
          BY <5>1, <5>2, <4>2, <3>3
      <4> QED
        BY <4>1, <4>2
    <3>13. HandlesGood'
      <4> SUFFICES ASSUME ~overtaken', NEW s \in Runs, NEW b \in step'[s].got
                   PROVE  owner'[b] = s
        BY DEF HandlesGood
      <4>1. ~overtaken /\ Users(a) = {}
        BY <2>4 DEF TypeOK, Take
      <4>2. CASE s = r /\ b = a
        BY <4>2, <3>9
      <4>3. CASE ~(s = r /\ b = a)
        <5>1. b \in step[s].got
          <6>1. CASE s # r
            BY <6>1, <3>2
          <6>2. CASE s = r
            BY <6>2, <4>3, <3>3
          <6> QED
            BY <6>1, <6>2
        <5>2. b \in Areas /\ owner[b] = s
          BY <4>1, <5>1 DEF HandlesGood, TypeOK, Steps
        <5>3. b # a
          BY <4>1, <5>1, <5>2 DEF Users
        <5> QED
          BY <5>2, <5>3, <3>9
      <4> QED
        BY <4>2, <4>3
    <3> QED
      BY <3>6, <3>11, <3>12, <3>13
  <2> QED
    BY <1>3, <2>3, <2>4 DEF Claim
<1>4. ASSUME NEW r \in Runs, Backoff(r) \/ Release(r) PROVE ClaimInv'
  <2> DEFINE less(a) == [step[r] EXCEPT !.got = @ \ {a}]
             Passed(a) == /\ a \in step[r].got /\ Go(r, less(a))
                          /\ \/ owner[a] = r /\ Freed(a) /\ left' = left
                             \/ owner[a] # r /\ UNCHANGED <<claims, left>>
                             \/ UNCHANGED claims /\ left' = left \cup (Live(r) \cap {a})
             Over(a) == /\ Go(r, Idle)
                        /\ \/ owner[a] = r /\ Freed(a) /\ left' = left \cup (Live(r) \ {a})
                           \/ UNCHANGED claims /\ left' = left \cup Live(r)
                           \/ /\ UNCHANGED <<claims, left>>
                              /\ \A b \in step[r].got : owner[b] = r => lapsed[b]
  <2>1. \E a : Over(a) \/ Passed(a)
    <3>1. CASE step[r].got = {}
      BY <1>4, <3>1 DEF Backoff, Release
    <3>2. CASE step[r].got # {}
      <4> DEFINE a == Last(step[r].got)
      <4>1. a \in step[r].got /\ \A b \in step[r].got : b <= a
        BY <3>2, NextReleaseSound
      <4>2. a \in Areas /\ step[r].got \subseteq Areas
        BY <4>1 DEF TypeOK, Steps
      <4>3. \/ Passed(a) \/ Over(a)
            \/ Go(r, Idle) /\ UNCHANGED <<claims, left>> /\ owner[a] # r
        BY <1>4, <3>2, <4>1 DEF Backoff, Release, NextRelease
      <4>4. owner[a] # r => \A b \in step[r].got : owner[b] = r => lapsed[b]
        <5> SUFFICES ASSUME owner[a] # r, NEW b \in step[r].got, owner[b] = r PROVE lapsed[b]
          OBVIOUS
        <5>1. b < a
          BY <4>1, <4>2 DEF Areas
        <5> HIDE DEF a
        <5> QED
          BY <4>1, <5>1 DEF LapsesInOrder
      <4> HIDE DEF a
      <4> QED
        BY <4>3, <4>4
    <3> QED
      BY <3>1, <3>2
  <2>2. /\ overtaken' = overtaken
        /\ done \subseteq done' /\ done' \subseteq done \cup {r}
        /\ done' # done => Go(r, Idle)
    BY <1>4 DEF Backoff, Release, outcome
  <2>3. /\ step[r].pc \in {"backoff", "release"} /\ (step[r].ok => At(r, "release"))
        /\ step[r].got \subseteq step[r].areas /\ step[r].areas \subseteq Areas
    BY <1>4 DEF Backoff, Release, At, StepSound, TypeOK, Steps
  <2>4. ASSUME NEW a, Over(a) PROVE ClaimInv'
    <3>1. step'[r] = Idle /\ \A q \in Runs \ {r} : step'[q] = step[q]
      BY <2>4, StepGoes DEF Idle
    <3>2. (\A q \in Runs : StepSound(q))'
      BY <3>1, <2>2 DEF StepSound, At
    <3>3. \A b \in step[r].got \ step'[r].got : owner'[b] = r => lapsed'[b] \/ b \in left'
      BY <2>3, <2>4 DEF Live, Freed, claims, TypeOK
    <3>4. LapsesInOrder' /\ LiveIsHeld' /\ HandlesGood'
      BY <2>2, <2>4, <3>1, <3>3, GivesUp
    <3> QED
      BY <3>2, <3>4
  <2>5. ASSUME NEW a, Passed(a) PROVE ClaimInv'
    <3> DEFINE n == less(a)
    <3>1. /\ n \in Steps /\ n.got \subseteq n.areas
          /\ n.got = step[r].got \ {a} /\ n.pc = step[r].pc /\ n.op = step[r].op
          /\ n.ok = step[r].ok /\ n.areas = step[r].areas
      BY <2>3 DEF TypeOK, Steps
    <3>2. step'[r] = n /\ \A q \in Runs \ {r} : step'[q] = step[q]
      BY <2>5, <3>1, StepGoes
    <3>3. n # Idle
      BY <3>1, <2>3 DEF Idle
    <3>4. done' = done
      BY <3>2, <3>3, <2>2, StepGoes DEF Idle, Steps
    <3>5. (\A q \in Runs : StepSound(q))'
      <4> HIDE DEF n
      <4> QED BY <3>1, <3>2, <3>4, <2>3 DEF StepSound, At
    <3>6. step'[r].got = step[r].got \ {a} /\ a \in Areas
      BY <2>3, <2>5, <3>1, <3>2
    <3>7. owner'[a] = r => lapsed'[a] \/ a \in left'
      BY <2>5, <3>6 DEF Live, Freed, claims, TypeOK
    <3>8. UNCHANGED claims \/ (owner[a] = r /\ a \notin step'[r].got /\ Freed(a))
      BY <2>5, <3>6
    <3>9. LapsesInOrder' /\ LiveIsHeld' /\ HandlesGood'
      <4>1. left \subseteq left'
        BY <2>5
      <4> HIDE DEF n, less, Passed
      <4> QED BY <2>2, <3>2, <3>6, <3>7, <3>8, <4>1, GivesUp
    <3> QED
      BY <3>5, <3>9
  <2> QED
    BY <2>1, <2>4, <2>5
<1>5. ASSUME NEW r \in Runs, Check(r) \/ Write(r) \/ Keep(r) PROVE ClaimInv'
  <2>1. /\ UNCHANGED <<claims, done, overtaken, left>> /\ step[r].pc \in {"check", "write", "keep"}
        /\ \/ Leave(r, TRUE) \/ Leave(r, FALSE)
           \/ To(r, "write")
           \/ To(r, "keep") /\ step[r].op = "apply"
    BY <1>5 DEF Check, Write, Keep, At, outcome
  <2> DEFINE Moved(n) == /\ n \in Steps /\ Go(r, n) /\ n.got = step[r].got /\ n.areas = step[r].areas
                         /\ n.op = step[r].op /\ n.pc \in {"write", "keep", "release"}
                         /\ n.ok => n.pc = "release"
                         /\ n.pc = "keep" => n.op = "apply"
  <2>2. step[r] \in Steps /\ ~step[r].ok /\ step[r].got = step[r].areas
    BY <2>1 DEF TypeOK, StepSound, At
  <2> DEFINE to(pc) == [step[r] EXCEPT !.pc = pc]
             leave(ok) == [step[r] EXCEPT !.pc = "release", !.ok = ok]
  <2>a. \A ok \in BOOLEAN : Leave(r, ok) => Moved(leave(ok))
    BY <2>2 DEF Leave, Steps
  <2>b. To(r, "write") => Moved(to("write"))
    BY <2>2 DEF To, Steps
  <2>c. To(r, "keep") /\ step[r].op = "apply" => Moved(to("keep"))
    BY <2>2 DEF To, Steps
  <2>3. \E n : Moved(n)
    <3> HIDE DEF Moved, to, leave
    <3> QED BY <2>1, <2>a, <2>b, <2>c
  <2> HIDE DEF Moved
  <2>4. PICK n : Moved(n)
    BY <2>3
  <2> USE DEF Moved
  <2>5. step'[r] = n /\ \A q \in Runs \ {r} : step'[q] = step[q]
    BY <2>2, <2>4, StepGoes
  <2>6. (\A q \in Runs : StepSound(q))'
    BY <2>1, <2>2, <2>4, <2>5 DEF StepSound, At
  <2>7. \A q \in Runs : step'[q].got = step[q].got
    BY <2>4, <2>5
  <2>8. LapsesInOrder' /\ LiveIsHeld' /\ HandlesGood'
    BY <2>1, <2>7 DEF LapsesInOrder, LiveIsHeld, HandlesGood, claims
  <2> QED
    BY <2>6, <2>8
<1>6. ASSUME NEW r \in Runs, Die(r) PROVE ClaimInv'
  <2>1. /\ UNCHANGED <<claims, done, overtaken>> /\ Go(r, Idle) /\ left' = left \cup Live(r)
    BY <1>6 DEF Die, outcome
  <2>2. step'[r] = Idle /\ \A q \in Runs \ {r} : step'[q] = step[q]
    BY <2>1, StepGoes DEF Idle
  <2>3. (\A q \in Runs : StepSound(q))'
    BY <2>1, <2>2 DEF StepSound, At
  <2>4. LapsesInOrder' /\ LiveIsHeld' /\ HandlesGood'
    BY <2>1, <2>2, GivesUp DEF Live, claims
  <2> QED
    BY <2>3, <2>4
<1>7. CASE UNCHANGED vars
  BY <1>7 DEF vars, claims, outcome, history, StepSound, At, LapsesInOrder,
              LiveIsHeld, HandlesGood
<1> QED
  BY <1>1, <1>2, <1>3, <1>4, <1>5, <1>6, <1>7 DEF Next, Continue

\* Most handlers leave the index and the reverse diffs alone.
LEMMA DiffsKept ==
  ASSUME DiffInv, UNCHANGED <<repo, partial>>, ~overtaken' => ~overtaken,
         \A q \in Runs : step'[q].pc = "write" => checked'[q] = checked[q],
         \A q \in Runs :
           /\ step'[q].pc \in {"write", "keep"} =>
                step'[q].pc = step[q].pc /\ step'[q].areas = step[q].areas
           /\ q \in done' \/ (step'[q].ok /\ step'[q].op = "apply") =>
                q \in done \/ (step[q].ok /\ step[q].op = "apply")
  PROVE  DiffInv'
BY DEF DiffInv, WriteSound, KeepSound, DiffSound, At, repo

\* The areas of two steps that have got their claims are disjoint.
LEMMA AreasDisjoint ==
  ASSUME ClaimInv, ~overtaken, NEW r \in Runs, NEW q \in Runs, q # r,
         step[r].pc \in {"check", "write", "keep"}, step[q].pc \in {"check", "write", "keep"}
  PROVE  step[r].areas \cap step[q].areas = {}
BY DEF ClaimInv, HandlesGood, StepSound

LEMMA StepDiffs ==
  ASSUME TypeOK, ClaimInv, DiffInv, [Next]_vars
  PROVE  DiffInv'
<1> USE PatchAssumption
<1> Idle \in Steps /\ Idle.got = {} /\ Idle.pc = "idle" /\ ~Idle.ok
  BY DEF Idle, Steps
<1>0. \A r \in Runs : step[r] \in Steps /\ step[r].got \subseteq step[r].areas
  BY DEF TypeOK
<1>1. ASSUME NEW a \in Areas, Lapse(a) PROVE DiffInv'
  BY <1>1, DiffsKept DEF Lapse, repo, outcome
<1>2. ASSUME NEW r \in Runs, StartApply(r) \/ StartRollback(r) PROVE DiffInv'
  <2>1. \E s \in Steps : s.pc = "acquire" /\ s.got = {} /\ ~s.ok /\ Go(r, s)
    BY <1>2 DEF StartApply, StartRollback, Starting, Steps, Named, Areas
  <2>2. UNCHANGED <<repo, outcome, history>>
    BY <1>2 DEF StartApply, StartRollback, Starting
  <2>3. PICK s \in Steps : s.pc = "acquire" /\ s.got = {} /\ ~s.ok /\ Go(r, s)
    BY <2>1
  <2>4. step'[r] = s /\ \A q \in Runs \ {r} : step'[q] = step[q]
    BY <2>3, StepGoes
  <2> QED
    BY <2>2, <2>3, <2>4, DiffsKept DEF outcome, history
<1>3. ASSUME NEW r \in Runs, Claim(r) PROVE DiffInv'
  <2>1. /\ UNCHANGED <<repo, outcome, checked, partial>> /\ (~overtaken' => ~overtaken)
        /\ step[r].ok = FALSE
    <3>1. UNCHANGED <<repo, outcome, checked, partial>> /\ At(r, "acquire")
      BY <1>3 DEF Claim
    <3>2. step[r].ok = FALSE
      BY <1>0, <3>1 DEF ClaimInv, StepSound, At, Steps
    <3>3. overtaken' = overtaken \/ Take(r, NextArea(r))
      BY <1>3, Zenon DEF Claim
    <3>4. ~overtaken' => ~overtaken
      BY <3>3 DEF Take
    <3> QED
      BY <3>1, <3>2, <3>4
  <2>2. CASE To(r, "backoff")
    <3>1. step'[r].pc = "backoff" /\ ~step'[r].ok /\ \A q \in Runs \ {r} : step'[q] = step[q]
      BY <2>1, <2>2, <1>0 DEF To, Go, TypeOK, Steps
    <3> QED
      BY <2>1, <3>1, DiffsKept DEF outcome
  <2>3. ASSUME NEW got, NEW pc \in {"check", "acquire"},
               Go(r, [step[r] EXCEPT !.got = got, !.pc = pc])
        PROVE  DiffInv'
    <3>1. step'[r].pc = pc /\ ~step'[r].ok /\ \A q \in Runs \ {r} : step'[q] = step[q]
      BY <2>1, <2>3, <1>0 DEF Go, TypeOK, Steps
    <3> QED
      BY <2>1, <3>1, DiffsKept DEF outcome
  <2> QED
    BY <1>3, <2>2, <2>3 DEF Claim
<1>4. ASSUME NEW r \in Runs, Backoff(r) \/ Release(r) PROVE DiffInv'
  <2>1. /\ UNCHANGED <<repo, checked, overtaken, partial>> /\ done' \subseteq done \cup {r}
        /\ r \in done' => r \in done \/ (step[r].ok /\ step[r].op = "apply")
    BY <1>4 DEF Backoff, Release, outcome
  <2>2. \E s : Go(r, s) /\ s.pc \in {"idle", "backoff", "release"}
                 /\ (s.ok => step[r].ok /\ s.op = step[r].op)
    BY <1>4, <1>0 DEF Backoff, Release, At, Steps
  <2>3. PICK s : Go(r, s) /\ s.pc \in {"idle", "backoff", "release"}
                 /\ (s.ok => step[r].ok /\ s.op = step[r].op)
    BY <2>2
  <2>4. step'[r] = s /\ \A q \in Runs \ {r} : step'[q] = step[q]
    BY <2>3 DEF Go, TypeOK
  <2> QED
    BY <2>1, <2>3, <2>4, DiffsKept
<1>5. ASSUME NEW r \in Runs, Die(r) PROVE DiffInv'
  <2>1. step'[r] = Idle /\ \A q \in Runs \ {r} : step'[q] = step[q]
    BY <1>5, StepGoes DEF Die, Idle
  <2> QED
    BY <1>5, <2>1, DiffsKept DEF Die, outcome
<1>6. ASSUME NEW r \in Runs, Check(r) PROVE DiffInv'
  <2>1. UNCHANGED <<repo, outcome, overtaken, partial>>
    BY <1>6 DEF Check
  <2>2. CASE Leave(r, FALSE) /\ UNCHANGED checked
    <3>1. step'[r].pc = "release" /\ ~step'[r].ok /\ \A q \in Runs \ {r} : step'[q] = step[q]
      BY <2>2, <1>0 DEF Leave, Go, TypeOK, Steps
    <3> QED
      BY <2>1, <2>2, <3>1, DiffsKept DEF outcome
  <2>3. CASE To(r, "write") /\ checked' = [checked EXCEPT ![r] = index]
    <3>1. /\ step'[r].pc = "write" /\ step'[r].areas = step[r].areas /\ step'[r].op = step[r].op
          /\ step'[r].ok = step[r].ok /\ \A q \in Runs \ {r} : step'[q] = step[q]
      BY <2>3, <1>0 DEF To, Go, TypeOK, Steps
    <3>2. checked'[r] = index /\ \A q \in Runs \ {r} : checked'[q] = checked[q]
      BY <2>3 DEF TypeOK
    <3> QED
      BY <2>1, <3>1, <3>2 DEF DiffInv, WriteSound, KeepSound, DiffSound, At, repo, outcome
  <2> QED
    BY <1>6, <2>2, <2>3 DEF Check
<1>7. ASSUME NEW r \in Runs, Write(r) PROVE DiffInv'
  <2>1. /\ UNCHANGED <<rev, outcome, overtaken, partial>> /\ step[r].pc = "write" /\ ~step[r].ok
        /\ \A q \in Runs \ {r} : checked'[q] = checked[q]
    BY <1>7 DEF Write, At, ClaimInv, StepSound, TypeOK
  <2>2. CASE Leave(r, FALSE) /\ UNCHANGED <<index, unmerged>>
    <3>1. step'[r].pc = "release" /\ ~step'[r].ok /\ \A q \in Runs \ {r} : step'[q] = step[q]
      BY <2>2, <1>0 DEF Leave, Go, TypeOK, Steps
    <3> QED
      BY <2>1, <2>2, <3>1, DiffsKept DEF outcome, repo
  <2>3. ASSUME step[r].areas \cap unmerged = {}, NEW bad \in SUBSET Contested(r),
               index' = [a \in Areas |-> IF a \in step[r].areas \ bad THEN Patched(r, a)
                                                                      ELSE index[a]],
               unmerged' = unmerged \cup bad,
               IF bad # {} THEN Leave(r, FALSE)
               ELSE IF step[r].op = "apply" THEN To(r, "keep") ELSE Leave(r, TRUE)
        PROVE  DiffInv'
    <3>1. /\ step'[r].pc \in {"keep", "release"} /\ step'[r].areas = step[r].areas
          /\ step'[r].op = step[r].op /\ (step'[r].ok => step[r].op = "rollback")
          /\ step'[r].pc = "keep" => bad = {} /\ step[r].op = "apply"
          /\ \A q \in Runs \ {r} : step'[q] = step[q]
      <4>1. step[r].op \in {"apply", "rollback"}
        BY <1>0 DEF Steps
      <4>2. CASE Leave(r, FALSE)
        BY <4>2, <2>1, <1>0 DEF Leave, Go, TypeOK, Steps
      <4>3. CASE bad = {} /\ step[r].op = "apply" /\ To(r, "keep")
        BY <4>3, <2>1, <1>0 DEF To, Go, TypeOK, Steps
      <4>4. CASE step[r].op = "rollback" /\ Leave(r, TRUE)
        BY <4>4, <2>1, <1>0 DEF Leave, Go, TypeOK, Steps
      <4> QED
        BY <2>3, <4>1, <4>2, <4>3, <4>4
    <3>2. \A a \in Areas \ step[r].areas : index'[a] = index[a] /\ (a \in unmerged' <=> a \in unmerged)
      BY <2>3 DEF Contested
    <3>3. \A q \in Runs : step[q].areas \subseteq Areas
      BY <1>0 DEF Steps
    <3>4. ASSUME NEW q \in Runs \ {r} PROVE WriteSound(q)' /\ KeepSound(q)' /\ DiffSound(q)'
      <4>1. ~overtaken /\ step[q].pc \in {"write", "keep"} =>
              \A a \in step[q].areas : index'[a] = index[a] /\ (a \in unmerged' <=> a \in unmerged)
        BY <2>1, <3>2, <3>3, AreasDisjoint
      <4> QED
        BY <2>1, <3>1, <4>1 DEF DiffInv, WriteSound, KeepSound, DiffSound, At, outcome
    <3>5. KeepSound(r)'
      <4> SUFFICES ASSUME step'[r].pc = "keep", NEW a \in step[r].areas
                   PROVE  r \in index'[a] /\ a \notin unmerged'
        BY <3>1 DEF KeepSound, At
      <4>1. bad = {} /\ step[r].op = "apply" /\ a \in Areas
        BY <3>1, <3>3
      <4> QED
        BY <4>1, <2>3 DEF Patched
    <3>6. WriteSound(r)' /\ DiffSound(r)'
      BY <2>1, <3>1 DEF WriteSound, DiffSound, At, DiffInv, ClaimInv, StepSound, outcome
    <3> QED
      BY <3>4, <3>5, <3>6 DEF DiffInv
  <2> QED
    BY <1>7, <2>2, <2>3 DEF Write
<1>8. ASSUME NEW r \in Runs, Keep(r) PROVE DiffInv'
  <2>1. /\ step'[r].pc = "release" /\ step'[r].op = step[r].op
        /\ \A q \in Runs \ {r} : step'[q] = step[q]
    <3>1. PICK ok \in BOOLEAN : Leave(r, ok)
      BY <1>8 DEF Keep
    <3> QED
      BY <3>1, <1>0 DEF Leave, Go, TypeOK, Steps
  <2>2. /\ UNCHANGED <<index, unmerged, outcome, checked, overtaken>>
        /\ \A q \in Runs \ {r} : rev'[q] = rev[q] /\ (q \in partial' <=> q \in partial)
    BY <1>8 DEF Keep, TypeOK
  <2>3. /\ step[r].areas = Touches[r] /\ Touches[r] \subseteq Areas /\ At(r, "keep")
        /\ ~step[r].ok
    BY <1>8 DEF Keep, At, ClaimInv, StepSound, Areas
  <2>4. ~overtaken => \A a \in Touches[r] : r \in Staged(r)[a]
    BY <2>3 DEF DiffInv, KeepSound, Staged
  <2>5. ASSUME NEW q \in Runs \ {r} PROVE WriteSound(q)' /\ KeepSound(q)' /\ DiffSound(q)'
    BY <2>1, <2>2 DEF DiffInv, WriteSound, KeepSound, DiffSound, At, outcome
  <2>6. WriteSound(r)' /\ KeepSound(r)' /\ DiffSound(r)'
    <3>1. \/ rev'[r] = Staged(r)
          \/ r \in partial'
          \/ Leave(r, FALSE) /\ UNCHANGED <<rev, partial>>
      BY <1>8 DEF Keep, TypeOK
    <3>2. Leave(r, FALSE) => ~step'[r].ok
      BY <1>0 DEF Leave, Go, TypeOK, Steps
    <3>3. DiffSound(r)'
      BY <2>1, <2>2, <2>3, <2>4, <3>1, <3>2 DEF DiffSound, DiffInv, outcome
    <3> QED
      BY <2>1, <3>3 DEF WriteSound, KeepSound, At
  <2> QED
    BY <2>5, <2>6 DEF DiffInv
<1>9. CASE UNCHANGED vars
  BY <1>9, DiffsKept DEF vars, repo, outcome, history
<1> QED
  BY <1>1, <1>2, <1>3, <1>4, <1>5, <1>6, <1>7, <1>8, <1>9 DEF Next, Continue

-----------------------------------------------------------------------------
(* Theorems                                                                *)

\* The invariant is inductive: the claims, the order in which they lapse and what
\* check, apply and reverse diff leave in the index carry each other.
THEOREM PatchInvariant == Spec => [](TypeOK /\ ClaimInv /\ DiffInv)
<1>1. Init => TypeOK /\ ClaimInv /\ DiffInv
  BY InitInv
<1>2. TypeOK /\ ClaimInv /\ DiffInv /\ [Next]_vars => (TypeOK /\ ClaimInv /\ DiffInv)'
  BY StepType, StepClaims, StepDiffs
<1> QED
  BY <1>1, <1>2, PTL DEF Spec

\* The claims, the index and the steps stay of their types, and a step claims
\* only areas of its patch.
THEOREM PatchTypeCorrect == Spec => []TypeOK
BY PatchInvariant, PTL

\* A run between steps has no live claim but those a death or a failed call left,
\* though the releases stop at the first claim that was taken over.
THEOREM ClaimsAreSettled == Spec => []ClaimsSettled
<1>1. TypeOK /\ ClaimInv => ClaimsSettled
  BY DEF ClaimInv, ClaimsSettled, LiveIsHeld, StepSound
<1> QED
  BY <1>1, PatchInvariant, PTL

\* Every apply that was reported a success can be undone, unless git failed while it
\* wrote the reverse diff or a claim was taken from a step that went on.
THEOREM AppliesAreUndoable == Spec => []Undoable
<1>1. TypeOK /\ DiffInv => Undoable
  BY DEF TypeOK, DiffInv, DiffSound, Undoable
<1> QED
  BY <1>1, PatchInvariant, PTL

\* git writes to what the check under the claims saw.
THEOREM AppliesWhatWasChecked == Spec => CheckedIsApplied
<1>1. DiffInv =>
        [\A r \in Runs : At(r, "write") /\ (index' # index \/ unmerged' # unmerged)
                           /\ step'[r].pc # "write" /\ ~overtaken =>
           \A a \in step[r].areas : index[a] = checked[r][a]]_vars
  BY DEF DiffInv, WriteSound
<1> QED
  BY <1>1, PatchInvariant, PTL DEF CheckedIsApplied
=============================================================================

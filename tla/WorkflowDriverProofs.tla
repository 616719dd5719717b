------------------------ MODULE WorkflowDriverProofs ------------------------
(***************************************************************************)
(* The driver's promises for any workflow definition, any number of        *)
(* drivers, steps, attempts, tokens and faults.  What a call knows about   *)
(* the run (CallOK) and what the record says (RunOK) are stated for values *)
(* of the record and of the history, so that one lemma serves before and   *)
(* after a write.                                                          *)
(***************************************************************************)
EXTENDS WorkflowDriver, InductionLemmas, SequenceTheorems, TLAPS

RunType == [state : G!States, steps : Seq(StepRecord), approvals : Seq(Approval)]

\* Nothing stands in the way of the steps after s, when w is done and g granted.
Through(w, g, s) == IF s \in Gate THEN s \in g ELSE s \in w

-----------------------------------------------------------------------------
(* The invariant                                                           *)

\* Behind a completed record is the work or the grant it stands for, or it is
\* the one an escalation's grant adds, after the failed record of its step.
Backed(steps, w, g) ==
  \A i \in DOMAIN steps : steps[i].st = "completed" =>
    \/ Through(w, g, steps[i].name)
    \/ /\ steps[i].name \notin Gate /\ steps[i].att = 1
       /\ \E j \in 1 .. (i - 1) : steps[j].name = steps[i].name

\* A grant is asked for a gate, or for a step that has a record.
Asked(approvals, steps) ==
  \A i \in DOMAIN approvals :
    approvals[i].step \in Gate \/ Of(steps, approvals[i].step) # {}

\* A granted approval is in the evidence.
Told(approvals, sd) ==
  \A i \in DOMAIN approvals : approvals[i].decision = "granted" => approvals[i].token \in sd

RunOK(r, w, g, sd) ==
  /\ Backed(r.steps, w, g)
  /\ Asked(r.approvals, r.steps) /\ Told(r.approvals, sd)
  /\ r.state \in {"applying", "verifying", "completed"} => \A s \in Steps : Through(w, g, s)
  /\ r.state = "created" => r.approvals = <<>>
  /\ r.state = "waiting_approval" => Pending(r) # {}

\* What a call may rely on, wherever it is.
CallOK(c, r, w, g, sd) ==
  /\ c.pc \notin {"idle", "begin", "fail", "walk"} => c.cur \in Steps
  /\ c.pc \in {"dispatch", "work", "record", "failing", "escalate", "placeholder"} =>
       c.cur \notin Gate /\ \A j \in 1 .. (c.cur - 1) : Through(w, g, j)
  /\ \A s \in c.done : Through(w, g, s)
  /\ c.pc = "record" => c.cur \in w
  /\ c.pc = "gate" => c.cur \in Gate
  /\ c.ph > 0 => c.ph \in DOMAIN r.steps /\ r.steps[c.ph].name = c.cur
  /\ c.pc = "escalate" => Of(r.steps, c.cur) # {}
  /\ c.pc = "granted" => c.tok \in sd /\ (c.cur \in Gate \/ Of(r.steps, c.cur) # {})
  /\ Asked(c.approvals, r.steps) /\ Told(c.approvals, sd)
  /\ c.pc = "walk" =>
       /\ \A s \in Steps : Through(w, g, s)
       /\ c.chain # <<>>
       /\ \A i \in DOMAIN c.chain : c.chain[i] \in {"applying", "verifying", "completed"}
  /\ r.state = "created" => c.pc \in {"idle", "begin"}

\* The tokens whose event was written, or failed to be.
told == said \cup unsaid

DriverInv ==
  /\ TypeOK
  /\ RunOK(run, worked, granted, told)
  /\ \A d \in Drivers : CallOK(drv[d], run, worked, granted, told)

-----------------------------------------------------------------------------
(* The position derived from a record                                      *)

LEMMA StepsAreNumbers == Steps = 1 .. N /\ Steps \in SUBSET Nat
BY DriverAssumption DEF Steps, G!Steps

\* NextStep is the first step that is not done.
LEMMA NextStepSound ==
  ASSUME NEW done \in SUBSET Steps
  PROVE  /\ NextStep(done) \in 1 .. (N + 1) /\ NextStep(done) \notin done
         /\ \A j \in 1 .. (NextStep(done) - 1) : j \in done
<1> DEFINE S == (1 .. (N + 1)) \ done
<1>1. S \in SUBSET Nat /\ N + 1 \in S
  BY StepsAreNumbers, DriverAssumption
<1>2. PICK s \in S : \A t \in S : s <= t
  <2> HIDE DEF S
  <2> QED BY <1>1, LeastElement
<1>3. s \in 1 .. (N + 1) /\ s \notin done
  OBVIOUS
<1>4. ASSUME NEW j \in 1 .. (s - 1) PROVE j \in done
  <2>1. j \in 1 .. (N + 1) /\ j < s
    BY <1>3, DriverAssumption
  <2>2. j \notin S
    <3> HIDE DEF S
    <3> QED BY <1>2, <2>1, <1>3, DriverAssumption
  <2> QED
    BY <2>1, <2>2
<1>5. \E x \in 1 .. (N + 1) : x \notin done /\ \A j \in 1 .. (x - 1) : j \in done
  BY <1>3, <1>4
<1> QED
  BY <1>5 DEF NextStep

LEMMA AttemptIsNat ==
  ASSUME NEW steps \in Seq(StepRecord)
  PROVE  \A i \in DOMAIN steps : /\ steps[i] \in StepRecord /\ steps[i].name \in Steps
                                 /\ steps[i].att \in Nat
                                 /\ Attempt(steps[i]) \in Nat /\ Attempt(steps[i]) >= 1
<1> SUFFICES ASSUME NEW i \in DOMAIN steps
             PROVE  /\ steps[i] \in StepRecord /\ steps[i].name \in Steps
                    /\ steps[i].att \in Nat
                    /\ Attempt(steps[i]) \in Nat /\ Attempt(steps[i]) >= 1
  OBVIOUS
<1>1. steps[i] \in StepRecord
  BY LenProperties
<1>2. steps[i].name \in Steps /\ steps[i].att \in Nat
  BY <1>1 DEF StepRecord
<1> QED
  BY <1>1, <1>2 DEF Attempt

LEMMA NextAttemptIsNat ==
  ASSUME NEW steps \in Seq(StepRecord), NEW s \in Steps
  PROVE  NextAttempt(steps, s) \in Nat
<1>1. CASE Of(steps, s) = {}
  BY <1>1 DEF NextAttempt
<1>2. CASE Of(steps, s) # {}
  <2> DEFINE f == [i \in 1 .. Len(steps) |-> Attempt(steps[i])]
             A == {Attempt(steps[i]) : i \in Of(steps, s)}
  <2>1. f \in [1 .. Len(steps) -> Nat] /\ Len(steps) \in Nat
    BY AttemptIsNat
  <2>2. Of(steps, s) \in SUBSET (1 .. Len(steps))
    BY DEF Of
  <2>3. PICK i \in Of(steps, s) : \A j \in Of(steps, s) : f[j] <= f[i]
    <3> HIDE DEF f
    <3> QED BY <1>2, <2>1, <2>2, GreatestValue
  <2>4. \A j \in Of(steps, s) : Attempt(steps[j]) <= Attempt(steps[i])
    BY <2>2, <2>3
  <2>5. \E a \in A : \A j \in Of(steps, s) : Attempt(steps[j]) <= a
    BY <2>4
  <2>6. A \subseteq Nat
    BY <2>2, AttemptIsNat
  <2> DEFINE h == CHOOSE a \in A : \A j \in Of(steps, s) : Attempt(steps[j]) <= a
  <2>7. h \in Nat
    <3> HIDE DEF A
    <3> QED BY <2>5, <2>6
  <2>8. NextAttempt(steps, s) \in {h, h + 1}
    BY <1>2 DEF NextAttempt
  <2> HIDE DEF h
  <2> QED
    BY <2>7, <2>8
<1> QED
  BY <1>1, <1>2

\* A step whose first record of the highest attempt is completed has passed.
LEMMA CompletedSound ==
  ASSUME NEW steps \in Seq(StepRecord), NEW w, NEW g, Backed(steps, w, g)
  PROVE  Completed(steps) \in SUBSET Steps /\ \A s \in Completed(steps) : Through(w, g, s)
<1> SUFFICES ASSUME NEW s \in Steps, NEW i \in Of(steps, s), IsTop(steps, i),
                    steps[i].st = "completed"
             PROVE  Through(w, g, s)
  BY DEF Completed
<1>1. i \in DOMAIN steps /\ steps[i].name = s /\ DOMAIN steps = 1 .. Len(steps) /\ Len(steps) \in Nat
  BY DEF Of
<1>2. ASSUME steps[i].att = 1, NEW j \in 1 .. (i - 1), steps[j].name = s PROVE FALSE
  <2>1. j \in Of(steps, s) /\ j < i /\ j \in DOMAIN steps
    BY <1>1, <1>2 DEF Of
  <2>2. Attempt(steps[i]) = 1 /\ Attempt(steps[j]) >= 1 /\ Attempt(steps[j]) \in Nat
    BY <1>1, <1>2, <2>1, AttemptIsNat DEF Attempt
  <2>3. Attempt(steps[j]) < Attempt(steps[i]) \/ i <= j
    BY <1>1, <2>1 DEF IsTop
  <2> QED
    BY <1>1, <2>1, <2>2, <2>3
<1> QED
  BY <1>1, <1>2 DEF Backed

-----------------------------------------------------------------------------
(* What a call starts from                                                 *)

LEMMA IdleIsACall == Idle \in Calls
<1>1. <<>> \in Seq(Approval) /\ <<>> \in Seq(G!States) /\ 1 \in Steps \cup {1}
  OBVIOUS
<1> QED
  BY <1>1 DEF Idle, Calls

\* A call that is not at a step of the loop knows nothing it could be wrong about.
LEMMA PlainCall ==
  ASSUME NEW c \in Calls, c.pc \in {"idle", "begin", "fail"},
         c.done = {}, c.ph = 0, c.approvals = <<>>,
         NEW r, NEW w, NEW g, NEW sd, r.state = "created" => c.pc # "fail"
  PROVE  CallOK(c, r, w, g, sd)
<1>1. DOMAIN <<>> = {}
  OBVIOUS
<1>2. c.pc # "escalate" /\ c.pc # "gate" /\ c.pc # "granted" /\ c.pc # "walk" /\ c.pc # "record"
  OBVIOUS
<1>3. Asked(c.approvals, r.steps) /\ Told(c.approvals, sd)
  BY <1>1 DEF Asked, Told
<1> QED
  BY <1>2, <1>3 DEF CallOK

LEMMA FailingSound ==
  ASSUME NEW r, NEW w, NEW g, NEW sd, r.state # "created"
  PROVE  Failing \in Calls /\ CallOK(Failing, r, w, g, sd)
<1>1. Failing \in Calls
  BY IdleIsACall DEF Failing, Calls
<1>2. Failing.pc = "fail" /\ Failing.done = {} /\ Failing.ph = 0 /\ Failing.approvals = <<>>
  BY DEF Failing, Idle
<1> QED
  BY <1>1, <1>2, PlainCall

LEMMA IdleSound ==
  ASSUME NEW r, NEW w, NEW g, NEW sd
  PROVE  Idle \in Calls /\ CallOK(Idle, r, w, g, sd)
<1>1. Idle.pc = "idle" /\ Idle.done = {} /\ Idle.ph = 0 /\ Idle.approvals = <<>>
  BY DEF Idle
<1> QED
  BY <1>1, IdleIsACall, PlainCall

\* The walk starts with a chain that leads to completed.
LEMMA ChainSound ==
  ASSUME NEW s
  PROVE  /\ ChainFrom(s) \in Seq(G!States) /\ ChainFrom(s) # <<>>
         /\ \A i \in DOMAIN ChainFrom(s) : ChainFrom(s)[i] \in {"applying", "verifying", "completed"}
<1> {"applying", "verifying", "completed"} \subseteq G!States
  BY DEF G!States, G!Terminal
<1> QED
  BY DEF ChainFrom

LEMMA TopSound ==
  ASSUME NEW r \in RunType, NEW w, NEW g, NEW sd, RunOK(r, w, g, sd), r.state # "created",
         NEW done \in SUBSET Steps, \A s \in done : Through(w, g, s),
         NEW verdict \in {"ok", "exhausted", "cross_ref"}
  PROVE  Top(r, done, verdict) \in Calls /\ CallOK(Top(r, done, verdict), r, w, g, sd)
<1> DEFINE s == NextStep(done)
           c == Top(r, done, verdict)
<1>1. /\ s \in 1 .. (N + 1) /\ s \notin done
      /\ \A j \in 1 .. (s - 1) : j \in done
  BY NextStepSound
<1>2. s # N + 1 => s \in Steps /\ s <= N
  BY <1>1, StepsAreNumbers, DriverAssumption
<1>3. /\ DOMAIN <<>> = {}
      /\ r.approvals \in Seq(Approval) /\ r.steps \in Seq(StepRecord) /\ r.state \in G!States
  BY DEF RunType
<1>4. \A j \in 1 .. (s - 1) : Through(w, g, j)
  BY <1>1
<1>5. ~(N + 1 <= N) /\ N + 1 \notin Gate
  BY StepsAreNumbers, DriverAssumption
<1>6. CASE s = N + 1
  <2>1. c = [Idle EXCEPT !.pc = "walk", !.chain = ChainFrom(r.state)]
    BY <1>5, <1>6 DEF Top
  <2>2. \A j \in Steps : Through(w, g, j)
    BY <1>4, <1>6, StepsAreNumbers, DriverAssumption
  <2> HIDE DEF c
  <2>3. /\ c.pc = "walk" /\ c.done = {} /\ c.ph = 0 /\ c.approvals = <<>>
        /\ c.chain = ChainFrom(r.state)
    BY <2>1 DEF Idle
  <2>4. c \in Calls
    BY <2>1, ChainSound, IdleIsACall DEF Calls
  <2>5. Asked(c.approvals, r.steps) /\ Told(c.approvals, sd)
    BY <1>3, <2>3 DEF Asked, Told
  <2>6. CallOK(c, r, w, g, sd)
    BY <2>2, <2>3, <2>5, ChainSound DEF CallOK
  <2> QED
    BY <2>4, <2>6 DEF c
<1>7. CASE s # N + 1 /\ verdict = "exhausted"
  <2>1. c = Failing
    BY <1>2, <1>7 DEF Top
  <2> QED
    BY <2>1, FailingSound
<1>8. CASE s # N + 1 /\ verdict # "exhausted" /\ s \in Gate
  <2>1. c = [Idle EXCEPT !.pc = "gate", !.cur = s, !.approvals = r.approvals]
    BY <1>2, <1>8 DEF Top
  <2>2. s \in Steps
    BY <1>2, <1>8
  <2> HIDE DEF c, s
  <2>3. /\ c.pc = "gate" /\ c.done = {} /\ c.ph = 0 /\ c.approvals = r.approvals
        /\ c.cur = s
    BY <2>1 DEF Idle
  <2>4. c \in Calls
    BY <1>3, <2>1, <2>2, IdleIsACall DEF Calls
  <2>5. CallOK(c, r, w, g, sd)
    BY <1>8, <2>2, <2>3 DEF CallOK, RunOK, s
  <2> QED
    BY <2>4, <2>5 DEF c
<1>9. CASE s # N + 1 /\ verdict # "exhausted" /\ s \notin Gate
  <2>1. c = [Idle EXCEPT !.pc = "dispatch", !.cur = s, !.done = done,
                !.verdict = verdict, !.att = NextAttempt(r.steps, s)]
    BY <1>2, <1>9 DEF Top
  <2>2. s \in Steps /\ s \notin Gate
    BY <1>2, <1>9
  <2>3. NextAttempt(r.steps, s) \in Nat
    BY <2>2, <1>3, NextAttemptIsNat
  <2> HIDE DEF c, s
  <2>4. /\ c.pc = "dispatch" /\ c.done = done /\ c.ph = 0 /\ c.approvals = <<>>
        /\ c.cur = s
    BY <2>1 DEF Idle
  <2>5. c \in Calls
    BY <2>1, <2>2, <2>3, IdleIsACall DEF Calls
  <2>6. Asked(c.approvals, r.steps) /\ Told(c.approvals, sd)
    BY <1>3, <2>4 DEF Asked, Told
  <2>7. CallOK(c, r, w, g, sd)
    BY <1>4, <2>2, <2>4, <2>6 DEF CallOK
  <2> QED
    BY <2>5, <2>7 DEF c
<1> QED
  BY <1>6, <1>7, <1>8, <1>9

LEMMA LoopSound ==
  ASSUME NEW r \in RunType, NEW w, NEW g, NEW sd, RunOK(r, w, g, sd), r.state # "created",
         NEW verdict \in {"ok", "exhausted", "cross_ref"}
  PROVE  Loop(r, verdict) \in Calls /\ CallOK(Loop(r, verdict), r, w, g, sd)
<1>1. r.steps \in Seq(StepRecord) /\ Backed(r.steps, w, g)
  BY DEF RunType, RunOK
<1>2. Completed(r.steps) \in SUBSET Steps /\ \A s \in Completed(r.steps) : Through(w, g, s)
  BY <1>1, CompletedSound
<1> QED
  BY <1>2, TopSound DEF Loop

LEMMA StartSound ==
  ASSUME NEW r \in RunType, NEW w, NEW g, NEW sd, RunOK(r, w, g, sd), r.state # "created",
         NEW verdict \in {"ok", "exhausted", "cross_ref"}
  PROVE  Start(r, verdict) \in Calls /\ CallOK(Start(r, verdict), r, w, g, sd)
BY LoopSound, FailingSound DEF Start

-----------------------------------------------------------------------------
(* What other calls' writes leave true                                     *)

\* Records are appended and updated in place, and nothing done is undone.
Grows(r, r2, w, w2, g, g2, sd, sd2) ==
  /\ Len(r.steps) <= Len(r2.steps)
  /\ \A i \in DOMAIN r.steps : r2.steps[i].name = r.steps[i].name
  /\ r2.state = "created" => r.state = "created"
  /\ w \subseteq w2 /\ g \subseteq g2 /\ sd \subseteq sd2

LEMMA AskedKept ==
  ASSUME NEW r \in RunType, NEW r2 \in RunType, NEW approvals,
         Len(r.steps) <= Len(r2.steps),
         \A i \in DOMAIN r.steps : r2.steps[i].name = r.steps[i].name,
         Asked(approvals, r.steps)
  PROVE  Asked(approvals, r2.steps)
<1>1. \A s : Of(r.steps, s) \subseteq Of(r2.steps, s)
  BY DEF Of, RunType
<1> QED
  BY <1>1 DEF Asked

LEMMA CallKept ==
  ASSUME NEW r \in RunType, NEW r2 \in RunType, NEW w, NEW w2, NEW g, NEW g2, NEW sd, NEW sd2,
         Grows(r, r2, w, w2, g, g2, sd, sd2), NEW c \in Calls, CallOK(c, r, w, g, sd)
  PROVE  CallOK(c, r2, w2, g2, sd2)
<1> USE DEF Grows
<1>1. \A s : Through(w, g, s) => Through(w2, g2, s)
  BY DEF Through
<1>2. \A s : Of(r.steps, s) # {} => Of(r2.steps, s) # {}
  BY DEF Of, RunType
<1>3. \A i \in DOMAIN r.steps : i \in DOMAIN r2.steps
  BY DEF RunType
<1>4. Asked(c.approvals, r2.steps) /\ Told(c.approvals, sd2)
  BY AskedKept DEF CallOK, Told
<1> QED
  BY <1>1, <1>2, <1>3, <1>4 DEF CallOK

\* A handler that writes a sound record and goes to a sound place keeps the
\* invariant, whatever the other calls are doing.
LEMMA WriteSound ==
  ASSUME DriverInv, NEW d \in Drivers, NEW c \in Calls, Go(d, c),
         run' \in RunType, RunOK(run', worked', granted', told'),
         CallOK(c, run', worked', granted', told'),
         Grows(run, run', worked, worked', granted, granted', told, told'),
         worked' \in SUBSET Steps, granted' \in SUBSET Steps, told' \in SUBSET Nat,
         tokens' \in Nat, faults' \in Nat
  PROVE  DriverInv'
<1>1. drv' \in [Drivers -> Calls] /\ drv'[d] = c /\ \A q \in Drivers \ {d} : drv'[q] = drv[q]
  BY DEF DriverInv, TypeOK, Go
<1>2. ASSUME NEW q \in Drivers PROVE CallOK(drv'[q], run', worked', granted', told')
  <2>1. CASE q = d
    BY <2>1, <1>1
  <2>2. CASE q # d
    <3>1. /\ run \in RunType /\ drv[q] \in Calls
          /\ CallOK(drv[q], run, worked, granted, told) /\ drv'[q] = drv[q]
      BY <1>1, <2>2 DEF DriverInv, TypeOK, RunType
    <3> QED
      BY <3>1, CallKept
  <2> QED
    BY <2>1, <2>2
<1>3. TypeOK'
  BY <1>1 DEF TypeOK, RunType, told
<1> QED
  BY <1>2, <1>3 DEF DriverInv

-----------------------------------------------------------------------------
(* What a write does to a record                                           *)

LEMMA RunKept ==
  ASSUME NEW r, NEW w, NEW w2, NEW g, NEW g2, NEW sd, NEW sd2, RunOK(r, w, g, sd),
         w \subseteq w2, g \subseteq g2, sd \subseteq sd2
  PROVE  RunOK(r, w2, g2, sd2) /\ Grows(r, r, w, w2, g, g2, sd, sd2)
<1>1. \A s : Through(w, g, s) => Through(w2, g2, s)
  BY DEF Through
<1>2. Backed(r.steps, w2, g2) /\ Told(r.approvals, sd2)
  BY <1>1 DEF RunOK, Backed, Told
<1> QED
  BY <1>1, <1>2 DEF RunOK, Grows

LEMMA StateSound ==
  ASSUME NEW r \in RunType, NEW w, NEW g, NEW sd, RunOK(r, w, g, sd),
         NEW t \in G!States \ {"created", "waiting_approval"},
         t \in {"applying", "verifying", "completed"} => \A s \in Steps : Through(w, g, s),
         NEW r2, r2 = [r EXCEPT !.state = t]
  PROVE  /\ r2 \in RunType /\ r2.state = t /\ RunOK(r2, w, g, sd)
         /\ Grows(r, r2, w, w, g, g, sd, sd)
<1>1. r2 \in RunType /\ r2.state = t /\ r2.steps = r.steps /\ r2.approvals = r.approvals
  BY DEF RunType
<1> QED
  BY <1>1 DEF RunOK, Grows, RunType

LEMMA StepsSound ==
  ASSUME NEW r \in RunType, NEW w, NEW g, NEW sd, RunOK(r, w, g, sd),
         NEW r2 \in RunType, r2.state = r.state, r2.approvals = r.approvals,
         Len(r.steps) <= Len(r2.steps), \A i \in DOMAIN r.steps : r2.steps[i].name = r.steps[i].name,
         Backed(r2.steps, w, g)
  PROVE  RunOK(r2, w, g, sd) /\ Grows(r, r2, w, w, g, g, sd, sd)
<1>1. Asked(r2.approvals, r2.steps)
  BY AskedKept DEF RunOK
<1>2. Pending(r2) = Pending(r)
  BY DEF Pending
<1> QED
  BY <1>1, <1>2 DEF RunOK, Grows

\* A record appended is backed when it is not completed, or stands for work or
\* a grant, or comes after another of its step with attempt 1.
LEMMA AppendSound ==
  ASSUME NEW steps \in Seq(StepRecord), NEW w, NEW g, Backed(steps, w, g), NEW rec \in StepRecord,
         rec.st = "completed" =>
           \/ Through(w, g, rec.name)
           \/ rec.name \notin Gate /\ rec.att = 1 /\ Of(steps, rec.name) # {}
  PROVE  LET new == Append(steps, rec)
         IN  /\ new \in Seq(StepRecord) /\ Len(new) = Len(steps) + 1
             /\ \A i \in DOMAIN steps : new[i] = steps[i]
             /\ Len(new) \in Of(new, rec.name) /\ Backed(new, w, g)
<1> DEFINE new == Append(steps, rec)
<1>1. /\ new \in Seq(StepRecord) /\ Len(new) = Len(steps) + 1 /\ Len(steps) \in Nat
      /\ \A i \in 1 .. Len(steps) : new[i] = steps[i]
      /\ new[Len(steps) + 1] = rec
  BY AppendProperties, LenProperties
<1>2. DOMAIN steps = 1 .. Len(steps) /\ DOMAIN new = 1 .. (Len(steps) + 1)
  BY <1>1, LenProperties
<1> HIDE DEF new
<1>3. Len(new) \in Of(new, rec.name)
  BY <1>1, <1>2 DEF Of
<1>4. ASSUME NEW i \in DOMAIN new, new[i].st = "completed"
      PROVE  \/ Through(w, g, new[i].name)
             \/ /\ new[i].name \notin Gate /\ new[i].att = 1
                /\ \E j \in 1 .. (i - 1) : new[j].name = new[i].name
  <2>1. CASE i = Len(steps) + 1
    <3>1. new[i] = rec /\ \A j \in Of(steps, rec.name) : j \in 1 .. (i - 1) /\ new[j] = steps[j]
      BY <1>1, <1>2, <2>1 DEF Of
    <3>2. \A j \in Of(steps, rec.name) : steps[j].name = rec.name
      BY DEF Of
    <3> QED
      BY <1>4, <3>1, <3>2
  <2>2. CASE i # Len(steps) + 1
    <3>1. i \in DOMAIN steps /\ new[i] = steps[i] /\ \A j \in 1 .. (i - 1) : new[j] = steps[j]
      BY <1>1, <1>2, <1>4, <2>2
    <3> QED
      BY <1>4, <3>1 DEF Backed
  <2> QED
    BY <2>1, <2>2
<1> QED
  BY <1>1, <1>2, <1>3, <1>4 DEF Backed, new

SetState(steps, k, st) == [steps EXCEPT ![k].st = st]

\* A record whose state is changed in place keeps its name.
LEMMA UpdateSound ==
  ASSUME NEW steps \in Seq(StepRecord), NEW w, NEW g, Backed(steps, w, g),
         NEW k \in DOMAIN steps, NEW st \in {"completed", "failed"},
         st = "completed" => Through(w, g, steps[k].name)
  PROVE  LET new == SetState(steps, k, st)
         IN  /\ new \in Seq(StepRecord) /\ Len(new) = Len(steps)
             /\ \A i \in DOMAIN steps : new[i].name = steps[i].name
             /\ Backed(new, w, g)
<1> DEFINE new == SetState(steps, k, st)
<1>1. Len(steps) \in Nat /\ DOMAIN steps = 1 .. Len(steps) /\ steps[k] \in StepRecord
  BY LenProperties
<1>2. [steps[k] EXCEPT !.st = st] \in StepRecord
  BY <1>1 DEF StepRecord
<1>3. new = [steps EXCEPT ![k] = [steps[k] EXCEPT !.st = st]]
  BY DEF SetState
<1> HIDE DEF new
<1>4. /\ new \in Seq(StepRecord) /\ Len(new) = Len(steps)
      /\ \A i \in 1 .. Len(steps) : new[i] = IF i = k THEN [steps[k] EXCEPT !.st = st] ELSE steps[i]
  BY <1>1, <1>2, <1>3, ExceptSeq
<1>5. \A i \in DOMAIN steps :
        /\ new[i].name = steps[i].name /\ new[i].att = steps[i].att
        /\ IF i = k THEN new[i].st = st ELSE new[i].st = steps[i].st
  BY <1>1, <1>4 DEF StepRecord
<1>6. DOMAIN new = DOMAIN steps
  BY <1>1, <1>4, LenProperties
<1>7. Backed(new, w, g)
  <2> SUFFICES ASSUME NEW i \in DOMAIN steps, new[i].st = "completed"
               PROVE  \/ Through(w, g, steps[i].name)
                      \/ /\ steps[i].name \notin Gate /\ steps[i].att = 1
                         /\ \E j \in 1 .. (i - 1) : steps[j].name = steps[i].name
    <3>1. \A i \in DOMAIN steps : \A j \in 1 .. (i - 1) : j \in DOMAIN steps
      BY <1>1
    <3> QED
      BY <1>5, <1>6, <3>1 DEF Backed
  <2> QED
    BY <1>5 DEF Backed
<1> QED
  BY <1>4, <1>5, <1>7 DEF new

-----------------------------------------------------------------------------
(* Every action keeps the invariant                                        *)

LEMMA Here ==
  ASSUME DriverInv, NEW d \in Drivers
  PROVE  /\ drv[d] \in Calls /\ CallOK(drv[d], run, worked, granted, told)
         /\ run \in RunType /\ RunOK(run, worked, granted, told)
         /\ run.state \in G!States /\ run.steps \in Seq(StepRecord)
         /\ run.approvals \in Seq(Approval)
         /\ worked \in SUBSET Steps /\ granted \in SUBSET Steps /\ told \in SUBSET Nat
         /\ tokens \in Nat /\ faults \in Nat /\ faults + 1 \in Nat /\ tokens + 1 \in Nat
         /\ drv[d].pc \notin {"idle", "begin"} => run.state # "created"
         /\ drv[d].pc \notin {"idle", "begin", "fail", "walk"} => drv[d].cur \in Steps
<1>1. told \in SUBSET Nat
  BY DEF DriverInv, TypeOK, told
<1> QED
  BY <1>1 DEF DriverInv, TypeOK, RunType, CallOK

LEMMA InitSound == Init => DriverInv
<1> SUFFICES ASSUME Init PROVE DriverInv
  OBVIOUS
<1>1. /\ <<>> \in Seq(StepRecord) /\ <<>> \in Seq(Approval) /\ DOMAIN <<>> = {}
      /\ "created" \in G!States
  BY DEF G!States
<1>2. run.state = "created" /\ run.steps = <<>> /\ run.approvals = <<>>
  BY DEF Init
<1>3. RunOK(run, worked, granted, told)
  BY <1>1, <1>2 DEF RunOK, Backed, Asked, Told
<1>4. run \in RunType
  BY <1>1 DEF Init, RunType
<1>5. drv \in [Drivers -> Calls] /\ \A d \in Drivers : drv[d] = Idle
  BY IdleIsACall DEF Init
<1>6. TypeOK
  BY <1>4, <1>5 DEF TypeOK, Init, RunType
<1>7. \A d \in Drivers : CallOK(drv[d], run, worked, granted, told)
  BY <1>5, IdleSound
<1> QED
  BY <1>3, <1>6, <1>7 DEF DriverInv

\* A call that writes nothing.
LEMMA NoWrite ==
  ASSUME DriverInv, NEW d \in Drivers, NEW c \in Calls, Go(d, c), UNCHANGED <<run, granted, tokens>>,
         worked \subseteq worked', worked' \in SUBSET Steps,
         told \subseteq told', told' \in SUBSET Nat, faults' \in Nat,
         CallOK(c, run, worked', granted, told')
  PROVE  DriverInv'
<1>1. /\ RunOK(run', worked', granted', told')
      /\ Grows(run, run', worked, worked', granted, granted', told, told')
  BY Here, RunKept
<1> QED
  BY <1>1, Here, WriteSound

LEMMA EndKeeps ==
  ASSUME DriverInv, NEW d \in Drivers, End(d), UNCHANGED <<run, history, tokens>>, faults' \in Nat
  PROVE  DriverInv'
BY NoWrite, IdleSound, Here DEF End, history, evidence, told

\* A write to the record alone.
LEMMA RunWrite ==
  ASSUME DriverInv, NEW d \in Drivers, NEW c \in Calls, Go(d, c), UNCHANGED history,
         run' \in RunType, RunOK(run', worked, granted, told),
         Grows(run, run', worked, worked, granted, granted, told, told),
         CallOK(c, run', worked, granted, told), tokens' \in Nat, faults' \in Nat
  PROVE  DriverInv'
BY WriteSound, Here DEF history, evidence, told

LEMMA RunWorkflowKeeps ==
  ASSUME DriverInv, NEW d \in Drivers, RunWorkflow(d)
  PROVE  DriverInv'
<1>1. PICK verdict \in {"ok", "exhausted", "cross_ref"} :
        \/ run.state = "created" /\ Go(d, [Idle EXCEPT !.pc = "begin", !.verdict = verdict])
        \/ run.state = "running" /\ Go(d, Start(run, verdict))
  BY DriverAssumption DEF RunWorkflow
<1>2. UNCHANGED <<run, granted, tokens, worked, told, faults>>
  BY DEF RunWorkflow, history, evidence, told
<1>3. CASE run.state = "created"
  <2> DEFINE c == [Idle EXCEPT !.pc = "begin", !.verdict = verdict]
  <2>1. c \in Calls
    BY IdleIsACall DEF Calls
  <2>2. c.pc = "begin" /\ c.done = {} /\ c.ph = 0 /\ c.approvals = <<>>
    BY DEF Idle
  <2>3. Go(d, c)
    BY <1>1, <1>3
  <2> HIDE DEF c
  <2>4. CallOK(c, run, worked, granted, told)
    BY <2>1, <2>2, PlainCall
  <2> QED
    BY <1>2, <2>1, <2>3, <2>4, NoWrite, Here
<1>4. CASE run.state = "running"
  <2>1. Start(run, verdict) \in Calls /\ CallOK(Start(run, verdict), run, worked, granted, told)
    BY <1>4, StartSound, Here
  <2> QED
    BY <1>1, <1>2, <1>4, <2>1, NoWrite, Here
<1> QED
  BY <1>1, <1>3, <1>4

LEMMA BeginKeeps ==
  ASSUME DriverInv, NEW d \in Drivers, Begin(d)
  PROVE  DriverInv'
<1>1. CASE MayMove("running")
  <2>1. /\ run' = [run EXCEPT !.state = "running"] /\ Go(d, Start(run', drv[d].verdict))
        /\ UNCHANGED <<history, tokens, faults>>
    BY <1>1 DEF Begin
  <2>2. "running" \in G!States \ {"created", "waiting_approval"}
    BY DEF G!States
  <2>3. /\ run' \in RunType /\ run'.state = "running" /\ RunOK(run', worked, granted, told)
        /\ Grows(run, run', worked, worked, granted, granted, told, told)
    BY <2>1, <2>2, Here, StateSound
  <2>4. drv[d].verdict \in {"ok", "exhausted", "cross_ref"}
    BY Here DEF Calls
  <2>5. /\ Start(run', drv[d].verdict) \in Calls
        /\ CallOK(Start(run', drv[d].verdict), run', worked, granted, told)
    BY <2>3, <2>4, StartSound
  <2> QED
    BY <2>1, <2>3, <2>5, RunWrite, Here
<1>2. CASE ~MayMove("running")
  BY <1>2, EndKeeps, Here DEF Begin
<1> QED
  BY <1>1, <1>2

\* An undecided approval of the record names a gate or a step that has a record.
LEMMA PendingSound ==
  ASSUME DriverInv, NEW a \in Pending(run)
  PROVE  /\ a.token \in Nat /\ a.step \in Steps /\ run.state # "created"
         /\ a.step \in Gate \/ Of(run.steps, a.step) # {}
<1>1. PICK i \in DOMAIN run.approvals : a = run.approvals[i]
  BY DEF Pending
<1>2. run.approvals \in Seq(Approval) /\ RunOK(run, worked, granted, told)
  BY DEF DriverInv, TypeOK
<1>3. a \in Approval
  BY <1>1, <1>2, LenProperties
<1>4. run.state # "created"
  <2>1. DOMAIN <<>> = {}
    OBVIOUS
  <2> QED
    BY <1>1, <1>2, <2>1 DEF RunOK
<1> QED
  BY <1>1, <1>2, <1>3, <1>4 DEF Approval, RunOK, Asked

LEMMA ResumeKeeps ==
  ASSUME DriverInv, NEW d \in Drivers, Resume(d)
  PROVE  DriverInv'
<1>1. PICK a \in Pending(run), dec \in {"granted", "denied"} :
        /\ told' = IF dec = "granted" THEN told \cup {a.token} ELSE told
        /\ faults' \in {faults, faults + 1}
        /\ Go(d, [Idle EXCEPT !.pc = dec, !.tok = a.token, !.cur = a.step])
  BY DEF Resume, told
<1> DEFINE c == [Idle EXCEPT !.pc = dec, !.tok = a.token, !.cur = a.step]
<1>2. /\ a.token \in Nat /\ a.step \in Steps /\ run.state # "created"
      /\ a.step \in Gate \/ Of(run.steps, a.step) # {}
  BY PendingSound
<1>3. told \subseteq told' /\ told' \in SUBSET Nat /\ (dec = "granted" => a.token \in told')
  BY <1>1, <1>2, Here
<1>4. c \in Calls
  BY <1>2, IdleIsACall DEF Calls
<1>5. /\ c.pc = dec /\ c.tok = a.token /\ c.cur = a.step /\ c.done = {} /\ c.ph = 0
      /\ c.approvals = <<>>
  BY DEF Idle
<1>6. Go(d, c)
  BY <1>1
<1> HIDE DEF c
<1>7. Asked(c.approvals, run.steps) /\ Told(c.approvals, told')
  <2>1. DOMAIN <<>> = {}
    OBVIOUS
  <2> QED
    BY <1>5, <2>1 DEF Asked, Told
<1>8. CallOK(c, run, worked, granted, told')
  BY <1>2, <1>3, <1>5, <1>7 DEF CallOK
<1>9. UNCHANGED <<run, granted, tokens, worked>> /\ faults' \in Nat
  BY <1>1, Here DEF Resume
<1> QED
  BY <1>3, <1>4, <1>6, <1>8, <1>9, NoWrite, Here

\* Deciding an approval by its token keeps the others and the steps they name.
LEMMA DecidedSound ==
  ASSUME NEW approvals \in Seq(Approval), NEW steps, NEW sd, NEW token \in sd,
         Asked(approvals, steps), Told(approvals, sd)
  PROVE  /\ Decided(approvals, token) \in Seq(Approval)
         /\ Asked(Decided(approvals, token), steps) /\ Told(Decided(approvals, token), sd)
<1> DEFINE new == Decided(approvals, token)
<1>1. /\ DOMAIN approvals = 1 .. Len(approvals) /\ Len(approvals) \in Nat
      /\ \A i \in DOMAIN approvals : approvals[i] \in Approval
  BY LenProperties
<1>2. DOMAIN new = DOMAIN approvals
  BY DEF Decided
<1>3. \A i \in DOMAIN approvals :
        new[i] = IF approvals[i].token = token THEN [approvals[i] EXCEPT !.decision = "granted"]
                 ELSE approvals[i]
  BY DEF Decided
<1> HIDE DEF new
<1>4. \A i \in DOMAIN approvals :
        /\ new[i] \in Approval /\ new[i].step = approvals[i].step
        /\ new[i].token = approvals[i].token
        /\ approvals[i].token # token => new[i] = approvals[i]
  BY <1>1, <1>3 DEF Approval
<1>5. new \in Seq(Approval)
  <2>1. new \in [1 .. Len(approvals) -> Approval]
    BY <1>1, <1>2, <1>3, <1>4 DEF new, Decided
  <2> QED
    BY <1>1, <2>1, SeqDef
<1>6. Asked(new, steps)
  BY <1>2, <1>4 DEF Asked
<1>7. Told(new, sd)
  BY <1>2, <1>4 DEF Told
<1> QED
  BY <1>5, <1>6, <1>7 DEF new

\* The record that stands for a grant is backed by it, or by the failed record
\* of the step it was asked for.
LEMMA ApprovedSound ==
  ASSUME NEW steps \in Seq(StepRecord), NEW w, NEW g, NEW g2, NEW s \in Steps,
         Backed(steps, w, g), g2 = g \cup {s}, s \in Gate \/ Of(steps, s) # {}
  PROVE  LET new == Approved(steps, s)
         IN  /\ new \in Seq(StepRecord) /\ Len(steps) <= Len(new)
             /\ \A i \in DOMAIN steps : new[i].name = steps[i].name
             /\ Backed(new, w, g2)
<1>1. Backed(steps, w, g2) /\ Len(steps) \in Nat
  BY DEF Backed, Through
<1>2. CASE \E i \in Of(steps, s) : steps[i].st = "completed"
  BY <1>1, <1>2 DEF Approved
<1>3. CASE ~\E i \in Of(steps, s) : steps[i].st = "completed"
  <2> DEFINE rec == [name |-> s, att |-> 1, st |-> "completed"]
  <2>1. /\ rec \in StepRecord /\ rec.name = s /\ rec.att = 1
        /\ Approved(steps, s) = Append(steps, rec)
    BY <1>3 DEF Approved, StepRecord
  <2>2. Through(w, g2, s) \/ (s \notin Gate /\ Of(steps, s) # {})
    BY DEF Through
  <2> HIDE DEF rec
  <2> QED
    BY <1>1, <2>1, <2>2, AppendSound
<1> QED
  BY <1>2, <1>3

LEMMA GrantKeeps ==
  ASSUME DriverInv, NEW d \in Drivers, Grant(d)
  PROVE  DriverInv'
<1>1. CASE MayMove("running")
  <2>1. PICK verdict \in {"ok", "exhausted", "cross_ref"} :
          /\ run' = [state |-> "running", steps |-> Approved(run.steps, drv[d].cur),
                     approvals |-> Decided(run.approvals, drv[d].tok)]
          /\ granted' = granted \cup {drv[d].cur}
          /\ Go(d, Loop(run', verdict))
          /\ UNCHANGED <<worked, told, tokens, faults>>
    BY <1>1, DriverAssumption DEF Grant, evidence, told
  <2>2. /\ drv[d].pc = "granted" /\ drv[d].cur \in Steps /\ drv[d].tok \in told
        /\ drv[d].cur \in Gate \/ Of(run.steps, drv[d].cur) # {}
        /\ run.state # "created"
    BY Here DEF Grant, At, CallOK
  <2>3. /\ Backed(run.steps, worked, granted) /\ Asked(run.approvals, run.steps)
        /\ Told(run.approvals, told)
    BY Here DEF RunOK
  <2>4. /\ run'.steps \in Seq(StepRecord) /\ Len(run.steps) <= Len(run'.steps)
        /\ \A i \in DOMAIN run.steps : run'.steps[i].name = run.steps[i].name
        /\ Backed(run'.steps, worked', granted')
    <3> DEFINE new == Approved(run.steps, drv[d].cur)
    <3> DEFINE g2 == granted \cup {drv[d].cur}
    <3>1. /\ new \in Seq(StepRecord) /\ Len(run.steps) <= Len(new)
          /\ \A i \in DOMAIN run.steps : new[i].name = run.steps[i].name
          /\ Backed(new, worked, g2)
      <4>1. run.steps \in Seq(StepRecord) /\ drv[d].cur \in Steps
        BY <2>2, Here
      <4> QED
        BY <4>1, <2>2, <2>3, ApprovedSound
    <3>2. run'.steps = new /\ worked' = worked /\ granted' = g2
      BY <2>1
    <3> HIDE DEF new, g2
    <3> QED
      BY <3>1, <3>2
  <2>5. run'.approvals \in Seq(Approval) /\ Asked(run'.approvals, run.steps) /\ Told(run'.approvals, told')
    BY <2>1, <2>2, <2>3, Here, DecidedSound
  <2>6. run' \in RunType /\ run'.state = "running"
    <3>1. /\ Approved(run.steps, drv[d].cur) \in Seq(StepRecord)
          /\ Decided(run.approvals, drv[d].tok) \in Seq(Approval)
      BY <2>1, <2>4, <2>5
    <3>2. "running" \in G!States
      BY DEF G!States
    <3> QED
      BY <2>1, <3>1, <3>2 DEF RunType
  <2>7. RunOK(run', worked', granted', told')
    BY <2>4, <2>5, <2>6, Here, AskedKept DEF RunOK
  <2>8. Grows(run, run', worked, worked', granted, granted', told, told')
    BY <2>1, <2>4, <2>6 DEF Grows
  <2>9. Loop(run', verdict) \in Calls /\ CallOK(Loop(run', verdict), run', worked', granted', told')
    BY <2>6, <2>7, LoopSound
  <2>10. granted' \in SUBSET Steps
    BY <2>1, <2>2, Here
  <2> QED
    BY <2>1, <2>6, <2>7, <2>8, <2>9, <2>10, WriteSound, Here
<1>2. CASE ~MayMove("running")
  BY <1>2, EndKeeps, Here DEF Grant, history, evidence, told
<1> QED
  BY <1>1, <1>2

LEMMA DenyKeeps ==
  ASSUME DriverInv, NEW d \in Drivers, Deny(d)
  PROVE  DriverInv'
<1>1. CASE MayMove("cancelled")
  <2>1. run' = [run EXCEPT !.state = "cancelled"] /\ End(d) /\ UNCHANGED <<history, tokens, faults>>
    BY <1>1 DEF Deny
  <2>2. "cancelled" \in G!States \ {"created", "waiting_approval"}
    BY DEF G!States, G!Terminal
  <2>3. /\ run' \in RunType /\ RunOK(run', worked, granted, told)
        /\ Grows(run, run', worked, worked, granted, granted, told, told)
    BY <2>1, <2>2, Here, StateSound
  <2> QED
    BY <2>1, <2>3, RunWrite, IdleSound, Here DEF End
<1>2. CASE ~MayMove("cancelled")
  BY <1>2, EndKeeps, Here DEF Deny
<1> QED
  BY <1>1, <1>2

\* The run goes to waiting_approval with an undecided approval it was asked.
LEMMA AskKeeps ==
  ASSUME DriverInv, NEW d \in Drivers, Ask(d), drv[d].pc \in {"gate", "escalate"}
  PROVE  DriverInv'
<1>1. CASE MayMove("waiting_approval")
  <2> DEFINE new == [token |-> tokens + 1, step |-> drv[d].cur, decision |-> "none"]
             approvals == Append(drv[d].approvals, new)
  <2>1. /\ run' = [run EXCEPT !.state = "waiting_approval", !.approvals = approvals]
        /\ tokens' = tokens + 1 /\ End(d) /\ UNCHANGED <<history, faults>>
    BY <1>1 DEF Ask
  <2>2. /\ drv[d].cur \in Steps /\ drv[d].approvals \in Seq(Approval)
        /\ Asked(drv[d].approvals, run.steps) /\ Told(drv[d].approvals, told)
        /\ drv[d].cur \in Gate \/ Of(run.steps, drv[d].cur) # {}
        /\ run.state # "created"
    BY Here DEF CallOK, Calls
  <2>3. /\ new \in Approval /\ new.step = drv[d].cur /\ new.decision = "none"
    BY <2>2, Here DEF Approval
  <2> HIDE DEF new
  <2>4. /\ approvals \in Seq(Approval) /\ Len(drv[d].approvals) \in Nat
        /\ DOMAIN drv[d].approvals = 1 .. Len(drv[d].approvals)
        /\ DOMAIN approvals = 1 .. (Len(drv[d].approvals) + 1)
        /\ \A i \in 1 .. Len(drv[d].approvals) : approvals[i] = drv[d].approvals[i]
        /\ approvals[Len(drv[d].approvals) + 1] = new
    BY <2>2, <2>3, AppendProperties, LenProperties
  <2> HIDE DEF approvals
  <2>5. \A i \in DOMAIN approvals : approvals[i] = new \/ (i \in DOMAIN drv[d].approvals /\ approvals[i] = drv[d].approvals[i])
    BY <2>4
  <2>6. Asked(approvals, run.steps) /\ Told(approvals, told)
    BY <2>2, <2>3, <2>5 DEF Asked, Told
  <2>7. /\ run' \in RunType /\ run'.state = "waiting_approval" /\ run'.steps = run.steps
        /\ run'.approvals = approvals
    BY <2>1, <2>4, Here DEF RunType, G!States
  <2>8. new \in Pending(run')
    BY <2>3, <2>4, <2>7 DEF Pending
  <2>9. RunOK(run', worked, granted, told)
    BY <2>6, <2>7, <2>8, Here DEF RunOK
  <2>10. Grows(run, run', worked, worked, granted, granted, told, told)
    BY <2>7, Here DEF Grows
  <2> QED
    BY <2>1, <2>7, <2>9, <2>10, RunWrite, IdleSound, Here DEF End
<1>2. CASE ~MayMove("waiting_approval")
  BY <1>2, EndKeeps, Here DEF Ask
<1> QED
  BY <1>1, <1>2

LEMMA DispatchKeeps ==
  ASSUME DriverInv, NEW d \in Drivers, Dispatch(d)
  PROVE  DriverInv'
<1>1. CASE Preflight(drv[d].cur)
  <2> DEFINE c == [drv[d] EXCEPT !.pc = "work"]
  <2>1. c \in Calls
    BY Here DEF Calls
  <2>2. CallOK(c, run, worked, granted, told)
    BY Here DEF CallOK, Dispatch, At, Calls
  <2>3. Go(d, c) /\ UNCHANGED <<run, history, tokens, faults>>
    BY <1>1 DEF Dispatch, To
  <2> HIDE DEF c
  <2> QED
    BY <2>1, <2>2, <2>3, NoWrite, Here DEF history, evidence, told
<1>2. CASE ~Preflight(drv[d].cur)
  BY <1>2, EndKeeps, Here DEF Dispatch
<1> QED
  BY <1>1, <1>2

LEMMA SucceedKeeps ==
  ASSUME DriverInv, NEW d \in Drivers, Succeed(d)
  PROVE  DriverInv'
<1> DEFINE c == [drv[d] EXCEPT !.pc = "record"]
<1>1. c \in Calls
  BY Here DEF Calls
<1>2. Go(d, c) /\ UNCHANGED <<run, granted, told, tokens, faults>> /\ worked' = worked \cup {drv[d].cur}
  BY DEF Succeed, To, evidence, told
<1>3. drv[d].pc = "work" /\ drv[d].cur \in Steps
  BY Here DEF Succeed, At
<1>4. CallOK(drv[d], run, worked', granted, told)
  <2>1. Grows(run, run, worked, worked', granted, granted, told, told)
    BY <1>2, Here, RunKept
  <2> QED
    BY <2>1, Here, CallKept
<1>5. CallOK(c, run, worked', granted, told)
  <2>1. /\ c.pc = "record" /\ c.done = drv[d].done /\ c.cur = drv[d].cur /\ c.ph = drv[d].ph
        /\ c.approvals = drv[d].approvals
    BY Here DEF Calls
  <2>2. drv[d].cur \in worked' /\ run.state # "created"
    BY <1>2, <1>3, Here
  <2> HIDE DEF c
  <2> QED
    BY <1>3, <1>4, <2>1, <2>2 DEF CallOK
<1> HIDE DEF c
<1> QED
  BY <1>1, <1>2, <1>3, <1>5, NoWrite, Here

LEMMA FailKeeps ==
  ASSUME DriverInv, NEW d \in Drivers, Fail(d)
  PROVE  DriverInv'
<1> DEFINE c == [drv[d] EXCEPT !.pc = "failing"]
<1>1. c \in Calls
  BY Here DEF Calls
<1>2. Go(d, c) /\ UNCHANGED <<run, history, tokens>> /\ faults' = faults + 1
  BY DEF Fail, To
<1>3. CallOK(c, run, worked, granted, told)
  BY Here DEF CallOK, Calls, Fail, At
<1> HIDE DEF c
<1> QED
  BY <1>1, <1>2, <1>3, NoWrite, Here DEF history, evidence, told

LEMMA AbandonKeeps ==
  ASSUME DriverInv, NEW d \in Drivers, Abandon(d)
  PROVE  DriverInv'
BY EndKeeps, Here DEF Abandon

\* A write of the step records alone.
LEMMA StepsWrite ==
  ASSUME NEW r \in RunType, NEW w, NEW g, NEW sd, RunOK(r, w, g, sd),
         NEW new \in Seq(StepRecord), Len(r.steps) <= Len(new),
         \A i \in DOMAIN r.steps : new[i].name = r.steps[i].name, Backed(new, w, g),
         NEW r2, r2 = [r EXCEPT !.steps = new]
  PROVE  /\ r2 \in RunType /\ r2.state = r.state /\ r2.steps = new /\ r2.approvals = r.approvals
         /\ RunOK(r2, w, g, sd) /\ Grows(r, r2, w, w, g, g, sd, sd)
<1>1. r2 \in RunType /\ r2.state = r.state /\ r2.steps = new /\ r2.approvals = r.approvals
  BY DEF RunType
<1> QED
  BY <1>1, StepsSound

LEMMA PolicyDeniedKeeps ==
  ASSUME DriverInv, NEW d \in Drivers, PolicyDenied(d)
  PROVE  DriverInv'
<1>1. CASE MayMove("failed")
  <2> DEFINE rec == [name |-> drv[d].cur, att |-> 0, st |-> "failed"]
             new == Append(run.steps, rec)
             c == [drv[d] EXCEPT !.pc = "failing"]
  <2>1. /\ run' = [run EXCEPT !.state = "failed", !.steps = new]
        /\ Go(d, c) /\ UNCHANGED <<history, tokens>> /\ faults' = faults + 1
    BY <1>1 DEF PolicyDenied, To
  <2>2. drv[d].pc = "work" /\ drv[d].cur \in Steps /\ run.state # "created"
    BY Here DEF PolicyDenied, At
  <2>3. rec \in StepRecord /\ rec.st = "failed"
    BY <2>2 DEF StepRecord
  <2> HIDE DEF rec
  <2>4. Backed(run.steps, worked, granted)
    BY Here DEF RunOK
  <2>5. /\ new \in Seq(StepRecord) /\ Len(new) = Len(run.steps) + 1
        /\ \A i \in DOMAIN run.steps : new[i] = run.steps[i]
        /\ Backed(new, worked, granted)
    BY <2>3, <2>4, Here, AppendSound
  <2> HIDE DEF new
  <2>6. "failed" \in G!States
    BY DEF G!States, G!Terminal
  <2>7. /\ run' \in RunType /\ run'.state = "failed" /\ run'.steps = new
        /\ run'.approvals = run.approvals
    BY <2>1, <2>5, <2>6, Here DEF RunType
  <2>8. Len(run.steps) \in Nat
    BY Here
  <2>9. Grows(run, run', worked, worked, granted, granted, told, told)
    BY <2>5, <2>7, <2>8 DEF Grows
  <2>10. Asked(run'.approvals, run'.steps) /\ Told(run'.approvals, told)
    BY <2>7, <2>9, Here, AskedKept DEF RunOK, Grows
  <2>11. RunOK(run', worked, granted, told)
    BY <2>5, <2>7, <2>10 DEF RunOK
  <2>12. c \in Calls
    BY Here DEF Calls
  <2>13. CallOK(c, run, worked, granted, told)
    BY <2>2, Here DEF CallOK, Calls
  <2> HIDE DEF c
  <2>14. CallOK(c, run', worked, granted, told)
    BY <2>7, <2>9, <2>12, <2>13, Here, CallKept
  <2> QED
    BY <2>1, <2>7, <2>9, <2>11, <2>12, <2>14, RunWrite, Here
<1>2. CASE ~MayMove("failed")
  BY <1>2, EndKeeps, Here DEF PolicyDenied
<1> QED
  BY <1>1, <1>2

LEMMA RecordKeeps ==
  ASSUME DriverInv, NEW d \in Drivers, Record(d)
  PROVE  DriverInv'
<1> DEFINE rec == [name |-> drv[d].cur, att |-> drv[d].att, st |-> "completed"]
           new == Append(run.steps, rec)
           done == drv[d].done \cup {drv[d].cur}
           c == Top(run', done, drv[d].verdict)
<1>1. /\ run' = [run EXCEPT !.steps = new] /\ Go(d, c) /\ UNCHANGED <<history, tokens, faults>>
  BY DEF Record
<1>2. /\ drv[d].pc = "record" /\ drv[d].cur \in Steps /\ drv[d].cur \in worked
      /\ drv[d].cur \notin Gate /\ run.state # "created"
      /\ \A s \in drv[d].done : Through(worked, granted, s)
  BY Here DEF Record, At, CallOK
<1>3. /\ drv[d].att \in Nat /\ drv[d].done \in SUBSET Steps
      /\ drv[d].verdict \in {"ok", "exhausted", "cross_ref"}
  BY Here DEF Calls
<1>4. Through(worked, granted, drv[d].cur)
  BY <1>2 DEF Through
<1>5. rec \in StepRecord /\ rec.name = drv[d].cur
  BY <1>2, <1>3 DEF StepRecord
<1> HIDE DEF rec, c
<1>6. Backed(run.steps, worked, granted) /\ Len(run.steps) \in Nat
  BY Here DEF RunOK
<1>7. /\ new \in Seq(StepRecord) /\ Len(new) = Len(run.steps) + 1
      /\ \A i \in DOMAIN run.steps : new[i] = run.steps[i]
      /\ Backed(new, worked, granted)
  BY <1>4, <1>5, <1>6, Here, AppendSound
<1> HIDE DEF new
<1>8. /\ run' \in RunType /\ run'.state = run.state /\ RunOK(run', worked, granted, told)
      /\ Grows(run, run', worked, worked, granted, granted, told, told)
  BY <1>1, <1>6, <1>7, Here, StepsWrite
<1>9. c \in Calls /\ CallOK(c, run', worked, granted, told)
  <2>1. done \in SUBSET Steps /\ \A s \in done : Through(worked, granted, s)
    BY <1>2, <1>3, <1>4
  <2> HIDE DEF done
  <2> QED
    BY <1>2, <1>3, <1>8, <2>1, TopSound DEF c
<1> QED
  BY <1>1, <1>8, <1>9, RunWrite, Here

\* The record of a failed attempt is added or found, and names the step.
LEMMA FailedAttemptSound ==
  ASSUME NEW steps \in Seq(StepRecord), NEW w, NEW g, Backed(steps, w, g),
         NEW s \in Steps, NEW att \in Nat
  PROVE  LET new == FailedAttempt(steps, s, att)
         IN  /\ new \in Seq(StepRecord) /\ Len(steps) <= Len(new)
             /\ \A i \in DOMAIN steps : new[i].name = steps[i].name
             /\ Backed(new, w, g) /\ Of(new, s) # {}
<1> DEFINE named == {i \in Of(steps, s) : att = 1 /\ steps[i].att = 1}
           new == FailedAttempt(steps, s, att)
<1>1. Len(steps) \in Nat /\ DOMAIN steps = 1 .. Len(steps)
  BY LenProperties
<1>2. CASE named = {}
  <2> DEFINE rec == [name |-> s, att |-> att, st |-> "failed"]
  <2>1. rec \in StepRecord /\ rec.st = "failed" /\ rec.name = s
    BY DEF StepRecord
  <2>2. new = Append(steps, rec)
    BY <1>2 DEF FailedAttempt
  <2> HIDE DEF rec, new
  <2>3. /\ new \in Seq(StepRecord) /\ Len(new) = Len(steps) + 1
        /\ \A i \in DOMAIN steps : new[i] = steps[i]
        /\ Len(new) \in Of(new, rec.name) /\ Backed(new, w, g)
    BY <2>1, <2>2, AppendSound
  <2> QED
    BY <1>1, <2>1, <2>3 DEF new
<1>3. CASE named # {}
  <2> DEFINE k == CHOOSE i \in named : \A j \in named : i <= j
  <2>1. named \in SUBSET Nat
    BY <1>1 DEF Of
  <2>2. k \in named
    <3> HIDE DEF named
    <3> QED
      BY <1>3, <2>1, LeastElement
  <2>3. k \in DOMAIN steps /\ steps[k].name = s
    BY <2>2 DEF Of
  <2>4. new = SetState(steps, k, "failed")
    BY <1>3 DEF FailedAttempt, SetState
  <2> HIDE DEF k, named, new
  <2>5. /\ new \in Seq(StepRecord) /\ Len(new) = Len(steps)
        /\ \A i \in DOMAIN steps : new[i].name = steps[i].name
        /\ Backed(new, w, g)
    BY <2>3, <2>4, UpdateSound
  <2>6. k \in Of(new, s)
    BY <1>1, <2>3, <2>5, LenProperties DEF Of
  <2> QED
    BY <1>1, <2>5, <2>6 DEF new
<1> QED
  BY <1>2, <1>3

LEMMA StepFailedKeeps ==
  ASSUME DriverInv, NEW d \in Drivers, StepFailed(d)
  PROVE  DriverInv'
<1> DEFINE new == FailedAttempt(run.steps, drv[d].cur, drv[d].att)
           pc == AfterFailure(drv[d].cur, drv[d].att)
           c == [drv[d] EXCEPT !.pc = pc, !.approvals = run.approvals]
<1>1. /\ run' = [run EXCEPT !.steps = new] /\ Go(d, c) /\ UNCHANGED <<history, tokens, faults>>
  BY DEF StepFailed
<1>2. drv[d].pc = "failing" /\ drv[d].cur \in Steps /\ run.state # "created" /\ drv[d].ph = 0
  BY Here DEF StepFailed, At
<1>3. drv[d].att \in Nat /\ pc \in {"escalate", "placeholder", "fail"}
  BY Here DEF Calls, AfterFailure
<1> HIDE DEF pc
<1>4. Backed(run.steps, worked, granted) /\ Asked(run.approvals, run.steps) /\ Told(run.approvals, told)
  BY Here DEF RunOK
<1>5. /\ new \in Seq(StepRecord) /\ Len(run.steps) <= Len(new)
      /\ \A i \in DOMAIN run.steps : new[i].name = run.steps[i].name
      /\ Backed(new, worked, granted) /\ Of(new, drv[d].cur) # {}
  BY <1>2, <1>3, <1>4, Here, FailedAttemptSound
<1> HIDE DEF new
<1>6. /\ run' \in RunType /\ run'.state = run.state /\ run'.steps = new
      /\ RunOK(run', worked, granted, told)
      /\ Grows(run, run', worked, worked, granted, granted, told, told)
  BY <1>1, <1>5, Here, StepsWrite
<1>7. c \in Calls
  BY <1>3, Here DEF Calls
<1>8. /\ c.pc = pc /\ c.approvals = run.approvals /\ c.cur = drv[d].cur /\ c.done = drv[d].done
      /\ c.ph = 0
  BY <1>2, Here DEF Calls
<1> HIDE DEF c
<1>9. Asked(c.approvals, run'.steps)
  BY <1>4, <1>6, <1>8, Here, AskedKept DEF Grows
<1>10. CallOK(c, run', worked, granted, told)
  BY <1>2, <1>3, <1>4, <1>5, <1>6, <1>8, <1>9, Here DEF CallOK
<1> QED
  BY <1>1, <1>6, <1>7, <1>10, RunWrite, Here

LEMMA PlaceholderKeeps ==
  ASSUME DriverInv, NEW d \in Drivers, Placeholder(d)
  PROVE  DriverInv'
<1> DEFINE rec == [name |-> drv[d].cur, att |-> 2, st |-> "running"]
           new == Append(run.steps, rec)
           c == [drv[d] EXCEPT !.pc = "dispatch", !.att = 2, !.ph = Len(run'.steps)]
<1>1. /\ run' = [run EXCEPT !.steps = new] /\ Go(d, c) /\ UNCHANGED <<history, tokens, faults>>
  BY DEF Placeholder
<1>2. drv[d].pc = "placeholder" /\ drv[d].cur \in Steps /\ run.state # "created"
  BY Here DEF Placeholder, At
<1>3. rec \in StepRecord /\ rec.st = "running" /\ rec.name = drv[d].cur
  BY <1>2 DEF StepRecord
<1> HIDE DEF rec
<1>4. Backed(run.steps, worked, granted) /\ Len(run.steps) \in Nat
  BY Here DEF RunOK
<1>5. /\ new \in Seq(StepRecord) /\ Len(new) = Len(run.steps) + 1
      /\ \A i \in DOMAIN run.steps : new[i] = run.steps[i]
      /\ Len(new) \in Of(new, drv[d].cur) /\ Backed(new, worked, granted)
  BY <1>3, <1>4, Here, AppendSound
<1> HIDE DEF new
<1>6. /\ run' \in RunType /\ run'.state = run.state /\ run'.steps = new
      /\ RunOK(run', worked, granted, told)
      /\ Grows(run, run', worked, worked, granted, granted, told, told)
  BY <1>1, <1>4, <1>5, Here, StepsWrite
<1>7. c \in Calls /\ c.ph \in DOMAIN run'.steps /\ run'.steps[c.ph].name = drv[d].cur
  <2>1. Len(run'.steps) \in Nat /\ c.ph = Len(run'.steps)
    BY <1>4, <1>5, <1>6, Here DEF Calls
  <2>2. c \in Calls
    BY <2>1, Here DEF Calls
  <2>3. Len(new) \in DOMAIN new /\ new[Len(new)].name = drv[d].cur
    BY <1>5 DEF Of
  <2> HIDE DEF c
  <2> QED
    BY <1>6, <2>1, <2>2, <2>3
<1>8. /\ c.pc = "dispatch" /\ c.approvals = drv[d].approvals /\ c.cur = drv[d].cur
      /\ c.done = drv[d].done
  BY Here DEF Calls
<1> HIDE DEF c
<1>9. CallOK(drv[d], run', worked, granted, told)
  BY <1>6, Here, CallKept
<1>10. CallOK(c, run', worked, granted, told)
  BY <1>2, <1>6, <1>7, <1>8, <1>9 DEF CallOK
<1> QED
  BY <1>1, <1>6, <1>7, <1>10, RunWrite, Here

\* The placeholder's fate: it keeps its name, and completed stands for the work.
LEMMA PlaceholderWrite ==
  ASSUME DriverInv, NEW d \in Drivers, drv[d].ph > 0, drv[d].pc # "idle",
         NEW st \in {"completed", "failed"},
         st = "completed" => drv[d].cur \in worked /\ drv[d].cur \notin Gate,
         run' = [run EXCEPT !.steps[drv[d].ph].st = st]
  PROVE  /\ run' \in RunType /\ run'.state = run.state /\ RunOK(run', worked, granted, told)
         /\ Grows(run, run', worked, worked, granted, granted, told, told)
<1> DEFINE k == drv[d].ph
           new == SetState(run.steps, k, st)
<1>1. k \in DOMAIN run.steps /\ run.steps[k].name = drv[d].cur
  BY Here DEF CallOK
<1>2. Backed(run.steps, worked, granted) /\ Len(run.steps) \in Nat
  BY Here DEF RunOK
<1>3. st = "completed" => Through(worked, granted, run.steps[k].name)
  BY <1>1 DEF Through
<1>4. run' = [run EXCEPT !.steps = new]
  BY Here DEF RunType, SetState
<1> HIDE DEF k
<1>5. /\ new \in Seq(StepRecord) /\ Len(new) = Len(run.steps)
      /\ \A i \in DOMAIN run.steps : new[i].name = run.steps[i].name
      /\ Backed(new, worked, granted)
  BY <1>1, <1>2, <1>3, Here, UpdateSound
<1> HIDE DEF new
<1> QED
  BY <1>2, <1>4, <1>5, Here, StepsWrite

LEMMA RetrySucceededKeeps ==
  ASSUME DriverInv, NEW d \in Drivers, RetrySucceeded(d)
  PROVE  DriverInv'
<1>1. /\ drv[d].pc = "record" /\ drv[d].ph > 0
      /\ run' = [run EXCEPT !.steps[drv[d].ph].st = "completed"]
      /\ Go(d, Loop(run', drv[d].verdict)) /\ UNCHANGED <<history, tokens, faults>>
  BY DEF RetrySucceeded, At
<1>2. drv[d].cur \in worked /\ drv[d].cur \notin Gate /\ run.state # "created"
  BY <1>1, Here DEF CallOK
<1>3. /\ run' \in RunType /\ run'.state = run.state /\ RunOK(run', worked, granted, told)
      /\ Grows(run, run', worked, worked, granted, granted, told, told)
  BY <1>1, <1>2, PlaceholderWrite
<1>4. drv[d].verdict \in {"ok", "exhausted", "cross_ref"}
  BY Here DEF Calls
<1>5. /\ Loop(run', drv[d].verdict) \in Calls
      /\ CallOK(Loop(run', drv[d].verdict), run', worked, granted, told)
  BY <1>2, <1>3, <1>4, LoopSound
<1> QED
  BY <1>1, <1>3, <1>5, RunWrite, Here

LEMMA RetryFailedKeeps ==
  ASSUME DriverInv, NEW d \in Drivers, RetryFailed(d)
  PROVE  DriverInv'
<1>1. /\ drv[d].pc = "failing" /\ drv[d].ph > 0
      /\ run' = [run EXCEPT !.steps[drv[d].ph].st = "failed"]
      /\ Go(d, Failing) /\ UNCHANGED <<history, tokens, faults>>
  BY DEF RetryFailed, At
<1>2. /\ run' \in RunType /\ run'.state = run.state /\ RunOK(run', worked, granted, told)
      /\ Grows(run, run', worked, worked, granted, granted, told, told)
  BY <1>1, PlaceholderWrite
<1>3. Failing \in Calls /\ CallOK(Failing, run', worked, granted, told)
  BY <1>1, <1>2, Here, FailingSound
<1> QED
  BY <1>1, <1>2, <1>3, RunWrite, Here

LEMMA FailRunKeeps ==
  ASSUME DriverInv, NEW d \in Drivers, FailRun(d)
  PROVE  DriverInv'
<1>1. CASE MayMove("failed")
  <2>1. run' = [run EXCEPT !.state = "failed"] /\ End(d) /\ UNCHANGED <<history, tokens, faults>>
    BY <1>1 DEF FailRun
  <2>2. "failed" \in G!States \ {"created", "waiting_approval"}
    BY DEF G!States, G!Terminal
  <2>3. /\ run' \in RunType /\ RunOK(run', worked, granted, told)
        /\ Grows(run, run', worked, worked, granted, granted, told, told)
    BY <2>1, <2>2, Here, StateSound
  <2> QED
    BY <2>1, <2>3, RunWrite, IdleSound, Here DEF End
<1>2. CASE ~MayMove("failed")
  BY <1>2, EndKeeps, Here DEF FailRun
<1> QED
  BY <1>1, <1>2

LEMMA WalkKeeps ==
  ASSUME DriverInv, NEW d \in Drivers, Walk(d)
  PROVE  DriverInv'
<1> DEFINE t == Head(drv[d].chain)
           rest == Tail(drv[d].chain)
           c == [drv[d] EXCEPT !.chain = rest]
<1>1. /\ drv[d].pc = "walk" /\ drv[d].chain # <<>> /\ drv[d].chain \in Seq(G!States)
      /\ \A i \in DOMAIN drv[d].chain : drv[d].chain[i] \in {"applying", "verifying", "completed"}
      /\ \A s \in Steps : Through(worked, granted, s)
      /\ run.state # "created"
  BY Here DEF Walk, At, CallOK, Calls
<1>2. /\ DOMAIN drv[d].chain = 1 .. Len(drv[d].chain) /\ Len(drv[d].chain) \in Nat \ {0}
      /\ t = drv[d].chain[1] /\ rest \in Seq(G!States)
      /\ Len(rest) = Len(drv[d].chain) - 1
      /\ \A i \in 1 .. Len(rest) : rest[i] = drv[d].chain[i + 1]
  BY <1>1, HeadTailProperties, LenProperties, EmptySeq
<1>3. t \in {"applying", "verifying", "completed"} /\ t \in G!States \ {"created", "waiting_approval"}
  BY <1>1, <1>2 DEF G!States, G!Terminal
<1>4. \A i \in DOMAIN rest : rest[i] \in {"applying", "verifying", "completed"}
  <2>1. DOMAIN rest = 1 .. Len(rest)
    BY <1>2, LenProperties
  <2> HIDE DEF rest
  <2> QED
    BY <1>1, <1>2, <2>1
<1> HIDE DEF t, rest
<1>5. CASE MayMove(t)
  <2>1. /\ run' = [run EXCEPT !.state = t] /\ UNCHANGED <<history, tokens, faults>>
        /\ IF rest = <<>> THEN End(d) ELSE Go(d, c)
    BY <1>5 DEF Walk, t, rest
  <2>2. /\ run' \in RunType /\ run'.state = t /\ RunOK(run', worked, granted, told)
        /\ Grows(run, run', worked, worked, granted, granted, told, told)
    BY <1>1, <1>3, <2>1, Here, StateSound
  <2>3. CASE rest = <<>>
    BY <2>1, <2>2, <2>3, RunWrite, IdleSound, Here DEF End
  <2>4. CASE rest # <<>>
    <3>1. c \in Calls
      <4>1. rest \in Seq(G!States) /\ drv[d] \in Calls
        BY <1>2, Here
      <4> QED
        BY <4>1 DEF Calls
    <3>2. /\ c.pc = "walk" /\ c.chain = rest /\ c.done = drv[d].done /\ c.cur = drv[d].cur
          /\ c.ph = drv[d].ph /\ c.approvals = drv[d].approvals
      BY <1>1, Here DEF Calls
    <3> HIDE DEF c
    <3>3. CallOK(drv[d], run', worked, granted, told)
      BY <2>2, Here, CallKept
    <3>4. CallOK(c, run', worked, granted, told)
      BY <1>1, <1>3, <1>4, <2>2, <2>4, <3>2, <3>3 DEF CallOK
    <3> QED
      BY <2>1, <2>2, <2>4, <3>1, <3>4, RunWrite, Here
  <2> QED
    BY <2>3, <2>4
<1>6. CASE ~MayMove(t)
  BY <1>6, EndKeeps, Here DEF Walk, t
<1> QED
  BY <1>5, <1>6

LEMMA NextKeeps == DriverInv /\ [Next]_vars => DriverInv'
<1> SUFFICES ASSUME DriverInv, [Next]_vars PROVE DriverInv'
  OBVIOUS
<1>1. CASE UNCHANGED vars
  BY <1>1 DEF vars, history, evidence, told, DriverInv, TypeOK
<1>2. ASSUME NEW d \in Drivers,
             RunWorkflow(d) \/ Resume(d) \/ Continue(d) \/ Fail(d) \/ PolicyDenied(d) \/ Abandon(d)
      PROVE  DriverInv'
  <2>1. CASE Continue(d)
    <3>1. CASE OpenGate(d) \/ Escalate(d)
      BY <3>1, AskKeeps DEF OpenGate, Escalate, At
    <3>2. CASE Begin(d) \/ Grant(d) \/ Deny(d) \/ Dispatch(d) \/ Succeed(d)
      BY <3>2, BeginKeeps, GrantKeeps, DenyKeeps, DispatchKeeps, SucceedKeeps
    <3>3. CASE Record(d) \/ StepFailed(d) \/ Placeholder(d) \/ RetrySucceeded(d)
      BY <3>3, RecordKeeps, StepFailedKeeps, PlaceholderKeeps, RetrySucceededKeeps
    <3>4. CASE RetryFailed(d) \/ FailRun(d) \/ Walk(d)
      BY <3>4, RetryFailedKeeps, FailRunKeeps, WalkKeeps
    <3> QED
      BY <2>1, <3>1, <3>2, <3>3, <3>4 DEF Continue
  <2> QED
    BY <1>2, <2>1, RunWorkflowKeeps, ResumeKeeps, FailKeeps, PolicyDeniedKeeps, AbandonKeeps
<1> QED
  BY <1>1, <1>2 DEF Next

-----------------------------------------------------------------------------
(* The theorems                                                            *)

THEOREM DriverInvariant == Spec => []DriverInv
BY InitSound, NextKeeps, PTL DEF Spec

\* The record, the calls and the counters keep their types, whatever the
\* workflow definition and however many drivers there are.
THEOREM DriverTypeCorrect == Spec => []TypeOK
<1>1. DriverInv => TypeOK
  BY DEF DriverInv
<1> QED
  BY <1>1, DriverInvariant, PTL

\* Work is done behind granted gates and finished steps only.
THEOREM WorksInOrder == Spec => []WorkInOrder
<1>1. DriverInv => WorkInOrder
  <2> SUFFICES ASSUME DriverInv, NEW d \in Drivers, drv[d].pc = "work"
               PROVE  drv[d].cur \notin Gate /\ \A j \in 1 .. (drv[d].cur - 1) : G!Passed(j)
    BY DEF WorkInOrder, At
  <2>1. CallOK(drv[d], run, worked, granted, told)
    BY Here
  <2> QED
    BY <2>1 DEF CallOK, Through, G!Passed
<1> QED
  BY <1>1, DriverInvariant, PTL

\* The position derived from the record passes no step by that has not passed.
THEOREM PositionIsTruthful == Spec => []PositionTruthful
<1>1. DriverInv => PositionTruthful
  <2> SUFFICES ASSUME DriverInv, NEW s \in Completed(run.steps) PROVE G!Passed(s)
    BY DEF PositionTruthful
  <2>1. run.steps \in Seq(StepRecord) /\ Backed(run.steps, worked, granted)
    BY DEF DriverInv, TypeOK, RunOK
  <2>2. Through(worked, granted, s)
    BY <2>1, CompletedSound
  <2> QED
    BY <2>2 DEF Through, G!Passed
<1> QED
  BY <1>1, DriverInvariant, PTL

\* A run that waits can be resumed.
THEOREM WaitingCanBeResumed == Spec => []WaitingHasToken
<1>1. DriverInv => WaitingHasToken
  BY DEF DriverInv, RunOK, WaitingHasToken
<1> QED
  BY <1>1, DriverInvariant, PTL

\* Every grant in the record was told to the evidence before: its event is there,
\* or the write of that event failed.
THEOREM GrantsAreEvidenced == Spec => []DecisionsEvidenced
<1>1. DriverInv => DecisionsEvidenced
  BY DEF DriverInv, RunOK, Told, DecisionsEvidenced, told
<1> QED
  BY <1>1, DriverInvariant, PTL

-----------------------------------------------------------------------------
(* Every step of the driver is one of GovernedRun, or a stutter.           *)

LEMMA Moves ==
  ASSUME NEW t, MayMove(t), run'.state = t, UNCHANGED history,
         t \in {"applying", "verifying", "completed"} => \A s \in Steps : Through(worked, granted, s)
  PROVE  G!Move
<1>1. t \in G!Transitions(run.state)
  BY DEF MayMove, G!MayMove
<1>2. t \in {"applying", "verifying", "completed"} => G!AllPassed
  BY DEF G!AllPassed, G!Passed, Through, Steps
<1> QED
  BY <1>1, <1>2 DEF G!Move, history, evidence, told

LEMMA StepRefines ==
  ASSUME DriverInv, [Next]_vars
  PROVE  [G!Next]_<<run.state, worked, granted>>
<1> DEFINE Stutter == UNCHANGED <<run.state, worked, granted>>
<1>1. CASE UNCHANGED vars
  BY <1>1 DEF vars, history
<1>2. ASSUME NEW d \in Drivers,
             RunWorkflow(d) \/ Resume(d) \/ Continue(d) \/ Fail(d) \/ PolicyDenied(d) \/ Abandon(d)
      PROVE  G!Next \/ Stutter
  <2>1. run.state \in G!States /\ run \in RunType
    BY Here
  <2>2. CASE RunWorkflow(d) \/ Resume(d) \/ Dispatch(d) \/ Fail(d) \/ Abandon(d)
    BY <2>2 DEF RunWorkflow, Resume, Dispatch, Fail, Abandon, history, evidence, told
  <2>3. CASE Record(d) \/ StepFailed(d) \/ Placeholder(d) \/ RetrySucceeded(d) \/ RetryFailed(d)
    BY <2>1, <2>3 DEF Record, StepFailed, Placeholder, RetrySucceeded, RetryFailed, history, evidence, told, RunType
  <2>4. CASE Begin(d)
    <3>1. CASE MayMove("running")
      BY <2>1, <2>4, <3>1, Moves DEF Begin, RunType, G!Next
    <3>2. CASE ~MayMove("running")
      BY <2>4, <3>2 DEF Begin, history, evidence, told
    <3> QED
      BY <3>1, <3>2
  <2>5. CASE Grant(d)
    <3>1. CASE MayMove("running")
      <4>1. drv[d].pc = "granted" /\ drv[d].cur \in Steps /\ run.state # "created"
        BY <2>5, Here DEF Grant, At
      <4>2. G!Grant(drv[d].cur)
        BY <2>5, <3>1, <4>1 DEF Grant, G!Grant, MayMove
      <4> QED
        BY <4>1, <4>2 DEF G!Next, Steps
    <3>2. CASE ~MayMove("running")
      BY <2>5, <3>2 DEF Grant
    <3> QED
      BY <3>1, <3>2
  <2>6. CASE Deny(d) \/ FailRun(d)
    <3>1. UNCHANGED history
      BY <2>6 DEF Deny, FailRun
    <3>2. \/ run' = run
          \/ MayMove("cancelled") /\ run' = [run EXCEPT !.state = "cancelled"]
          \/ MayMove("failed") /\ run' = [run EXCEPT !.state = "failed"]
      BY <2>6 DEF Deny, FailRun
    <3> QED
      BY <2>1, <3>1, <3>2, Moves DEF RunType, G!Next, history, evidence, told
  <2>7. CASE OpenGate(d) \/ Escalate(d)
    <3>1. CASE MayMove("waiting_approval")
      BY <2>1, <2>7, <3>1, Moves DEF OpenGate, Escalate, Ask, RunType, G!Next
    <3>2. CASE ~MayMove("waiting_approval")
      BY <2>7, <3>2 DEF OpenGate, Escalate, Ask, history, evidence, told
    <3> QED
      BY <3>1, <3>2
  <2>8. CASE PolicyDenied(d)
    <3>1. CASE MayMove("failed")
      BY <2>1, <2>8, <3>1, Moves DEF PolicyDenied, RunType, G!Next
    <3>2. CASE ~MayMove("failed")
      BY <2>8, <3>2 DEF PolicyDenied, history, evidence, told
    <3> QED
      BY <3>1, <3>2
  <2>9. CASE Succeed(d)
    <3>1. /\ drv[d].cur \in Steps /\ drv[d].cur \notin Gate
          /\ \A j \in 1 .. (drv[d].cur - 1) : G!Passed(j)
      BY <2>9, Here DEF Succeed, At, CallOK, G!Passed, Through
    <3>2. G!Work(drv[d].cur)
      BY <2>9, <3>1 DEF Succeed, G!Work
    <3> QED
      BY <3>1, <3>2 DEF G!Next, Steps
  <2>10. CASE Walk(d)
    <3> DEFINE t == Head(drv[d].chain)
    <3>1. \A s \in Steps : Through(worked, granted, s)
      BY <2>10, Here DEF Walk, At, CallOK
    <3>2. UNCHANGED history /\ IF MayMove(t) THEN run' = [run EXCEPT !.state = t] ELSE UNCHANGED run
      BY <2>10 DEF Walk
    <3> HIDE DEF t
    <3> QED
      BY <2>1, <3>1, <3>2, Moves DEF RunType, G!Next, history, evidence, told
  <2> QED
    BY <1>2, <2>2, <2>3, <2>4, <2>5, <2>6, <2>7, <2>8, <2>9, <2>10 DEF Continue
<1> QED
  BY <1>1, <1>2 DEF Next

\* The driver keeps the promises of GovernedRun, for every workflow definition.
THEOREM DriverRefinesRun == Spec => ImplementsGovernedRun
<1>1. Init => G!Init
  BY DEF Init, G!Init
<1>2. DriverInv /\ [Next]_vars => [G!Next]_<<run.state, worked, granted>>
  BY StepRefines
<1> QED
  BY <1>1, <1>2, DriverInvariant, PTL DEF Spec, ImplementsGovernedRun, G!Spec
=============================================================================

--------------------------- MODULE WorkflowDriver ---------------------------
(***************************************************************************)
(* MultiStepDriver.run_workflow and resume_workflow on one run record.     *)
(* Every write goes through update_run, which re-reads the record under    *)
(* the run's lock and mutates what it reads: a write is one action here,   *)
(* or the call gives up (Abandon).  What the call decided before that      *)
(* write it decided on the copy it took at its last read or write (rec).   *)
(***************************************************************************)
EXTENDS Naturals, Sequences

CONSTANTS
  N, Gate,      \* as in GovernedRun
  Adapter,      \* the steps an adapter runs, through Executor.run_step
  OnFailure,    \* OnFailure[s]: the step's on_failure
  Drivers,      \* the processes that may call the driver
  Verdicts,     \* what a call's budget and cross-references may say
  MaxFaults     \* bound: failing steps, abandoned calls and lost events together

VARIABLES
  run,      \* the run record: state, steps, approvals
  drv,      \* drv[d]: the call d is in the middle of
  worked,   \* history: the steps whose work has succeeded at least once
  granted,  \* history: the steps a human has granted
  said,     \* history: the tokens with an approval_granted in the evidence
  unsaid,   \* history: the tokens whose approval_granted could not be written
  tokens,   \* the approval tokens issued
  faults    \* the failing steps, abandoned calls and lost events so far

G == INSTANCE GovernedRun WITH state <- run.state

Steps == G!Steps
MayMove(t) == G!MayMove(run.state, t)

evidence == <<said, unsaid>>
history == <<worked, granted, evidence>>
vars == <<run, drv, history, tokens, faults>>

Policies == {"transition_to_failed", "retry_once", "escalate_to_human"}

ASSUME DriverAssumption ==
  /\ N \in Nat /\ Gate \subseteq Steps
  /\ Adapter \subseteq Steps \ Gate
  /\ OnFailure \in [Steps -> Policies]
  /\ Verdicts \subseteq {"ok", "exhausted", "cross_ref"}
  /\ MaxFaults \in Nat

StepRecord == [name : Steps, att : Nat, st : {"running", "completed", "failed"}]
\* att 0: the record Executor._fail_run writes has no attempt, and is read as
\* one of attempt 1.
Attempt(rec) == IF rec.att = 0 THEN 1 ELSE rec.att

Approval == [token : Nat, step : Steps, decision : {"none", "granted"}]

-----------------------------------------------------------------------------
(* The position of a run, derived from its step records.                   *)

Of(steps, s) == {i \in DOMAIN steps : steps[i].name = s}

\* IsTop(steps, i): i is the record _completed_step_names keeps for its name:
\* the highest attempt, and the first of equal ones.
IsTop(steps, i) ==
  \A j \in Of(steps, steps[i].name) :
    \/ Attempt(steps[j]) < Attempt(steps[i])
    \/ Attempt(steps[j]) = Attempt(steps[i]) /\ i <= j

Completed(steps) ==
  {s \in Steps : \E i \in Of(steps, s) : IsTop(steps, i) /\ steps[i].st = "completed"}

\* _next_attempt_number: a running placeholder of the highest attempt keeps
\* its number.
NextAttempt(steps, s) ==
  IF Of(steps, s) = {} THEN 1
  ELSE LET highest == CHOOSE a \in {Attempt(steps[i]) : i \in Of(steps, s)} :
                        \A i \in Of(steps, s) : Attempt(steps[i]) <= a
       IN IF \E i \in Of(steps, s) :
               Attempt(steps[i]) = highest /\ steps[i].st = "running"
          THEN highest ELSE highest + 1

\* NextStep(done): the step the loop is at, N + 1 past the last.
NextStep(done) ==
  CHOOSE s \in 1..(N + 1) : s \notin done /\ \A j \in 1..(s - 1) : j \in done

\* _find_pending_approval
Pending(r) == {a \in {r.approvals[i] : i \in DOMAIN r.approvals} : a.decision = "none"}

-----------------------------------------------------------------------------
(* A call in progress.  What it took from its copy of the record it keeps   *)
(* only as far as it still acts on it: the approvals, the attempt number,  *)
(* the names done, the walk.  ph is the place of the attempt-2 placeholder *)
(* among the records, which are only ever appended to and updated in       *)
(* place; 0 is no placeholder.                                             *)

Idle == [pc |-> "idle", done |-> {}, cur |-> 1, att |-> 0, ph |-> 0, verdict |-> "ok",
         approvals |-> <<>>, tok |-> 0, chain |-> <<>>]

At(d, pc) == drv[d].pc = pc
Go(d, call) == drv' = [drv EXCEPT ![d] = call]
End(d) == Go(d, Idle)
To(d, pc) == Go(d, [drv[d] EXCEPT !.pc = pc])
Failing == [Idle EXCEPT !.pc = "fail"]

\* The walk to completed starts from the state in the copy.
ChainFrom(s) ==
  CASE s = "running" -> <<"applying", "verifying", "completed">>
    [] s = "applying" -> <<"verifying", "completed">>
    [] OTHER -> <<"completed">>

\* Mutant: the loop does not stop at a gate.
TopUngated(r, done, verdict) ==
  LET s == NextStep(done) IN
  CASE s = N + 1 -> [Idle EXCEPT !.pc = "walk", !.chain = ChainFrom(r.state)]
    [] s <= N /\ verdict = "exhausted" -> Failing
    [] OTHER -> [Idle EXCEPT !.pc = "dispatch", !.cur = s, !.done = done,
                   !.verdict = verdict, !.att = NextAttempt(r.steps, s)]

\* Top(r, done, verdict): the top of the loop, with the copy r: the walk after
\* the last step, the budget the call was given, the gate, the next dispatch.
Top(r, done, verdict) ==
  LET s == NextStep(done) IN
  CASE s = N + 1 -> [Idle EXCEPT !.pc = "walk", !.chain = ChainFrom(r.state)]
    [] s <= N /\ verdict = "exhausted" -> Failing
    [] s \in Gate /\ verdict # "exhausted" ->
         [Idle EXCEPT !.pc = "gate", !.cur = s, !.approvals = r.approvals]
    [] OTHER -> [Idle EXCEPT !.pc = "dispatch", !.cur = s, !.done = done,
                   !.verdict = verdict, !.att = NextAttempt(r.steps, s)]

\* _main_loop's entry: the position is derived once, from the record in hand.
Loop(r, verdict) == Top(r, Completed(r.steps), verdict)

\* Where a call starts once the run is running: cross-references come first.
Start(r, verdict) == IF verdict = "cross_ref" THEN Failing ELSE Loop(r, verdict)

Init ==
  /\ run = [state |-> "created", steps |-> <<>>, approvals |-> <<>>]
  /\ drv = [d \in Drivers |-> Idle]
  /\ worked = {} /\ granted = {} /\ said = {} /\ unsaid = {}
  /\ tokens = 0 /\ faults = 0

-----------------------------------------------------------------------------
(* run_workflow                                                            *)

\* Mutant: only a created run is taken up.
RunWorkflowOnce(d) ==
  /\ At(d, "idle")
  /\ \E verdict \in Verdicts :
       run.state = "created" /\ Go(d, [Idle EXCEPT !.pc = "begin", !.verdict = verdict])
  /\ UNCHANGED <<run, history, tokens, faults>>

\* The record is read.  The other states return or raise without a write.
RunWorkflow(d) ==
  /\ At(d, "idle")
  /\ \E verdict \in Verdicts :
       \/ run.state = "created" /\ Go(d, [Idle EXCEPT !.pc = "begin", !.verdict = verdict])
       \/ /\ run.state = "running"
          /\ Go(d, Start(run, verdict))
  /\ UNCHANGED <<run, history, tokens, faults>>

Begin(d) ==
  /\ At(d, "begin")
  /\ IF MayMove("running")
     THEN /\ run' = [run EXCEPT !.state = "running"]
          /\ Go(d, Start(run', drv[d].verdict))
     ELSE End(d) /\ UNCHANGED run
  /\ UNCHANGED <<history, tokens, faults>>

-----------------------------------------------------------------------------
(* resume_workflow, with an approval token                                 *)

\* Mutant: the decision reaches the evidence only once the record has it.
ResumeSilently(d) ==
  /\ At(d, "idle")
  /\ \E a \in Pending(run), dec \in {"granted", "denied"} :
       Go(d, [Idle EXCEPT !.pc = dec, !.tok = a.token, !.cur = a.step])
  /\ UNCHANGED <<run, history, tokens, faults>>

\* The token is looked up among the undecided approvals of the record read,
\* and the decision goes to the evidence before it goes to the record.  _emit
\* swallows an event it cannot write, and the decision is taken all the same.
Resume(d) ==
  /\ At(d, "idle")
  /\ \E a \in Pending(run), dec \in {"granted", "denied"} :
       /\ \/ /\ said' = IF dec = "granted" THEN said \cup {a.token} ELSE said
             /\ UNCHANGED <<unsaid, faults>>
          \/ /\ dec = "granted" /\ faults < MaxFaults
             /\ unsaid' = unsaid \cup {a.token} /\ faults' = faults + 1
             /\ UNCHANGED said
       /\ Go(d, [Idle EXCEPT !.pc = dec, !.tok = a.token, !.cur = a.step])
  /\ UNCHANGED <<run, worked, granted, tokens>>

Decided(approvals, token) ==
  [i \in DOMAIN approvals |->
     IF approvals[i].token = token THEN [approvals[i] EXCEPT !.decision = "granted"]
     ELSE approvals[i]]

\* Mutant: the approval counts as the step's next attempt.
ApprovedNext(steps, s) ==
  IF \E i \in Of(steps, s) : steps[i].st = "completed" THEN steps
  ELSE Append(steps, [name |-> s, att |-> NextAttempt(steps, s), st |-> "completed"])

\* The approved step gets a completed record of attempt 1, unless it has one.
Approved(steps, s) ==
  IF \E i \in Of(steps, s) : steps[i].st = "completed" THEN steps
  ELSE Append(steps, [name |-> s, att |-> 1, st |-> "completed"])

\* Mutant: the state is set without validate_transition.
GrantAnyState(d) ==
  /\ At(d, "granted")
  /\ \E verdict \in Verdicts \ {"cross_ref"} :
       /\ run' = [state |-> "running", steps |-> Approved(run.steps, drv[d].cur),
                  approvals |-> Decided(run.approvals, drv[d].tok)]
       /\ granted' = granted \cup {drv[d].cur}
       /\ Go(d, Loop(run', verdict))
  /\ UNCHANGED <<worked, evidence, tokens, faults>>

Grant(d) ==
  /\ At(d, "granted")
  /\ IF MayMove("running")
     THEN \E verdict \in Verdicts \ {"cross_ref"} :
            /\ run' = [state |-> "running", steps |-> Approved(run.steps, drv[d].cur),
                       approvals |-> Decided(run.approvals, drv[d].tok)]
            /\ granted' = granted \cup {drv[d].cur}
            /\ Go(d, Loop(run', verdict))
     ELSE End(d) /\ UNCHANGED <<run, granted>>
  /\ UNCHANGED <<worked, evidence, tokens, faults>>

\* A denial cancels the run and is not written to the approval.
Deny(d) ==
  /\ At(d, "denied")
  /\ run' = IF MayMove("cancelled") THEN [run EXCEPT !.state = "cancelled"] ELSE run
  /\ End(d)
  /\ UNCHANGED <<history, tokens, faults>>

-----------------------------------------------------------------------------
(* The main loop                                                           *)

\* Mutant: the state is written without the approval.
AskStateOnly(d) ==
  /\ IF MayMove("waiting_approval")
     THEN run' = [run EXCEPT !.state = "waiting_approval"] /\ tokens' = tokens + 1
     ELSE UNCHANGED <<run, tokens>>
  /\ End(d)
  /\ UNCHANGED <<history, faults>>

\* waiting_approval, with the copy's approvals and a new one in place of the
\* record's.
Ask(d) ==
  /\ IF MayMove("waiting_approval")
     THEN /\ run' = [run EXCEPT !.state = "waiting_approval",
                       !.approvals = Append(drv[d].approvals,
                          [token |-> tokens + 1, step |-> drv[d].cur, decision |-> "none"])]
          /\ tokens' = tokens + 1
     ELSE UNCHANGED <<run, tokens>>
  /\ End(d)
  /\ UNCHANGED <<history, faults>>

OpenGate(d) == At(d, "gate") /\ Ask(d)

\* Executor.run_step refuses a run that is terminal when it looks; the other
\* actors are dispatched without a look.
Preflight(s) == s \in Adapter => run.state \notin G!Terminal

Dispatch(d) ==
  /\ At(d, "dispatch")
  /\ IF Preflight(drv[d].cur) THEN To(d, "work") ELSE End(d)
  /\ UNCHANGED <<run, history, tokens, faults>>

\* The step's work ends: the adapter answers, the check runs, the patch lands.
Succeed(d) ==
  /\ At(d, "work")
  /\ worked' = worked \cup {drv[d].cur}
  /\ To(d, "record")
  /\ UNCHANGED <<run, granted, evidence, tokens, faults>>

Fail(d) ==
  /\ At(d, "work") /\ faults < MaxFaults
  /\ faults' = faults + 1
  /\ To(d, "failing")
  /\ UNCHANGED <<run, history, tokens>>

\* Executor._fail_run on a policy violation: the executor fails the run by
\* itself, before the driver has seen the failure and asked on_failure.
PolicyDenied(d) ==
  /\ At(d, "work") /\ drv[d].cur \in Adapter /\ faults < MaxFaults
  /\ faults' = faults + 1
  /\ IF MayMove("failed")
     THEN /\ run' = [run EXCEPT !.state = "failed", !.steps = Append(@,
                      [name |-> drv[d].cur, att |-> 0, st |-> "failed"])]
          /\ To(d, "failing")
     ELSE End(d) /\ UNCHANGED run
  /\ UNCHANGED <<history, tokens>>

\* _record_step_completion: the id of attempt 1 is the step's name, later ids
\* are random, so no running record has it and one is appended, whatever
\* state the run is in by now.
Record(d) ==
  /\ At(d, "record") /\ drv[d].ph = 0
  /\ run' = [run EXCEPT !.steps = Append(@,
              [name |-> drv[d].cur, att |-> drv[d].att, st |-> "completed"])]
  /\ Go(d, Top(run', drv[d].done \cup {drv[d].cur}, drv[d].verdict))
  /\ UNCHANGED <<history, tokens, faults>>

-----------------------------------------------------------------------------
(* A failed step                                                           *)

\* _append_failed_attempt_record: attempt 1 finds any record of attempt 1 by
\* its id, a completed one too; a later attempt's id is new.
FailedAttempt(steps, s, att) ==
  LET named == {i \in Of(steps, s) : att = 1 /\ steps[i].att = 1} IN
  IF named = {} THEN Append(steps, [name |-> s, att |-> att, st |-> "failed"])
  ELSE [steps EXCEPT ![CHOOSE i \in named : \A j \in named : i <= j].st = "failed"]

\* What the policy does next with a first failure, and with a second.
AfterFailure(s, att) ==
  CASE OnFailure[s] = "escalate_to_human" -> "escalate"
    [] OnFailure[s] = "retry_once" /\ att < 2 -> "placeholder"
    [] OTHER -> "fail"

StepFailed(d) ==
  /\ At(d, "failing") /\ drv[d].ph = 0
  /\ run' = [run EXCEPT !.steps = FailedAttempt(@, drv[d].cur, drv[d].att)]
  /\ Go(d, [drv[d] EXCEPT !.pc = AfterFailure(drv[d].cur, drv[d].att),
                          !.approvals = run.approvals])
  /\ UNCHANGED <<history, tokens, faults>>

Escalate(d) == At(d, "escalate") /\ Ask(d)

Placeholder(d) ==
  /\ At(d, "placeholder")
  /\ run' = [run EXCEPT !.steps = Append(@,
              [name |-> drv[d].cur, att |-> 2, st |-> "running"])]
  /\ Go(d, [drv[d] EXCEPT !.pc = "dispatch", !.att = 2, !.ph = Len(run'.steps)])
  /\ UNCHANGED <<history, tokens, faults>>

\* The placeholder becomes completed and the loop is entered anew.
RetrySucceeded(d) ==
  /\ At(d, "record") /\ drv[d].ph > 0
  /\ run' = [run EXCEPT !.steps[drv[d].ph].st = "completed"]
  /\ Go(d, Loop(run', drv[d].verdict))
  /\ UNCHANGED <<history, tokens, faults>>

\* Mutant: the error's code is written where the state belongs.
RetryFailedCode(d) ==
  /\ At(d, "failing") /\ drv[d].ph > 0
  /\ run' = [run EXCEPT !.steps[drv[d].ph].st = "retry_failed"]
  /\ Go(d, Failing)
  /\ UNCHANGED <<history, tokens, faults>>

\* RETRY_EXHAUSTED
RetryFailed(d) ==
  /\ At(d, "failing") /\ drv[d].ph > 0
  /\ run' = [run EXCEPT !.steps[drv[d].ph].st = "failed"]
  /\ Go(d, Failing)
  /\ UNCHANGED <<history, tokens, faults>>

FailRun(d) ==
  /\ At(d, "fail")
  /\ run' = IF MayMove("failed") THEN [run EXCEPT !.state = "failed"] ELSE run
  /\ End(d)
  /\ UNCHANGED <<history, tokens, faults>>

-----------------------------------------------------------------------------
(* The walk to completed, one write per state                              *)

Walk(d) ==
  /\ At(d, "walk")
  /\ LET t == Head(drv[d].chain) IN
     IF MayMove(t)
     THEN /\ run' = [run EXCEPT !.state = t]
          /\ IF Tail(drv[d].chain) = <<>> THEN End(d)
             ELSE Go(d, [drv[d] EXCEPT !.chain = Tail(@)])
     ELSE End(d) /\ UNCHANGED run
  /\ UNCHANGED <<history, tokens, faults>>

-----------------------------------------------------------------------------
\* The call ends where it is: its process dies, a lock times out, four attempts
\* at a write lost to other writers (DriverStateConflictError), or the executor
\* raised an error the driver does not turn into a failed step.
Abandon(d) ==
  /\ ~At(d, "idle") /\ faults < MaxFaults
  /\ faults' = faults + 1
  /\ End(d)
  /\ UNCHANGED <<run, history, tokens>>

Continue(d) ==
  \/ Begin(d) \/ Grant(d) \/ Deny(d)
  \/ OpenGate(d) \/ Dispatch(d) \/ Succeed(d) \/ Record(d)
  \/ StepFailed(d) \/ Escalate(d) \/ Placeholder(d)
  \/ RetrySucceeded(d) \/ RetryFailed(d) \/ FailRun(d) \/ Walk(d)

Next == \E d \in Drivers : RunWorkflow(d) \/ Resume(d) \/ Continue(d) \/ Fail(d) \/ PolicyDenied(d) \/ Abandon(d)

Spec == Init /\ [][Next]_vars

\* A call that does not die goes on; whoever started the run calls again when a
\* call ended without its end, and whoever is asked for a grant gives one.
GrantSomething(d) == Resume(d) /\ drv'[d].pc = "granted"
FairSpec ==
  /\ Spec
  /\ \A d \in Drivers : WF_vars(Continue(d))
  /\ SF_vars(\E d \in Drivers : RunWorkflow(d))
  /\ SF_vars(\E d \in Drivers : GrantSomething(d))

-----------------------------------------------------------------------------
(* Properties                                                              *)

\* The type of the record, of the calls and of the counters.
Calls == [pc : {"idle", "begin", "granted", "denied", "gate", "dispatch", "work",
                "record", "failing", "escalate", "placeholder", "fail", "walk"},
          done : SUBSET Steps, cur : Steps \cup {1}, att : Nat, ph : Nat,
          verdict : {"ok", "exhausted", "cross_ref"},
          approvals : Seq(Approval), tok : Nat, chain : Seq(G!States)]
TypeOK ==
  /\ run \in [state : G!States, steps : Seq(StepRecord), approvals : Seq(Approval)]
  /\ drv \in [Drivers -> Calls]
  /\ worked \in SUBSET Steps /\ granted \in SUBSET Steps
  /\ said \in SUBSET Nat /\ unsaid \in SUBSET Nat
  /\ tokens \in Nat /\ faults \in Nat

\* "The real driver never re-executes a completed step_name": no work starts
\* on a step that has a completed record.
NeverReexecuted ==
  [][\A d \in Drivers : drv'[d].pc = "work" /\ drv[d].pc # "work" =>
       \A i \in Of(run.steps, drv'[d].cur) : run.steps[i].st # "completed"]_vars

\* A call that is at work on a step stands behind every gate and every step
\* before it: they were granted and their work succeeded, in this call, in an
\* earlier one that died, or in another driver's.
WorkInOrder ==
  \A d \in Drivers : At(d, "work") =>
    drv[d].cur \notin Gate /\ \A j \in 1..(drv[d].cur - 1) : G!Passed(j)

\* The position a new call would derive from the record skips no step whose
\* work has not succeeded and no gate nobody granted, though the record holds
\* completed records no work stands behind (the one an escalation's grant adds).
PositionTruthful == \A s \in Completed(run.steps) : G!Passed(s)

\* A run that waits for a human holds an undecided approval to resume it with,
\* whatever stale copy of the approvals the last writer put there.
WaitingHasToken == run.state = "waiting_approval" => Pending(run) # {}

\* No grant is in the record whose event was not written before it, wherever a
\* call ended between the two and whoever rewrote the approvals: an event is
\* missing from the evidence only because its own write failed.
DecisionsEvidenced ==
  \A i \in DOMAIN run.approvals :
    run.approvals[i].decision = "granted" => run.approvals[i].token \in said \cup unsaid

\* A run that is called again and granted what it asks for comes to an end,
\* unless a call died between two states of the walk to completed: every later
\* call refuses the state it left.
Stranded ==
  /\ run.state \in {"applying", "verifying"} /\ faults > 0
  /\ \A d \in Drivers : ~At(d, "walk")
RunEnds == <>(run.state \in G!Terminal \/ Stranded)

\* The run keeps the promises of GovernedRun: the transition table, the order
\* of the steps, the gates, and a walk to completed only when all have passed.
ImplementsGovernedRun == G!Spec
=============================================================================

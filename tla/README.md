# ao-kernel in TLA+

ao-kernel runs multi-step workflows of AI adapters under governance: runs with
a state machine and a budget, claims on shared resources, spend accounting,
patches, evidence.  Its state lives in JSON files under `.ao/` and in a git
index, written by any number of processes under advisory locks and revision
compare-and-swap; what goes wrong in it goes wrong between two of those writes.
The modules here model those protocols write by write, TLC checks them on small
instances, and TLAPS proves the central invariants for every value of the
constants.

## The system

| Component | State it keeps | Operations | Interacts with | What makes it correct |
|---|---|---|---|---|
| Claim registry (`coordination/registry.py`, `fencing.py`, `claim.py`) | one claim file per resource, `_fencing.v1.json`, the derived `_index.v1.json` | acquire, takeover, heartbeat, release, prune, list, validate, reconcile | `claims.lock`; the executor's fencing check | only the owner ends a live claim; the live owner passes the fencing check, former ones fail it; the quota holds; an orphan is taken over |
| Executor (`executor/executor.py`) | none of its own | `run_step`: fencing check, policy, worktree, invocation, record | claim registry, run store, cost | a fenced-out holder does nothing |
| Driver (`executor/multi_step_driver.py`) over the run store (`workflow/`) | the run record: state, step records, approvals, a revision | run, resume, retry, gate, escalate, complete; create and update by compare-and-swap | executor, patches, evidence, every other writer of the run | steps and gates in order; only legal transitions; a waiting run can be resumed; a run ends |
| Path write ownership and patches (`coordination/path_ownership.py`, `patch/`) | claims on top-level areas, the index of the workspace, reverse diffs | acquire several, release several, check, apply, roll back | claim registry, git, the driver's patch steps | what was checked is what is written; all or nothing; a success can be undone; no two runs block each other for ever |
| Spend reconciliation (`cost/`) | the ledger, the markers and budget in each run record, the daemon's cursor, marker archives | reserve, record, reconcile, scan, fix, compact | run store, LLM facade, executor | every billed call is in the ledger and drained once |
| Provider circuit (`_internal/prj_kernel_api/circuit_breaker.py`) | state, failure count, test permits per provider | allow, record success, record failure | the two HTTP transports | a failing provider is rested, a healthy one comes back |
| AO-MA pipeline (`orchestration/`) | task graph, assignments, manifest, runner report, worktrees, results, reviews, verifications | plan, spawn, clean up, invoke, import, review, verify, integrate | git worktrees, native workers | what is merged is what was reviewed and verified, within the plan |
| Roadmap executor (`_internal/roadmap/`) | the workspace, a run's step evidence, dead letter, summary | simulate, dry run, apply; seventeen kinds of step | git, commands, the core's lock | a simulation foretells the apply; an interrupted plan can be started over; a readonly run changes nothing |
| Canonical decisions (`context/canonical_store.py`) | one store with a revision | promote, query | agents, sessions | no lost decision |
| Evidence (`executor/evidence_emitter.py`) | one append-only log per run | emit | everything | sequence numbers are unique |

The rest (`PROJECT.json`, components with status `not_modelled`) is pure
computation, format conversion, read-only loading, or a client of an outside
service.

## How the files fit together

| Module | What it is |
|---|---|
| `LeaseService` | abstract: one lease per resource, tokens in the order of the grants |
| `ClaimRegistry` | the coordination registry, file by file; implements `LeaseService` |
| `FencedExecution` | `run_step` over the registry (extends `ClaimRegistry`) |
| `GovernedRun` | abstract: a run moves along the transition table, its steps and gates in order |
| `WorkflowDriver` | the multi-step driver on one run record, write by write; implements `GovernedRun` |
| `PatchOwnership` | patch steps: path claims, check, three-way apply, reverse diff, rollback |
| `SpendAccount` | abstract: every call settled at most once, within the limit |
| `SpendReconcile` | ledger, budget, markers, daemon, compaction; implements `SpendAccount` |
| `ProviderCircuit` | the circuit breaker and its two transports |
| `AoMaPipeline` | the commands of the multi-agent pipeline over one task-graph directory |
| `RoadmapExecution` | the roadmap executor: plans in three modes, over a tree of texts |
| `MC*` | the instances TLC checks: sets of model values, sets of faults, plans |
| `*Proofs` | the theorems about a component and their TLAPS proofs (those about `FencedExecution` are in `ClaimRegistryProofs`) |
| `InductionLemmas` | least and greatest numbers, induction on a finite set and upwards to a number, and a set of numbers that solves a recursion |

Composition.  `FencedExecution` runs on the registry's own actions.
`PatchOwnership` takes claims with the guarantees `LeaseService` states, without
its tokens, which a patch step never presents.  `WorkflowDriver` takes the
outcome of `run_step` and of a patch step as an input (success, failure,
violation), `SpendReconcile` the one of the adapter call.  The table of states
of `GovernedRun` is the one `WorkflowDriver` moves along (`INSTANCE`).

Conventions.  One action per write another process can see or a crash can fall
behind: a method that runs under a lock from its first read to its only write
is one action; one that writes three files under a lock is three actions and a
variable with the position of the lock holder.  Faults are a CONSTANT set or a
counter with a bound.  An operator commented as a mutant is a plausible bug
beside the definition it mutates; it is in no next-state relation.  No module
uses a RECURSIVE operator.

## The claim registry and fenced execution

`ClaimRegistry` keeps what is on disk: `claim[r]` (`{r}.v1.json`), `fencing[r]`
(`next_token`), `index` and `indexOk` (`_index.v1.json` and whether its stored
revision is its hash); what processes have in memory, `held[a][r]` (the `Claim`
returned to agent a); and `op`, the operation that holds `claims.lock` with its
position between two writes.  Time is the age of each heartbeat, in ticks, up
to the first age past grace: the code compares ages with `expiry` and
`expiry + grace` only.

| Actions | Code |
|---|---|
| `Begin`, `WriteFencing`, `WriteClaim`, `UnindexPrevious`, `IndexAndReturn` | `acquire_claim` and `takeover_claim`: gate, quota, then the three files in order |
| `Heartbeat` | `heartbeat`, one write, refused past grace |
| `ReleaseDelete`, `ReleaseUnindex` | `release_claim` |
| `PruneBegin`, `PruneDelete`, `PruneUnindex` | `prune_expired_claims`, its `now` read once, any `max_batch` |
| `ListClaims`, `Reconcile` | the rebuild of the index; `_reconcile_fencing_with_claims_locked` |
| `Tick` | time, at any moment, within an operation too |
| `Crash`, `OpFails`, `IndexLost`, `FencingLost` | a dead process (the kernel drops its flock), a write that raises, a file removed or damaged |
| `EnterStep`, `SideEffect`, `LeaveStep`, `CrashInStep` (`FencedExecution`) | the entry of `run_step` with the exact-equality `validate_fencing_token`, the side effects after it, its end |

| Run | Instance | Shows |
|---|---|---|
| `FencedSteps` | 2 agents, 1 resource, 3 grants, crashes, failing writes, a lost index | live owners pass the fencing check, former owners fail it, only its owner ends a live claim; `run_step` admits owners only, in the order of their grants; the registry implements `LeaseService`; an orphaned claim is taken over |
| `ClaimQuota` | 2 agents, 2 resources, quota 1, 3 grants, `UndisturbedSpec`: no process dies and no write fails (`FencedSteps` has those), the fencing file may be lost at any time | the index is exact, the quota holds |

Bounds.  `Expiry = Grace = 1` gives every age class (live, in grace, past
grace); a third grant of one resource is enough for a former-former owner, and
two resources for one agent's index entry to hold something besides the claim
being moved.  `MaxToken` bounds the grants tried per resource in the guard of
`Begin`.  Larger instances of `FencedSteps.cfg` pass too: `MaxToken = 4`
(227,000 states, 2 minutes), and `Resources <- TwoResources`, `MaxToken = 2`
(1.7 million states, 3 minutes).

Fairness (`StepFairSpec`).  Weak fairness of the lock holder's next write and of
time: a process that lives goes on, a dead one loses the lock.  Strong fairness
of each `Begin`: callers retry `acquire_claim`, as COORDINATION.md leaves
cleanup to them, and the lock is free again and again rather than for good.
Strong fairness of the two writes: takers may die half-way, but not at the same
write for ever.  No fairness of steps: one may take for ever.  The liveness
property holds "up to the bound on grants", since `MaxToken` stops the model,
not the code.

## The workflow driver

`WorkflowDriver` keeps the run record (`run`: its state, step records with
attempt and status, approvals), `drv[d]`, the call a driver process is in the
middle of, with exactly what it still acts on from its copy of the record, and
histories: the steps that worked, the steps granted, the tokens whose
`approval_granted` is in the evidence (`said`) or was offered to it and could not
be written (`unsaid`).  `update_run` re-reads the record under
its lock, so each write is one action whose guard (`validate_transition`) looks
at the record of that moment, while the decision to make it is from the copy.

| Actions | Code |
|---|---|
| `RunWorkflow`, `Begin` | `run_workflow`: the read, the transition to running, cross-references and budget |
| `Resume`, `Grant`, `Deny` | `resume_workflow`: the evidence first, which may fail unnoticed (`_emit`), then the record; the completed record of the approved step |
| `OpenGate`, `Dispatch`, `Succeed`, `Record` | `_main_loop`: the position (`_completed_step_names`), a gate, the step, `_record_step_completion` |
| `Fail`, `StepFailed`, `Escalate`, `Placeholder`, `RetrySucceeded`, `RetryFailed`, `FailRun` | `_handle_step_failure` for the three `on_failure` policies, with the attempt-2 placeholder |
| `PolicyDenied` | `Executor._fail_run`, which fails the run under the driver |
| `Walk` | `_transition_to_completed`, one commit per state |
| `Abandon` | a process that dies, a lock that times out, `DriverStateConflictError` |

| Run | Instance | Shows |
|---|---|---|
| `WorkflowDrivers` | 2 drivers, 3 steps: an adapter step with a retry, a gate, an escalating step; 2 faults | no step is performed before the steps and gates ahead of it; the derived position skips nothing; a waiting run has a token; every grant in the record was offered to the evidence before, and is in it unless that write failed; `ImplementsGovernedRun` |
| `WorkflowEnds` | 1 driver, 4 steps, retries on either side of a gate, 4 faults | a run called again and granted what it asks for ends, unless it is stranded (below) |
| `WorkflowReexecutes` | 1 driver, 2 steps | finding 2 below |

Bounds.  The three steps have one of each policy, with the gate between them;
two faults are a first failure and a failing retry, a failure and a crash, or a
crash and a lost event.
Four faults let both retries of `WorkflowEnds` fail or be cut short.

Fairness (`WorkflowEnds`).  A call that does not die goes on.  Whoever started
the run calls again after a call ended without its end, and a human asked for a
grant gives one (strong: there is something to run or to grant again and again,
not for good).  A call that died in the walk to completed leaves `applying` or
`verifying`, which every later call refuses (`WorkflowStateCorruptedError`):
`RunEnds` says "or stranded", and no more can be shown.

Met while modelling, and in the model as the code has it: `_emit` swallows any
failure (`multi_step_driver.py:2335-2345`), so that an approval is granted
without its event, and `DecisionsEvidenced` without `unsaid` is false; a denial is never
written to the approval, so its token stays open, and a late grant emits
`approval_granted` for a cancelled run; the step a gate asks for is never
performed, the grant's completed record standing for it; an escalated step is
dispatched again after the grant, its failed record coming first; the budget is judged as it was when the run was
entered; a policy violation passes `on_failure` by.

## Patches and path ownership

`PatchOwnership` has runs that apply and roll back one patch each over the index
of one workspace (the worktree of a step is gone by the time its patch is
applied).  Per area `owner` and `lapsed` are the claim; `index` the patches
staged per area; `unmerged` the areas in conflict; `rev[r]` the reverse diff.
Faults are counted together: a death, a claim that lapses under its step, a
registry call that fails, a git that fails while it makes a reverse diff.  Two
histories say what they left: `left`, the areas with a live claim of a dead or
failed call, and `partial`, the runs whose latest reverse diff was cut short.

| Actions | Code |
|---|---|
| `StartApply`, `StartRollback` | the patch and rollback steps of the driver, started again when they fail |
| `Claim` | `acquire_path_write_claims`: sorted scopes; an acquire is granted, refused, or fails before or after its claim file is written |
| `Backoff` | everything that was got is given back; a release that is refused or fails before its unlink is passed over (`path_ownership.py:195-215`) |
| `Release` | `release_path_write_claims`, latest first, which stops at its first failure |
| `Check`, `Write`, `Keep` | `apply_patch`, `rollback_patch`: dirty check and `git apply --check`, `git apply --3way --index`, `git diff --cached -R`, whose exit code is not read (`apply.py:271-286`) |
| `Lapse`, `Die` | no heartbeat is sent during a patch step; a process dies |

| Run | Instance | Shows |
|---|---|---|
| `PatchSteps` | 2 runs, 3 areas, patches that share two of them, quota 3, 2 faults | what git writes to is what the check saw; a run between steps keeps a live claim only where a death or a failed call left it, and a claim taken over leaves none; a success whose reverse diff git made whole can be undone; the runs do not refuse each other for ever |

Bounds.  Two shared areas are needed for claims to be refused half-way in either
order, and the third for a run to get something before the first common one.
Two faults are a failing acquire and a failing release of its back-off, or a
death between apply and reverse diff and a diff cut short at the next attempt.
Fairness: a step that does not die goes on, a failed one is started again, time
passes.  Only that *some* run is served holds: one run can be unlucky for ever.

Met while modelling, and in the model as the code has it: an acquire that fails
behind its claim write is not in the list the back-off goes through, and neither
it nor a failed release is told from a clean one, so an idle run can keep a live
claim with no process dead (`ClaimsSettled` without `left` is false); an apply is
reported a success over an empty or partial reverse diff (`Undoable` without
`partial` is false).

## Spend reconciliation

`SpendReconcile` keeps `ledger` (`spend.jsonl`), and per run `spent` (the
cost_usd axis), `markers` (`cost_reconciled`) and `archive`; `cursor` (the
daemon's file); `job[w]`, `sweep` and `compaction`, where each worker, the
daemon and the compaction are.  A call is one `(run_id, step_id, attempt)`; its
event is a line with a cost and whether usage is missing, which is what the
billing digest tells apart.

| Actions | Code |
|---|---|
| `Reserve` | `pre_dispatch_reserve`, one `update_run`; a retry reserves again |
| `Invoke` | `run_step` loads the record and calls the adapter |
| `Reply`, `NoReply` | the response with or without usage; an error, no `cost_actual` |
| `RecordSpend`, `RejectSpend` | `record_spend`: append, idempotent no-op, `SpendLedgerDuplicateError` |
| `Commit`, `SkipCommit`, `ExhaustBudget` | the compare-and-swap of `apply_spend_with_marker` |
| `Emit`, `Finish` | the evidence event, if a marker was committed; the end of the call, with `run_step`'s write-back when it is not `driver_managed` |
| `ScanBegin` ... `SaveCursor`, `FixRecord`, `FixCommit`, `FixFails` | `scan_and_fix`, line by line, under the cursor lock |
| `LoadMarkers`, `AppendArchive`, `ClearMarkers` | `compact_run_markers` |
| `Crash`, `ScanCrash`, `CompactionCrash` | a dead process, or an `update_run` out of retries |

`update_run` is one action: its mutator runs on the record read under the lock
and the record is replaced atomically.  That a busy record makes it fail is
`Crash` for a worker and `FixFails` for the daemon.

| Run | Instance | Shows |
|---|---|---|
| `SpendRetries` | 2 workers, a governed and an adapter call of one run, each made twice, costs 0, 1 and 3 around an estimate of 2, limit 6, crashes | one line, one marker, at most one event per call; the budget is exactly what was reserved and settled; `ImplementsAccount`, and with it the budget in its bounds |
| `SpendOperators` | the same, one attempt each, one cost, `run_step` writing its record, with the daemon and the compaction, failing compare-and-swaps | the ledger first: no marker without its line |
| `SpendDaemonNoDrain` | one worker, one adapter call, the daemon | finding 1 below |

Bounds.  The costs lie below and above the estimate, so settlements refund and
drain; with limit 6 four attempts reach it.  The window is 9 lines, more
than the ledger of a run gets; the code's minimum is 100.  `MaxTries`
bounds how often a call is made; the system stops there, so these runs do not
check for deadlock.  No liveness is stated: nothing in this code retries a
call that died, the driver does.

## The provider circuit

`ProviderCircuit` keeps the breaker's fields (`mode`, `failures`, `tests`,
`age` since it opened) and for each call in flight the permission it was given.
Each breaker method runs under its lock, so `Allow`/`AllowTest`
(`allow_request`), `Succeed`, `Fail`, `Look` (a refusal, `status_dict`) are one
action each, with the turn from OPEN to HALF_OPEN that `_get_state_locked`
makes on the way.  `LeaveUnrecorded` is the streaming transport's early return.
A request's retries happen within one permission and report once.

| Run | Instance | Shows |
|---|---|---|
| `CircuitShared` | 4 calls, one of them streaming, threshold 3, 2 tests | no more tests than allowed; while no test is streamed, a permission given out has its test in flight and nobody is refused for good |

Four calls are one more than the threshold: three late failures and a success
can all be outstanding when the circuit opens.  Fairness: time passes, and each
call returns, as every request has a timeout.  Nobody has to call, so what is
shown is that a caller would be let through, again and again.

## The AO-MA pipeline

`AoMaPipeline` has one task-graph directory and the commands run on it, each a
process that knows the others by their files only.  A file is its content, a
hash the content it is the hash of: `graph`, `assign[t]`, `manifest` (what plan
writes, in this order), `runner` (the runner report), per task `worktree`,
`head`, `touched`, `source` (the result at the worktree's root), `result`,
`verdict`, `verification`; `cmd[o]` is the command an operator is in the middle
of.  There are two layouts (`based`): with a `--worktree-base` a task's worktree
is apart from the plan's directory; without, it is `workers/<task>` in it, and
`source[t]` and `result[t]` are one file (`Roots`).  `again` remembers the tasks
whose native worker exported more than once.  `overlapped` remembers that two
writing commands were in flight at once, or that a native worker exported its result while another command was about to
read it: nothing locks the directory, and the properties are about the rest.

| Actions | Code |
|---|---|
| `Plan`, `WriteAssignment`, `WriteManifest` | `plan`, which may die half-way and leave new files under the old manifest |
| `Spawn`, `Cleanup` | `WorkerRunner`: worktrees at the base, the report bound to the manifest |
| `Invoke`, `CheckWorker`, `Work`, `Bridge`, `InvokeEnds` | `WorkerInvoker`, one thread per task, with the fixture worker |
| `NativeCommit`, `NativeExport` | a native worker, at any time |
| `Import`, `Copy` | `import_native_worker_result`, which reads the file again between its check and its copy |
| `Review`, `Verify`, `Integrate` | the three judgements, each on the files as they are; integrate reads the imported results if the command line maps them, else those at the roots of the worktrees (`Given`) |
| `Die` | a command dies where it is |

| Run | Instance | Shows |
|---|---|---|
| `AoMaCommands` | 2 tasks, one native, 2 paths that a second plan may give to the native task, 2 commits per branch | integrate compares no hash of its evidence, and still accepts only results that were reviewed and verified as they are, unless a native worker exported again to a file integrate reads; what was taken in by import is within the manifest in force; where the fixture worked, the branch to be merged is at the verified commit |

Bounds.  Two plans and two commits give each file an old and a new content.  The
constraint `Explored` leaves out what follows two overlapping writers, of which
the properties say nothing, and what follows a refusing review of the fixture's
task (4.2 million states with it).  Two operators at once are a recipe:
`Operators = {o1, o2}`, `MaxPlans = 1`, `MaxHead = 1` passes, with the constraint
(86,000 states) and without it (3.2 million); the theorems hold for any set of
operators, and need no constraint.  No liveness: commands are run by hand.

What the two properties except, TLC refutes when it is not excepted.
`EvidenceIsCurrent`: in the default layout a native worker that exports again
after the review replaces the reviewed result, and a verification that follows
makes integrate accept it (Spawn, NativeCommit, NativeExport, Review,
NativeExport, Verify); with a worktree base the same holds of an integrate that
is not given the imported file (`integrator.py:570-578`).  `AcceptedWithinPlan`:
only `import` compares a native result with the assignment the manifest pins, so
an export that is read without an import is held to the graph on disk alone,
which a later plan that died may have changed, or, exported
again, to its own declaration.

Met while modelling, and in the model as the code has it: after a native
worker's commit a new plan can never be integrated; a stub killed between its
commit and its result strands the task; the fixture's result has known gaps and
can never be imported; the assembly plan merges branches, not the commits in
`head_sha`, which for a native worker need not be the ones verified; the bridge
takes in whatever result is at the worktree's root, of any declared set of
files, and after a plan that died behind the graph it is verified against that
graph: the files agree with the manifest in force only while commands do not
overlap.

## The roadmap executor

`RoadmapExecution` has the workspace as a tree (`tree[p]`: absent, a directory,
or a text, a bag of lines), the lines of the temporary files left beside each path
(`litter`), what git has committed (`head`), the run in progress with its overlay
(`fs`), allowlist and milestone counters, the evidence of the latest run, and
`core`: whether the workspace is the core, and unlocked.  A text may be a pointer
(`StoredPath`).  The evidence root is `.cache/evidence` of the workspace
(`ao_kernel/roadmap.py:76`), which the snapshots leave out and git is taken not to
report.

| Actions | Code |
|---|---|
| `Start` | `apply_roadmap` in one of its three modes, up to the first step |
| `Step` | `_dispatch_step_template` and `_enforce_milestone_caps`: create, JSON template, schema file and gate script, directory, patch and policy-report patch, allowlist, the assertions on paths, pointers, ISO and core files, the sanitize scan, change proposal |
| `RunCmd` | `step_run_cmd` and the readonly check after it, by git status of the core (`GitStatus`: of a tracked file whether it changed, of an untracked one the highest directory that holds nothing tracked, of an ignored one nothing), and by hashes of a workspace apart from it |
| `Record`, `DeadLetter`, `Summarise` | step evidence in the `finally`, the dead letter, `summary.json` |
| `Crash`, `Fail` | the process dies, or the disk refuses a write; what was written stays, be it only the directories above a file or a temporary file of `write_text_atomic` beside it (`CutShort`) |

| Run | Instance | Shows |
|---|---|---|
| `RoadmapRuns` | 14 plans over a file, a directory and a file in it, 2 first trees and commits, 3 runs in any mode, crashes and failing writes anywhere | but for the cases the properties name: a simulation foretells the verdict of an apply; a plan that creates is as good as atomic, however often cut short; a readonly run that reports OK changed no file |

The fourteen plans have every kind of step that does something (notes and the
root guard do nothing; JSON, schema and script steps are creates), both caps, the
clashes of files and directories, and steps that read from the disk what the plan
writes; three runs are a simulation, an interrupted apply and another.
The constraint `Explored` takes one committed tree unless the core is unlocked,
and as the last of three runs a dry run only of a plan simulated or applied
before (4 million states with it; without, too many for five minutes).

The properties name the cases the code gets wrong, and without any one of them
TLC refutes the property on this instance, but where another plan is named.

- `DryRunPredicts`: a pointer, an ISO or core file, or a scanned directory that
  earlier steps of the plan write (a simulation reads the disk as it was: a plan
  that patches a pointer to a missing target and then asserts it is simulated OK
  and fails, plan 12; one that writes the pointer first is refused in simulation
  only, plan 11); an assertion on a directory only planned; an assertion for
  apply only, of paths or of a pointer (`exec_steps.py:814` and `:860`); files
  and directories in each other's place; a change proposal, which a simulation
  never refuses; temporary files that lie about for one run and not for the
  other; a disk that fails.
- `RerunConverges`: a disk that fails in the last run; temporary files, which no
  rerun removes (a kill between `mkstemp` and `os.replace`,
  `shared/utils.py:59-71`); a plan that asserts a pointer, or scans a directory,
  before it writes there passes that step once and is refused when it is started
  over (`<<Pointer(m1, f, FALSE), Create(m1, f, T(0, 1), TRUE)>>`,
  `<<Scan(m1, d, {a}), Create(m1, g, T(1, 0), TRUE)>>`).
- `ReadonlyUnchanged`: where the workspace is the core, a tracked file that was
  changed already, a file git ignores, and a file in a directory that
  git status already named as a whole (`exec_evidence.py:111-123` has no
  `-uall`): the command of a readonly run changes it unnoticed.

A command writes or removes one file of the workspace, and does not stage or
commit; what it does elsewhere in the core is known by what git tells
(`elsewhere`).  A write of evidence does not fail in the model.  An interrupt from
the keyboard is a crash in it, though the code does write a summary then, which
says OK (`executor.py:155-175`: `except Exception` lets `KeyboardInterrupt` pass
to the `finally`).  No liveness: nothing resumes a run
(`RoadmapCheckpointManager` is called by nobody), so "resume" is to start over.
One run at a time: nothing locks the workspace.

## What is proved

TLAPS checks these for any sets of agents, calls, drivers, runs, operators or
areas, any workflow definition, task graphs, patches, plans and trees, and any
values of the policy constants (the named ASSUMEs of each module).  Every
invariant and action property that a passing run checks is a theorem; each
listed theorem names its property in `PROJECT.json`.

- `ClaimRegistryProofs`, the registry. `GrantsOrdered` is inductive
  (`GrantsStayOrdered`). `LiveOwnerNotFenced` and `FormerOwnerFenced` are not:
  they say nothing of an operation half-way, nor of a handle for a claim that is
  gone, whose token could come back. The strengthening has two parts. `StageInv`
  is what the lock holder established and nobody without the lock can undo: the
  claim it will replace is past grace and stays so, its token is above every
  handle's. `GrantInv` orders one resource's grants: the claim on file is the
  latest, and each handle is for it, with its token, or for an earlier one, with
  a smaller. From it follow `TypeCorrect`, `LiveOwnersPass`, `FormerOwnersFail`,
  `LiveClaimsAreSafe` and the refinement `RegistryIsLeaseService`. Assumed: the
  fencing file is not lost (`"fencing_loss" \notin Faults`); a lost one restarts
  its tokens at 0 until the reconcile.
- `ClaimRegistryProofs`, index and quota, under `UndisturbedSpec` (no process
  dies in an operation and no write fails; the fencing file may be lost).
  `CountedInv`: the index has each claim under its owner but for the one entry
  the lock holder is moving, and whoever is about to get a claim has room for it
  in the count of the *claims*, which is what the gate established through the
  *index*. From it `IndexStaysExact` and `QuotaIsRespected`. Without the
  assumption both are false (see below).
- `ClaimRegistryProofs`, fenced steps, with the first assumption. `FencedInv`
  adds that whoever has the handle of the claim on file is its owner (a new
  claim is nobody's until it is handed out), and that no admitted token is above
  the issued ones. With `GrantsOrdered` it makes `AdmitsItsOwner` and
  `AdmitsInGrantOrder` follow from the exact equality of the check: a handle
  that passes has the latest token.
- `WorkflowDriverProofs`. The invariant is `TypeOK`, a fact of the record
  (`RunOK`: its completed records are backed by work or a grant, its
  placeholders and tokens are as counted) and one of each call in progress
  (`CallOK`: what it took from its copy is still true of the record). The second
  carries the weight: another driver may append records, change attempts and
  overwrite approvals between a call's read and its write, and `CallKept` shows
  that none of this takes away what the call stands on; `WriteSound` that its
  own write leaves the record sound. From it: `DriverTypeCorrect`,
  `WorksInOrder`, `PositionIsTruthful`, `WaitingCanBeResumed`,
  `GrantsAreEvidenced` (a token reaches the record through a call that offered it
  to the evidence, whether or not the log took it) and the refinement `DriverRefinesRun`.
- `PatchOwnershipProofs`. `ClaimInv`: a step's claims, while none was taken from
  it, are its own, disjoint from every other step's, and lapse in the order they
  were got (which is why a release refused because its claim was taken over leaves only
  lapsed claims behind it); and every live claim of a run that no step of its
  will give back is in `left`. `DiffInv`: between apply and reverse diff the index has the
  patch, and afterwards the reverse diff has, unless it is `partial`. From them: `PatchTypeCorrect`,
  `ClaimsAreSettled`, `AppliesWhatWasChecked`, `AppliesAreUndoable`.
- `SpendReconcileProofs`, for any runs and operators. `SpendTypeCorrect` needs
  that the daemon's position is a line of the ledger. `MarkersFollowLines`
  (`LedgerFirst`) needs that the events in hand after the append are on the
  ledger, that the daemon's line is, and that what the compaction carries had
  its line; the ledger only grows, so each of these is kept. `CallsHaveOneLine`
  assumes that the ledger never outgrows the idempotency window, and
  `CallsHaveOneMarker` also that the daemon is not run: with it, the property is
  false (see below).
- `SpendReconcileProofs`, without the daemon and the compaction.
  `EvidenceIsEmittedOnce`, within the window: `EvidenceInv` has a call's event
  follow its marker, and at most one worker, after the marker of that call, with
  the event still to emit. `SpendIsAccount`, within the window and where the
  driver writes the record: each step is one of `SpendAccount` or a stutter,
  since a settlement is the one write that stamps the marker and moves the
  budget; that no refund takes it below zero is `Covered`: what is spent covers
  the reservations not yet settled. `BudgetStaysExact`, also where the driver
  writes the record, for any window: `BudgetInv` has the markers finite and the
  budget equal to the reservations and the sum over the markers, which the
  module defines as the value of a recursive function on sets; `InductionLemmas`
  shows that such a function exists and what it is of a set and one more
  element.
- `ProviderCircuitProofs`. `CircuitTypeCorrect`, `ClosedOnlyBelowThreshold` (the
  circuit is closed exactly while the count is below the threshold), and
  `TestsAreInFlight`: while no test is streamed, each is reported on.
- `AoMaPipelineProofs`. `PipelineInv` is `TypeOK`; `FilesInv`, each file has the
  one it was made from, and a fixture's result is that of its branch;
  `CommandsInv`, a command in flight finds what it is about to read;
  `NumbersInv`, manifests are numbered by the plans; and, while nothing
  overlapped, `AloneInv`: one command writes at a time; a plan's manifest is
  later than the one it replaces and than the one workers were spawned for; what
  the fixture or an import is about to take in is within the manifest in force,
  and so is every result of a task prepared under it (`WithinPlan`); evidence is
  of the file integrate reads, unless that was exported again. Where source and
  result are one file (`Roots`), what holds of the one after an export or the
  fixture's work has to hold of the other. It needs the numbers: workers spawned for an earlier
  manifest are never taken for those of the one in force. From it
  `PipelineTypeCorrect`, `EvidenceStaysCurrent`, `AcceptedStaysWithinPlan` and
  `MergedWasVerified`. The proof needed `overlapped` to hold also of an export
  under an invocation or an import, which the first model let pass unmarked.
- `RoadmapExecutionProofs`. `RunInv` (the types, and the fields of a run and its
  evidence) gives `RoadmapTypeCorrect`: every handler leaves a tree a tree,
  since it writes where the directories above can be. `ReadInv`: while a dry run
  is not refused the status is the one it began with; with what equal statuses
  mean for one file (git's names of untracked files included) it gives
  `ReadonlyStaysUnchanged`.
- `RoadmapExecutionProofs`, runs against their course. A course (`IsCourse`) is
  the sequence of runs and trees of a plan that nothing cuts short, which exists
  for every plan, mode and tree (`CourseExists`); for an apply it ends in what
  `RerunConverges` computes. `RerunsConverge`: `CourseInv` keeps the workspace,
  through crashes and fresh starts, in the middle of the course of the tree the
  plan was first applied to (`Mid`: all that its first steps write is there, and
  nothing of the later ones but the directories of the next file; `CourseCut`: a
  write cut short keeps it there), and the run
  in progress no further than the workspace, with the course's allowlist and
  files touched and no more lines counted (`Follows`). That a step finds its own
  file and keeps it, and that the caps it then meets were met before, is
  `RedoStep`. `DryRunForetells`: `InStepInv` has every run of a plan without
  commands, whatever its mode, be where its course is, so that what it says is
  what the course ends with (`CameInv`, `SaidInv`); and the courses of a
  simulation and an apply from one tree go side by side (`Beside`: the overlay
  over the first tree has the files of the workspace, `Overlays`, and the workspace
  differs from the first tree only where the plan wrote, `WrittenOnly`), step by
  step, until both end or part in one of the ways the property names
  (`ForecastStep`, `Foretold`); a step that reads the disk where the plan did not
  write finds the same in both (`SameDisk`); and since temporary files only grow,
  two runs that begin with the same ones have them throughout (`LitterInv`).

Only model-checked: liveness (`OrphanTakenOver`, `RunEnds`, `SomeoneServed`,
`RecoversOverHttp`), which is out of the prover's reach, and every violation.

## Findings

Each is a run that TLC ends with a counterexample; `PROJECT.json` quotes the
line of the code, comment or document it contradicts.

1. `SpendDaemonNoDrain`: the daemon marks a line that was never drained, and its
   worker then finds the marker and skips the drain.
2. `WorkflowReexecutes`: a retry resumed after a crash records its success under
   a new step id; the dead call's placeholder stays running and is what the
   position is derived from, so the completed step is executed again.

## What TLC refutes

The modules state more that the code does not keep, without a run of its own.
TLC finds each within a minute; start from the .cfg named, check the property
alone, change what is said, and for an action or temporal property drop the
`SYMMETRY` of a .cfg that has one.

| Property | Instance | The code |
|---|---|---|
| `QuotaRespected` | `ClaimQuota.cfg`, `SPECIFICATION Spec`, `Faults = {"crash"}` or `{"io_error"}` | after a crash or a failing write between the claim and the index, the index is behind and passes for consistent (`registry.py:1044` compares its stored revision with its own hash), so an agent gets more than its quota; `registry.py:25-28` says the index is rebuilt "from per-resource files" on drift |
| `ListingExact` | `ClaimQuota.cfg`, `SPECIFICATION Spec`, `MaxClaims = 0`, `Faults = {"index_loss"}` | a lost index is masked by the next incremental update: live claims are left out of listings (`_remove_from_index`) |
| `EffectsInOrder` | `FencedSteps.cfg` | the fencing token is checked at the entry of a step only (`executor.py:168`): effects follow those of the next owner, whereas COORDINATION.md:72 has the stale holder's "blocked" |
| `OneMarkerPerCall` | `SpendDaemonNoDrain.cfg`, `Calls <- OneGoverned` | `_infer_source` looks for governed calls under the adapter's source, and the daemon marks them twice |
| `NothingSkipped` | `SpendDaemonNoDrain.cfg`, `Faults <- Crashes` | the cursor passes lines appended between the daemon's walk and its count of the lines, and lines whose fix failed |
| `DaemonAppendsNothing` | `SpendDaemonNoDrain.cfg`, `Calls <- BothCalls`, `Faults <- Crashes`, `Window = 1` | an orphan older than the idempotency window is appended to the ledger again |
| `BudgetExact` | `SpendDaemonNoDrain.cfg`, `Operators <- Nobody`, `Managed = FALSE` | `run_step`, when it owns the run record, writes an old budget over the drain of its own adapter call (`executor.py`, `_mutator`) |
| `MarkersKept` | `SpendDaemonNoDrain.cfg`, `Calls <- BothCalls`, `Operators = {"compactor"}` | markers stamped after the compaction's load are cleared unarchived (`marker_compaction.py`, `out["cost_reconciled"] = []`) |
| `NeverRefusedForGood` | `CircuitShared.cfg`, `FailureThreshold = 2`, `HalfOpenMaxCalls = 1` | a streaming test with an unexpected Content-Type is never reported (`llm_stream_transport.py`): the circuit stays half-open and refuses everyone |
| `ClosedByTest` | `CircuitShared.cfg`, `SPECIFICATION Spec` | the late success of a call admitted before the failures closes an open circuit without a test |
| `RollbackUndoesOwn` | `PatchSteps.cfg`, `NumAreas = 2`, `Touches <- Apart`, `MaxFaults = 0` | the reverse diff is `git diff --cached -R`, of everything staged: rolling one run back takes the staged patch of another out too |
| `ConflictsCleaned` | `PatchSteps.cfg` | a conflict passes `git apply --check --3way`, and the apply that meets it leaves the areas unmerged, without a `.rej` file |
| `CapsBind` | `RoadmapRuns.cfg` | a plan over `max_diff_lines` fails after its write; started over, it counts the kept files as no lines and passes |

## What is not modelled

- Pure computation (prices, policies, schemas, ranking), format conversion,
  read-only loading and reporting, clients of outside services, scripts:
  `PROJECT.json` lists each with its reason.
- Step evidence.  `emit_event` derives a sequence number from the last 1024 bytes
  of the log under its lock; a last line that is longer, or torn, reads as none
  and the sequence starts again at 1.  It is a matter of byte lengths, which the
  models abstract from.
- The canonical store: promote, update and forget are each one atomic action on
  one file; the doc-bridge, the one caller that decides on a copy, passes its
  revision and retries once.
- Within the modelled parts: audit fields, logs and evidence no property is
  about; Windows, where the locks are refused; corrupt lines and records, which
  fail closed; interrupts of a workflow, which the driver never writes, so
  `resume_interrupt` is out of reach; commits made to the workspace while
  patches are staged; two AO-MA operators at once, but for the recipe, and two
  roadmap runs at once; the AO-MA governor, consensus, notifier and reports,
  which derive one file from others.

## What is left

In the order of what it would add: two roadmap applies on one workspace;
`RunStore` with its revision and retries as an abstract register under
`WorkflowDriver` and `SpendReconcile`; heartbeats under a long patch step;
adapter-backed AO-MA workers; the slice registers of the AO-MA governor.
Proofs left: the registry's fencing after a lost file, from the reconcile on;
`OneLinePerCall` with a bound on the age of the lines the daemon still fixes in
place of the bound on the ledger.

--------------------------- MODULE SpendReconcile ---------------------------
(***************************************************************************)
(* Spend accounting: the reservation before a governed LLM call, the       *)
(* ledger line, the budget and marker committed together in the run        *)
(* record, the evidence event; the daemon that marks orphan ledger lines   *)
(* and the compaction of the markers.  Every write is a step of its own;   *)
(* a call is one (run_id, step_id, attempt), and may be retried.           *)
(***************************************************************************)
EXTENDS Integers, Sequences, FiniteSets, FiniteSetsExt

CONSTANTS
  Workers,    \* processes making calls
  Calls, Runs,
  RunOf,      \* RunOf[c]: the run of call c
  PathOf,     \* PathOf[c]: "governed_call" or "adapter_path"
  Costs,      \* what a response may cost
  Estimate,   \* estimate_cost, reserved before a governed call
  Limit,      \* budget.cost_usd.limit of every run
  Window,     \* policy.idempotency_window_lines
  Managed,    \* driver_managed: the driver writes the run record, not run_step
  Operators,  \* subset of {"daemon", "compactor"}: the commands that are run
  Faults,     \* subset of {"crash", "cas_conflict"}
  MaxTries,   \* bound: how often one call is made
  NoLine      \* a job or sweep with no spend event in hand

Paths == {"governed_call", "adapter_path"}

ASSUME SpendAssumption ==
  /\ RunOf \in [Calls -> Runs]
  /\ PathOf \in [Calls -> Paths]
  /\ Costs \subseteq Nat
  /\ Estimate \in Nat /\ Limit \in Nat /\ MaxTries \in Nat
  /\ Window \in Nat \ {0}
  /\ Managed \in BOOLEAN
  /\ Operators \subseteq {"daemon", "compactor"}
  /\ Faults \subseteq {"crash", "cas_conflict"}

\* SpendEvent: its billing digest is the cost and whether usage is missing.
Line == [call : Calls, cost : Costs \cup {0}, missing : BOOLEAN]
ASSUME NoLineAssumption == NoLine \notin Line

VARIABLES
  ledger,      \* spend.jsonl
  spent,       \* spent[r]: budget.cost_usd.spent
  markers,     \* markers[r]: cost_reconciled of run r
  archive,     \* archive[r]: markers-archive/r.jsonl
  cursor,      \* last_scanned_line_offset
  job,         \* job[w]: where worker w is, in which call, with which event
  sweep,       \* the daemon's pass
  compaction,  \* the compactor's pass
  tries,       \* tries[c]: how often c was begun
  reserves,    \* reserves[r]: reservations made, for the account
  emitted      \* emitted[c]: spend events of c in the evidence log

records == <<ledger, spent, markers, archive, cursor>>
vars == <<records, job, sweep, compaction, tries, reserves, emitted>>

Marker == [source : Paths \cup {"usage_missing"}, line : Line]
NoJob == [at |-> "idle"]
WithEvent == [at : {"record", "commit", "emit"}, call : Calls, line : Line, base : Int]
Job == {NoJob} \cup WithEvent \cup
  [at : {"called", "finish"}, call : Calls, line : Line \cup {NoLine}, base : Int]
AtRest == [at |-> "idle"]
Sweep == {AtRest} \cup
  [at : {"walk", "record", "commit", "save"}, next : Nat \ {0}]
Compaction == {AtRest} \cup
  [at : {"append", "clear"}, run : Runs, seen : SUBSET Marker]

Init ==
  /\ ledger = <<>>
  /\ spent = [r \in Runs |-> 0]
  /\ markers = [r \in Runs |-> {}]
  /\ archive = [r \in Runs |-> {}]
  /\ cursor = 0
  /\ job = [w \in Workers |-> NoJob]
  /\ sweep = AtRest
  /\ compaction = AtRest
  /\ tries = [c \in Calls |-> 0]
  /\ reserves = [r \in Runs |-> 0]
  /\ emitted = [c \in Calls |-> 0]

-----------------------------------------------------------------------------
(* The ledger and the marker. *)

\* record_spend scans the tail for the call and judges its first line.
TailOf(c) == {i \in 1..Len(ledger) : i > Len(ledger) - Window /\ ledger[i].call = c}
First(i, S) == i \in S /\ \A j \in S : i <= j
Fresh(line) == TailOf(line.call) = {}
Repeated(line) == \E i \in TailOf(line.call) : First(i, TailOf(line.call)) /\ ledger[i] = line
Conflicting(line) == ~Fresh(line) /\ ~Repeated(line)

\* Mutant: the duplicate is looked up with its digest.
RecordedByDigest(line) ==
  \/ (\E i \in 1..Len(ledger) : ledger[i] = line) /\ UNCHANGED ledger
  \/ (\A i \in 1..Len(ledger) : ledger[i] # line) /\ ledger' = Append(ledger, line)

\* record_spend when it does not raise.
Recorded(line) ==
  \/ Fresh(line) /\ ledger' = Append(ledger, line)
  \/ Repeated(line) /\ UNCHANGED ledger

MarkerOf(line) ==
  [source |-> IF line.missing THEN "usage_missing" ELSE PathOf[line.call], line |-> line]

\* What the daemon takes the marker of a line to be: _infer_source.
InferredMarker(line) ==
  [source |-> IF line.missing THEN "usage_missing" ELSE "adapter_path", line |-> line]

\* The three budget mutators.
Drain(line) ==
  IF line.missing THEN 0
  ELSE IF PathOf[line.call] = "governed_call" THEN line.cost - Estimate
  ELSE line.cost

-----------------------------------------------------------------------------
(* A worker. *)

\* pre_dispatch_reserve: a retry of the same call reserves again.
Reserve(w, c) ==
  LET r == RunOf[c] IN
  /\ job[w] = NoJob
  /\ PathOf[c] = "governed_call"
  /\ tries[c] < MaxTries
  /\ Limit - spent[r] >= Estimate
  /\ spent' = [spent EXCEPT ![r] = @ + Estimate]
  /\ reserves' = [reserves EXCEPT ![r] = @ + 1]
  /\ tries' = [tries EXCEPT ![c] = @ + 1]
  /\ job' = [job EXCEPT ![w] = [at |-> "called", call |-> c, line |-> NoLine, base |-> 0]]
  /\ UNCHANGED <<ledger, markers, archive, cursor, sweep, compaction, emitted>>

\* run_step loads the record, its budget included, and invokes the adapter.
Invoke(w, c) ==
  /\ job[w] = NoJob
  /\ PathOf[c] = "adapter_path"
  /\ tries[c] < MaxTries
  /\ tries' = [tries EXCEPT ![c] = @ + 1]
  /\ job' = [job EXCEPT ![w] =
       [at |-> "called", call |-> c, line |-> NoLine, base |-> spent[RunOf[c]]]]
  /\ UNCHANGED <<records, sweep, compaction, reserves, emitted>>

\* Mutant: the event carries the delta to drain for the cost.
ReplyWithDelta(w, cost, missing) ==
  /\ job[w].at = "called" /\ (missing /\ PathOf[job[w].call] = "governed_call" => cost = 0)
  /\ job' = [job EXCEPT ![w].at = "record",
       ![w].line = [call |-> job[w].call, cost |-> cost - Estimate, missing |-> missing]]
  /\ UNCHANGED <<records, sweep, compaction, tries, reserves, emitted>>

\* Mutant: straight to the run record, the ledger is left for later.
ReplyMarkerFirst(w, cost, missing) ==
  /\ job[w].at = "called" /\ (missing /\ PathOf[job[w].call] = "governed_call" => cost = 0)
  /\ job' = [job EXCEPT ![w].at = "commit",
       ![w].line = [call |-> job[w].call, cost |-> cost, missing |-> missing]]
  /\ UNCHANGED <<records, sweep, compaction, tries, reserves, emitted>>

\* The response, with its usage or without; a governed call without usage is
\* recorded at no cost, an adapter's at what it reports.
Reply(w, cost, missing) ==
  /\ job[w].at = "called"
  /\ missing /\ PathOf[job[w].call] = "governed_call" => cost = 0
  /\ job' = [job EXCEPT ![w].at = "record",
       ![w].line = [call |-> job[w].call, cost |-> cost, missing |-> missing]]
  /\ UNCHANGED <<records, sweep, compaction, tries, reserves, emitted>>

\* A transport error, the reservation stays; an adapter with no cost_actual.
NoReply(w) ==
  /\ job[w].at = "called"
  /\ job' = [job EXCEPT ![w].at = "finish"]
  /\ UNCHANGED <<records, sweep, compaction, tries, reserves, emitted>>

RecordSpend(w) ==
  /\ job[w].at = "record"
  /\ Recorded(job[w].line)
  /\ job' = [job EXCEPT ![w].at = "commit"]
  /\ UNCHANGED <<spent, markers, archive, cursor, sweep, compaction, tries, reserves, emitted>>

\* SpendLedgerDuplicateError.
RejectSpend(w) ==
  /\ job[w].at = "record"
  /\ Conflicting(job[w].line)
  /\ job' = [job EXCEPT ![w] = NoJob]
  /\ UNCHANGED <<records, sweep, compaction, tries, reserves, emitted>>

\* Mutant: the marker is not looked for.
CommitAgain(w) ==
  LET line == job[w].line   r == RunOf[job[w].call] IN
  /\ job[w].at = "commit" /\ spent[r] + Drain(line) <= Limit
  /\ spent' = [spent EXCEPT ![r] = @ + Drain(line)]
  /\ markers' = [markers EXCEPT ![r] = @ \cup {MarkerOf(line)}]
  /\ job' = [job EXCEPT ![w].at = "emit"]
  /\ UNCHANGED <<ledger, archive, cursor, sweep, compaction, tries, reserves, emitted>>

\* apply_spend_with_marker's compare-and-swap: budget and marker together.
Commit(w) ==
  LET line == job[w].line
      r == RunOf[job[w].call] IN
  /\ job[w].at = "commit"
  /\ MarkerOf(line) \notin markers[r]
  /\ spent[r] + Drain(line) <= Limit
  /\ spent' = [spent EXCEPT ![r] = @ + Drain(line)]
  /\ markers' = [markers EXCEPT ![r] = @ \cup {MarkerOf(line)}]
  /\ job' = [job EXCEPT ![w].at = "emit"]
  /\ UNCHANGED <<ledger, archive, cursor, sweep, compaction, tries, reserves, emitted>>

\* Mutant: the caller emits whatever the helper returns.
SkipCommitAndEmit(w) ==
  /\ job[w].at = "commit" /\ MarkerOf(job[w].line) \in markers[RunOf[job[w].call]]
  /\ job' = [job EXCEPT ![w].at = "emit"]
  /\ UNCHANGED <<records, sweep, compaction, tries, reserves, emitted>>

\* The marker is there already: committed stays False, nothing is emitted.
SkipCommit(w) ==
  /\ job[w].at = "commit"
  /\ MarkerOf(job[w].line) \in markers[RunOf[job[w].call]]
  /\ job' = [job EXCEPT ![w].at = "finish"]
  /\ UNCHANGED <<records, sweep, compaction, tries, reserves, emitted>>

\* WorkflowBudgetExhaustedError out of the mutator: neither is written.
ExhaustBudget(w) ==
  /\ job[w].at = "commit"
  /\ MarkerOf(job[w].line) \notin markers[RunOf[job[w].call]]
  /\ spent[RunOf[job[w].call]] + Drain(job[w].line) > Limit
  /\ job' = [job EXCEPT ![w] = NoJob]
  /\ UNCHANGED <<records, sweep, compaction, tries, reserves, emitted>>

Emit(w) ==
  /\ job[w].at = "emit"
  /\ emitted' = [emitted EXCEPT ![job[w].call] = @ + 1]
  /\ job' = [job EXCEPT ![w].at = "finish"]
  /\ UNCHANGED <<records, sweep, compaction, tries, reserves>>

\* The call returns; run_step, when it owns the run record, writes back the
\* budget it loaded before the call (the call's time added to it).
Finish(w) ==
  /\ job[w].at = "finish"
  /\ IF PathOf[job[w].call] = "adapter_path" /\ ~Managed
     THEN spent' = [spent EXCEPT ![RunOf[job[w].call]] = job[w].base]
     ELSE UNCHANGED spent
  /\ job' = [job EXCEPT ![w] = NoJob]
  /\ UNCHANGED <<ledger, markers, archive, cursor, sweep, compaction, tries, reserves, emitted>>

\* The process dies, or its update_run runs out of retries.
Crash(w) ==
  /\ "crash" \in Faults
  /\ job[w] # NoJob
  /\ job' = [job EXCEPT ![w] = NoJob]
  /\ UNCHANGED <<records, sweep, compaction, tries, reserves, emitted>>

-----------------------------------------------------------------------------
(* The daemon: scan_and_fix, one pass under the cursor lock. *)
others == <<archive, job, compaction, tries, reserves, emitted>>

ScanBegin ==
  /\ "daemon" \in Operators
  /\ sweep = AtRest
  /\ sweep' = [at |-> "walk", next |-> cursor + 1]
  /\ UNCHANGED <<ledger, spent, markers, cursor, others>>

Swept == ledger[sweep.next]
Walk == [at |-> "walk", next |-> sweep.next + 1]
Reconciled(line) == InferredMarker(line) \in markers[RunOf[line.call]]

ScanLine ==
  /\ sweep.at = "walk"
  /\ sweep.next <= Len(ledger)
  /\ sweep' = IF Reconciled(Swept) THEN Walk ELSE [sweep EXCEPT !.at = "record"]
  /\ UNCHANGED <<ledger, spent, markers, cursor, others>>

\* fix_orphan: the ledger first, as for a worker, then the marker alone.
FixRecord ==
  /\ sweep.at = "record"
  /\ Recorded(Swept)
  /\ sweep' = [sweep EXCEPT !.at = "commit"]
  /\ UNCHANGED <<spent, markers, cursor, others>>

FixCommit ==
  /\ sweep.at = "commit"
  /\ markers' = [markers EXCEPT ![RunOf[Swept.call]] = @ \cup {InferredMarker(Swept)}]
  /\ sweep' = Walk
  /\ UNCHANGED <<ledger, spent, cursor, others>>

\* An error is listed in the result, and the pass goes on.
FixFails ==
  /\ \/ sweep.at = "record" /\ Conflicting(Swept)
     \/ sweep.at = "commit" /\ "cas_conflict" \in Faults
  /\ sweep' = Walk
  /\ UNCHANGED <<ledger, spent, markers, cursor, others>>

ScanEnd ==
  /\ sweep.at = "walk"
  /\ sweep.next > Len(ledger)
  /\ sweep' = [sweep EXCEPT !.at = "save"]
  /\ UNCHANGED <<ledger, spent, markers, cursor, others>>

\* The lines are counted again for the new offset.
SaveCursor ==
  /\ sweep.at = "save"
  /\ cursor' = Len(ledger)
  /\ sweep' = AtRest
  /\ UNCHANGED <<ledger, spent, markers, others>>

ScanCrash ==
  /\ "crash" \in Faults
  /\ sweep # AtRest
  /\ sweep' = AtRest
  /\ UNCHANGED <<ledger, spent, markers, cursor, others>>

-----------------------------------------------------------------------------
(* The compactor: compact_run_markers. *)
LoadMarkers(r) ==
  /\ "compactor" \in Operators
  /\ compaction = AtRest
  /\ markers[r] # {}
  /\ compaction' = [at |-> "append", run |-> r, seen |-> markers[r]]
  /\ UNCHANGED <<records, job, sweep, tries, reserves, emitted>>

AppendArchive ==
  /\ compaction.at = "append"
  /\ archive' = [archive EXCEPT ![compaction.run] = @ \cup compaction.seen]
  /\ compaction' = [compaction EXCEPT !.at = "clear"]
  /\ UNCHANGED <<ledger, spent, markers, cursor, job, sweep, tries, reserves, emitted>>

ClearMarkers ==
  /\ compaction.at = "clear"
  /\ markers' = [markers EXCEPT ![compaction.run] = {}]
  /\ compaction' = AtRest
  /\ UNCHANGED <<ledger, spent, archive, cursor, job, sweep, tries, reserves, emitted>>

CompactionCrash ==
  /\ "crash" \in Faults
  /\ compaction # AtRest
  /\ compaction' = AtRest
  /\ UNCHANGED <<records, job, sweep, tries, reserves, emitted>>

-----------------------------------------------------------------------------
Work(w) ==
  \/ \E c \in Calls : Reserve(w, c) \/ Invoke(w, c)
  \/ \E cost \in Costs \cup {0}, missing \in BOOLEAN : Reply(w, cost, missing)
  \/ NoReply(w) \/ RecordSpend(w) \/ RejectSpend(w)
  \/ Commit(w) \/ SkipCommit(w) \/ ExhaustBudget(w)
  \/ Emit(w) \/ Finish(w) \/ Crash(w)

Scan ==
  \/ ScanBegin \/ ScanLine \/ FixRecord \/ FixCommit \/ FixFails
  \/ ScanEnd \/ SaveCursor \/ ScanCrash

Compact ==
  \/ \E r \in Runs : LoadMarkers(r)
  \/ AppendArchive \/ ClearMarkers \/ CompactionCrash

Next == (\E w \in Workers : Work(w)) \/ Scan \/ Compact

Spec == Init /\ [][Next]_vars

-----------------------------------------------------------------------------
(* Properties. *)

(* The files, the run records and the processes; a ledger line, the event  *)
(* it was made from and the marker made from that are of one kind.         *)
TypeOK ==
  /\ ledger \in Seq(Line)
  /\ spent \in [Runs -> Int]
  /\ markers \in [Runs -> SUBSET Marker]
  /\ archive \in [Runs -> SUBSET Marker]
  /\ cursor \in 0..Len(ledger)
  /\ job \in [Workers -> Job]
  /\ sweep \in Sweep
  /\ compaction \in Compaction
  /\ tries \in [Calls -> 0..MaxTries]
  /\ reserves \in [Runs -> Nat]
  /\ emitted \in [Calls -> Nat]

Lines == {ledger[i] : i \in 1..Len(ledger)}

(* A budget is drained for a call only when the ledger has its line: a     *)
(* crash leaves a line without a marker, never a marker without its line,  *)
(* be it stamped by the call, by the daemon, or archived since.            *)
LedgerFirst ==
  \A r \in Runs : \A m \in markers[r] \cup archive[r] :
    m.line \in Lines /\ RunOf[m.line.call] = r

(* As long as the ledger fits the idempotency window, a call has one line, *)
(* though it be made by two processes, or again after a crash, and be      *)
(* answered at another cost.                                               *)
OneLinePerCall ==
  \A i, j \in 1..Len(ledger) : ledger[i].call = ledger[j].call => i = j

(* A call has one marker: its budget is drained along one path, once.      *)
OneMarkerPerCall ==
  \A r \in Runs : \A m, n \in markers[r] : m.line.call = n.line.call => m = n

(* The budget of a run is what was reserved and what its markers settle:   *)
(* no retry, crash or concurrent call drains it twice or forgets a drain.  *)
BudgetExact ==
  \A r \in Runs :
    spent[r] = Estimate * reserves[r]
             + MapThenSumSet(LAMBDA m : Drain(m.line), markers[r])

(* Two processes that make one call leave one spend event in the evidence. *)
EvidenceOnce == \A c \in Calls : emitted[c] <= 1

(* Every marker ever stamped is in the run record or in its archive.       *)
MarkersKept ==
  [][\A r \in Runs : markers[r] \cup archive[r] \subseteq (markers[r] \cup archive[r])']_vars

(* The daemon leaves no unmarked line behind its cursor but the one a      *)
(* worker is about to mark.  The code does not keep this: see README.md,   *)
(* What TLC refutes.                                                       *)
NothingSkipped ==
  \A i \in 1..cursor :
    \/ \E m \in markers[RunOf[ledger[i].call]] : m.line = ledger[i]
    \/ \E w \in Workers : job[w].at = "commit" /\ job[w].line = ledger[i]

(* The daemon stamps markers: whatever line it fixes, the ledger is the    *)
(* same after its pass but for the lines of the workers.  The code does    *)
(* not keep this beyond the idempotency window: see README.md, What TLC    *)
(* refutes.                                                                *)
DaemonAppendsNothing == [][sweep' # sweep => UNCHANGED ledger]_vars

(* The spend protocol keeps the promises of the account.                   *)
Account == INSTANCE SpendAccount WITH
  settled <- UNION {{[call |-> m.line.call, amount |-> Drain(m.line)] : m \in markers[r]}
                      : r \in Runs}
ImplementsAccount == Account!Spec
=============================================================================

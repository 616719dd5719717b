------------------------ MODULE SpendReconcileProofs ------------------------
(***************************************************************************)
(* What the ledger and the markers owe each other, for any processes,      *)
(* calls, runs, costs and window, across crashes and lost compare-and-     *)
(* swaps, with the daemon and the compactor at work.                       *)
(***************************************************************************)
EXTENDS SpendReconcile, InductionLemmas, SequenceTheorems

(* The cost of every event in hand comes from a response.                  *)
LEMMA CostsAreNaturals == \A line \in Line : line.cost \in Nat /\ Drain(line) \in Int
<1>1. Costs \cup {0} \subseteq Nat
  BY SpendAssumption
<1>2. ASSUME NEW line \in Line PROVE line.cost \in Nat
  BY <1>1 DEF Line
<1>3. ASSUME NEW line \in Line PROVE line.cost - Estimate \in Int
  BY <1>2, SpendAssumption
<1>4. ASSUME NEW line \in Line
      PROVE  \/ Drain(line) = 0
             \/ Drain(line) = line.cost - Estimate
             \/ Drain(line) = line.cost
  BY Zenon DEF Drain
<1> QED
  BY <1>2, <1>3, <1>4

(* A recorded ledger is the old one or the old one and a line.             *)
LEMMA RecordedLedger ==
  ASSUME ledger \in Seq(Line), NEW line \in Line, Recorded(line)
  PROVE  /\ ledger' \in Seq(Line)
         /\ Len(ledger) <= Len(ledger')
         /\ \A i \in 1..Len(ledger) : ledger'[i] = ledger[i]
         /\ \E i \in 1..Len(ledger') : ledger'[i] = line
<1>1. CASE Fresh(line) /\ ledger' = Append(ledger, line)
  <2>1. Len(ledger') = Len(ledger) + 1 /\ ledger'[Len(ledger) + 1] = line
    BY <1>1
  <2> QED
    BY <1>1, <2>1
<1>2. CASE Repeated(line) /\ UNCHANGED ledger
  BY <1>2 DEF Repeated, TailOf
<1> QED
  BY <1>1, <1>2 DEF Recorded

-----------------------------------------------------------------------------
(* The daemon's position, once it looks at a line, is a line's.            *)
SweepInLedger == sweep.at \in {"record", "commit"} => sweep.next \in 1..Len(ledger)

(* Files, records and processes stay of their types.                       *)
LEMMA TypeStep == TypeOK /\ SweepInLedger /\ [Next]_vars => TypeOK' /\ SweepInLedger'
<1> SUFFICES ASSUME TypeOK, SweepInLedger, [Next]_vars PROVE TypeOK' /\ SweepInLedger'
  OBVIOUS
<1> USE SpendAssumption, NoLineAssumption
<1>t. /\ ledger \in Seq(Line)
      /\ spent \in [Runs -> Int]
      /\ markers \in [Runs -> SUBSET Marker]
      /\ archive \in [Runs -> SUBSET Marker]
      /\ cursor \in 0..Len(ledger)
      /\ job \in [Workers -> Job]
      /\ sweep \in Sweep
      /\ compaction \in Compaction
      /\ tries \in [Calls -> 0..MaxTries]
      /\ reserves \in [Runs -> Nat]
      /\ emitted \in [Calls -> Nat]
  BY DEF TypeOK
<1>m. \A line \in Line : MarkerOf(line) \in Marker /\ InferredMarker(line) \in Marker
  BY DEF MarkerOf, InferredMarker, Marker, Paths, Line
<1>r. ASSUME NEW line \in Line, Recorded(line)
      PROVE  /\ ledger' \in Seq(Line)
             /\ cursor \in 0..Len(ledger')
             /\ sweep.at \in {"record", "commit"} => sweep.next \in 1..Len(ledger')
  BY <1>t, <1>r, RecordedLedger, LenProperties DEF SweepInLedger
<1>1. ASSUME NEW w \in Workers, Work(w) PROVE TypeOK' /\ SweepInLedger'
  <2>j. /\ job[w] \in Job
        /\ job[w].at \in {"record", "commit", "emit"} => job[w] \in WithEvent
        /\ job[w].at \in {"called", "finish"} =>
             job[w] \in [at : {"called", "finish"}, call : Calls,
                         line : Line \cup {NoLine}, base : Int]
    BY <1>t DEF Job, NoJob, WithEvent
  <2> USE DEF SweepInLedger
  <2>1. ASSUME NEW c \in Calls, Reserve(w, c) PROVE TypeOK' /\ SweepInLedger'
    BY <1>t, <2>j, <2>1 DEF Reserve, TypeOK, Job, WithEvent, NoJob, records
  <2>2. ASSUME NEW c \in Calls, Invoke(w, c) PROVE TypeOK' /\ SweepInLedger'
    BY <1>t, <2>j, <2>2 DEF Invoke, TypeOK, Job, WithEvent, NoJob, records
  <2>3. ASSUME NEW cost \in Costs \cup {0}, NEW missing \in BOOLEAN, Reply(w, cost, missing) PROVE TypeOK' /\ SweepInLedger'
    BY <1>t, <2>j, <2>3 DEF Reply, Line, TypeOK, Job, WithEvent, NoJob, records
  <2>4. ASSUME NoReply(w) PROVE TypeOK' /\ SweepInLedger'
    BY <1>t, <2>j, <2>4 DEF NoReply, TypeOK, Job, WithEvent, NoJob, records
  <2>5. ASSUME RecordSpend(w) PROVE TypeOK' /\ SweepInLedger'
    BY <1>t, <2>j, <2>5, <1>r, <1>m, CostsAreNaturals DEF RecordSpend, TypeOK, Job, WithEvent, NoJob, records
  <2>6. ASSUME RejectSpend(w) PROVE TypeOK' /\ SweepInLedger'
    BY <1>t, <2>j, <2>6 DEF RejectSpend, TypeOK, Job, WithEvent, NoJob, records
  <2>7. ASSUME Commit(w) PROVE TypeOK' /\ SweepInLedger'
    <3>1. job[w].line \in Line /\ job[w] \in WithEvent
      BY <2>j, <2>7 DEF Commit, WithEvent
    <3>2. job' \in [Workers -> Job]
      BY <1>t, <2>7, <3>1 DEF Commit, Job, WithEvent
    <3>3. spent' \in [Runs -> Int]
      <4>1. Drain(job[w].line) \in Int
        BY <3>1, CostsAreNaturals
      <4>2. RunOf[job[w].call] \in Runs
        BY <3>1 DEF WithEvent
      <4> QED
        BY <1>t, <2>7, <4>1, <4>2 DEF Commit
    <3>4. markers' \in [Runs -> SUBSET Marker]
      BY <1>t, <1>m, <2>7, <3>1 DEF Commit
    <3> QED
      BY <1>t, <2>7, <3>2, <3>3, <3>4 DEF Commit, TypeOK
  <2>8. ASSUME SkipCommit(w) PROVE TypeOK' /\ SweepInLedger'
    BY <1>t, <2>j, <2>8 DEF SkipCommit, TypeOK, Job, WithEvent, NoJob, records
  <2>9. ASSUME ExhaustBudget(w) PROVE TypeOK' /\ SweepInLedger'
    BY <1>t, <2>j, <2>9 DEF ExhaustBudget, TypeOK, Job, WithEvent, NoJob, records
  <2>10. ASSUME Emit(w) PROVE TypeOK' /\ SweepInLedger'
    <3>1. job' \in [Workers -> Job]
      BY <1>t, <2>j, <2>10 DEF Emit, Job, WithEvent
    <3>2. emitted' \in [Calls -> Nat]
      BY <1>t, <2>j, <2>10 DEF Emit, WithEvent
    <3> QED
      BY <1>t, <2>10, <3>1, <3>2 DEF Emit, TypeOK, records
  <2>11. ASSUME Finish(w) PROVE TypeOK' /\ SweepInLedger'
    BY <1>t, <2>j, <2>11 DEF Finish, TypeOK, Job, WithEvent, NoJob, records
  <2>12. ASSUME Crash(w) PROVE TypeOK' /\ SweepInLedger'
    BY <1>t, <2>j, <2>12 DEF Crash, TypeOK, Job, WithEvent, NoJob, records
  <2> QED
    BY <1>1, <2>1, <2>2, <2>3, <2>4, <2>5, <2>6, <2>7, <2>8, <2>9, <2>10, <2>11, <2>12 DEF Work
<1>2. ASSUME Scan PROVE TypeOK' /\ SweepInLedger'
  <2>s. sweep # AtRest => sweep \in [at : {"walk", "record", "commit", "save"}, next : Nat \ {0}]
    BY <1>t DEF Sweep
  <2>a. sweep.at \in {"walk", "record", "commit", "save"} => sweep # AtRest
    BY DEF AtRest
  <2> USE DEF SweepInLedger, Sweep, AtRest, Walk, Swept, others
  <2>1. CASE ScanBegin
    BY <1>t, <2>s, <2>a, <2>1 DEF ScanBegin, TypeOK
  <2>2. CASE ScanLine
    BY <1>t, <2>s, <2>a, <2>2 DEF ScanLine, TypeOK
  <2>3. CASE FixRecord
    BY <1>t, <2>s, <2>a, <2>3, <1>r DEF FixRecord, TypeOK
  <2>4. CASE FixCommit
    <3>1. InferredMarker(Swept) \in Marker
      BY <1>t, <1>m, <2>4 DEF FixCommit
    <3>2. markers' \in [Runs -> SUBSET Marker]
      BY <1>t, <2>4, <3>1 DEF FixCommit
    <3> QED
      BY <1>t, <2>s, <2>a, <2>4, <3>2 DEF FixCommit, TypeOK
  <2>5. CASE FixFails
    BY <1>t, <2>s, <2>a, <2>5 DEF FixFails, TypeOK
  <2>6. CASE ScanEnd
    BY <1>t, <2>s, <2>a, <2>6 DEF ScanEnd, TypeOK
  <2>7. CASE SaveCursor
    BY <1>t, <2>s, <2>a, <2>7 DEF SaveCursor, TypeOK
  <2>8. CASE ScanCrash
    BY <1>t, <2>s, <2>a, <2>8 DEF ScanCrash, TypeOK
  <2> QED
    BY <1>2, <2>1, <2>2, <2>3, <2>4, <2>5, <2>6, <2>7, <2>8 DEF Scan
<1>3. ASSUME Compact PROVE TypeOK' /\ SweepInLedger'
  <2>c. compaction # AtRest =>
          compaction \in [at : {"append", "clear"}, run : Runs, seen : SUBSET Marker]
    BY <1>t DEF Compaction
  <2>a. compaction.at \in {"append", "clear"} => compaction # AtRest
    BY DEF AtRest
  <2> USE DEF SweepInLedger, Compaction, AtRest, records
  <2>1. ASSUME NEW r \in Runs, LoadMarkers(r) PROVE TypeOK' /\ SweepInLedger'
    BY <1>t, <2>c, <2>a, <2>1 DEF LoadMarkers, TypeOK
  <2>2. CASE AppendArchive
    BY <1>t, <2>c, <2>a, <2>2 DEF AppendArchive, TypeOK
  <2>3. CASE ClearMarkers
    BY <1>t, <2>c, <2>a, <2>3 DEF ClearMarkers, TypeOK
  <2>4. CASE CompactionCrash
    BY <1>t, <2>c, <2>a, <2>4 DEF CompactionCrash, TypeOK
  <2> QED
    BY <1>3, <2>1, <2>2, <2>3, <2>4 DEF Compact
<1>4. CASE UNCHANGED vars
  BY <1>t, <1>4 DEF vars, records, TypeOK, SweepInLedger
<1> QED
  BY <1>1, <1>2, <1>3, <1>4 DEF Next

LEMMA TypesAndSweep == Spec => [](TypeOK /\ SweepInLedger)
<1>1. Init => TypeOK /\ SweepInLedger
  <2> SUFFICES ASSUME Init PROVE TypeOK /\ SweepInLedger
    OBVIOUS
  <2>1. ledger \in Seq(Line) /\ cursor \in 0..Len(ledger)
    BY EmptySeq DEF Init
  <2> QED
    BY <2>1, SpendAssumption DEF Init, TypeOK, SweepInLedger, Job, NoJob, Sweep, AtRest, Compaction
<1> QED
  BY <1>1, TypeStep, PTL DEF Spec

(* The files, the run records and the processes stay of their types.       *)
THEOREM SpendTypeCorrect == Spec => []TypeOK
  BY TypesAndSweep, PTL

-----------------------------------------------------------------------------
(* A worker or the daemon appends to the ledger, and nobody else writes it. *)
LEMMA LedgerStep ==
  ASSUME TypeOK, SweepInLedger, [Next]_vars
  PROVE  UNCHANGED ledger \/ \E line \in Line : Recorded(line)
<1> USE DEF records
<1>1. ASSUME NEW w \in Workers, Work(w), ~RecordSpend(w) PROVE UNCHANGED ledger
  BY <1>1 DEF Work, Reserve, Invoke, Reply, NoReply, RejectSpend, Commit, SkipCommit,
              ExhaustBudget, Emit, Finish, Crash
<1>2. ASSUME NEW w \in Workers, RecordSpend(w) PROVE \E line \in Line : Recorded(line)
  <2>1. job[w] \in Job /\ job[w].at = "record" /\ Recorded(job[w].line)
    BY <1>2 DEF RecordSpend, TypeOK
  <2>2. job[w].line \in Line
    BY <2>1 DEF Job, NoJob, WithEvent
  <2> QED
    BY <2>1, <2>2
<1>3. ASSUME Scan, ~FixRecord PROVE UNCHANGED ledger
  BY <1>3 DEF Scan, ScanBegin, ScanLine, FixCommit, FixFails, ScanEnd, SaveCursor, ScanCrash
<1>4. ASSUME FixRecord PROVE \E line \in Line : Recorded(line)
  BY <1>4 DEF FixRecord, Swept, SweepInLedger, TypeOK
<1>5. ASSUME Compact PROVE UNCHANGED ledger
  BY <1>5 DEF Compact, LoadMarkers, AppendArchive, ClearMarkers, CompactionCrash
<1>6. CASE UNCHANGED vars
  BY <1>6 DEF vars
<1> QED
  BY <1>1, <1>2, <1>3, <1>4, <1>5, <1>6 DEF Next

(* Lines stay in the ledger. *)
LEMMA LedgerGrows ==
  ASSUME TypeOK, SweepInLedger, [Next]_vars
  PROVE  Lines \subseteq Lines'
<1>1. CASE UNCHANGED ledger
  BY <1>1 DEF Lines
<1>2. ASSUME NEW l \in Line, Recorded(l) PROVE Lines \subseteq Lines'
  <2>1. /\ Len(ledger) \in Nat /\ Len(ledger') \in Nat
        /\ Len(ledger) <= Len(ledger')
        /\ \A i \in 1..Len(ledger) : ledger'[i] = ledger[i]
    BY <1>2, RecordedLedger, LenProperties DEF TypeOK
  <2> QED
    BY <2>1 DEF Lines
<1> QED
  BY <1>1, <1>2, LedgerStep

-----------------------------------------------------------------------------
(* The invariant behind LedgerFirst: an event about to be committed is in  *)
(* the ledger, and so are the markers the compactor has in hand.           *)
MarkersBacked == \A r \in Runs : \A m \in markers[r] : m.line \in Lines /\ RunOf[m.line.call] = r
ArchiveBacked == \A r \in Runs : \A m \in archive[r] : m.line \in Lines /\ RunOf[m.line.call] = r
SeenBacked ==
  compaction.at \in {"append", "clear"} => \A m \in compaction.seen : m.line \in Lines /\ RunOf[m.line.call] = compaction.run
EventsOfCalls ==
  \A w \in Workers : job[w].at \in {"record", "commit", "emit"} => job[w].line.call = job[w].call
EventsInLedger == \A w \in Workers : job[w].at = "commit" => job[w].line \in Lines
FirstInv == MarkersBacked /\ ArchiveBacked /\ SeenBacked /\ EventsOfCalls /\ EventsInLedger

LEMMA FirstStep ==
  ASSUME TypeOK, SweepInLedger, FirstInv, [Next]_vars
  PROVE  FirstInv'
<1>g. Lines \subseteq Lines'
  BY LedgerGrows
<1>1. ASSUME UNCHANGED markers PROVE MarkersBacked'
  BY <1>1, <1>g DEF FirstInv, MarkersBacked
<1>2. ASSUME UNCHANGED archive PROVE ArchiveBacked'
  BY <1>2, <1>g DEF FirstInv, ArchiveBacked
<1>3. ASSUME UNCHANGED compaction PROVE SeenBacked'
  BY <1>3, <1>g DEF FirstInv, SeenBacked
<1>4. ASSUME UNCHANGED job PROVE EventsOfCalls' /\ EventsInLedger'
  BY <1>4, <1>g DEF FirstInv, EventsOfCalls, EventsInLedger
<1>5. ASSUME NEW w \in Workers, Work(w) PROVE FirstInv'
  <2>j. /\ job \in [Workers -> Job]
        /\ job[w] \in Job
        /\ job[w].at \in {"record", "commit", "emit"} => job[w] \in WithEvent
        /\ job[w].at \in {"called", "finish"} =>
             job[w] \in [at : {"called", "finish"}, call : Calls,
                         line : Line \cup {NoLine}, base : Int]
    BY DEF TypeOK, Job, NoJob, WithEvent
  \* Every step but a worker's own leaves the events of the others alone.
  <2>e. ASSUME NEW j, job' = [job EXCEPT ![w] = j],
               j.at \in {"record", "commit", "emit"} => j.line.call = j.call,
               j.at = "commit" => j.line \in Lines'
        PROVE  EventsOfCalls' /\ EventsInLedger'
    BY <1>g, <2>j, <2>e DEF FirstInv, EventsOfCalls, EventsInLedger
  <2>1. ASSUME NEW c \in Calls, Reserve(w, c) \/ Invoke(w, c) PROVE FirstInv'
    <3>1. UNCHANGED <<markers, archive, compaction>>
      BY <2>1 DEF Reserve, Invoke, records
    <3>2. EventsOfCalls' /\ EventsInLedger'
      BY <2>1, <2>e DEF Reserve, Invoke
    <3> QED
      BY <1>1, <1>2, <1>3, <3>1, <3>2 DEF FirstInv
  <2>2. ASSUME NEW cost \in Costs \cup {0}, NEW missing \in BOOLEAN, Reply(w, cost, missing)
        PROVE  FirstInv'
    <3>1. UNCHANGED <<markers, archive, compaction>>
      BY <2>2 DEF Reply, records
    <3>2. job' = [job EXCEPT ![w] = [job[w] EXCEPT !.at = "record",
            !.line = [call |-> job[w].call, cost |-> cost, missing |-> missing]]]
      BY <2>2, <2>j DEF Reply
    <3>3. EventsOfCalls' /\ EventsInLedger'
      BY <2>2, <2>j, <2>e, <3>2 DEF Reply
    <3> QED
      BY <1>1, <1>2, <1>3, <3>1, <3>3 DEF FirstInv
  <2>3. CASE RecordSpend(w)
    <3>1. UNCHANGED <<markers, archive, compaction>>
      BY <2>3 DEF RecordSpend
    <3>2. job' = [job EXCEPT ![w] = [job[w] EXCEPT !.at = "commit"]] /\ job[w] \in WithEvent
      BY <2>3, <2>j DEF RecordSpend
    <3>3. job[w].line \in Lines'
      BY <2>3, <3>2, RecordedLedger DEF RecordSpend, Lines, TypeOK, WithEvent
    <3>4. job[w].line.call = job[w].call
      BY <2>3 DEF RecordSpend, FirstInv, EventsOfCalls
    <3>5. EventsOfCalls' /\ EventsInLedger'
      BY <2>e, <3>2, <3>3, <3>4 DEF WithEvent
    <3> QED
      BY <1>1, <1>2, <1>3, <3>1, <3>5 DEF FirstInv
  <2>4. CASE Commit(w)
    <3>1. job[w] \in WithEvent /\ job[w].line.call = job[w].call /\ job[w].line \in Lines
      BY <2>4, <2>j DEF Commit, FirstInv, EventsOfCalls, EventsInLedger
    <3>2. job' = [job EXCEPT ![w] = [job[w] EXCEPT !.at = "emit"]]
      BY <2>4 DEF Commit
    <3>3. EventsOfCalls' /\ EventsInLedger'
      BY <2>e, <3>1, <3>2 DEF WithEvent
    <3>4. MarkerOf(job[w].line).line = job[w].line
      BY DEF MarkerOf
    <3>5. MarkersBacked'
      BY <1>g, <2>4, <3>1, <3>4 DEF Commit, FirstInv, MarkersBacked, TypeOK
    <3>6. UNCHANGED <<archive, compaction>>
      BY <2>4 DEF Commit
    <3> QED
      BY <1>2, <1>3, <3>3, <3>5, <3>6 DEF FirstInv
  <2>5. CASE NoReply(w) \/ SkipCommit(w) \/ Emit(w)
    <3>1. UNCHANGED <<markers, archive, compaction>>
      BY <2>5 DEF NoReply, SkipCommit, Emit, records
    <3>2. job' = [job EXCEPT ![w] = [job[w] EXCEPT !.at = "finish"]]
          /\ job[w].at \in {"called", "commit", "emit"}
      BY <2>5 DEF NoReply, SkipCommit, Emit
    <3>3. [job[w] EXCEPT !.at = "finish"].at = "finish"
      BY <2>j, <3>2 DEF WithEvent
    <3>4. EventsOfCalls' /\ EventsInLedger'
      BY <2>e, <3>2, <3>3
    <3> QED
      BY <1>1, <1>2, <1>3, <3>1, <3>4 DEF FirstInv
  <2>6. CASE RejectSpend(w) \/ ExhaustBudget(w) \/ Finish(w) \/ Crash(w)
    <3>1. UNCHANGED <<markers, archive, compaction>> /\ job' = [job EXCEPT ![w] = NoJob]
      BY <2>6 DEF RejectSpend, ExhaustBudget, Finish, Crash, records
    <3>2. EventsOfCalls' /\ EventsInLedger'
      BY <2>e, <3>1 DEF NoJob
    <3> QED
      BY <1>1, <1>2, <1>3, <3>1, <3>2 DEF FirstInv
  <2> QED
    BY <1>5, <2>1, <2>2, <2>3, <2>4, <2>5, <2>6 DEF Work
<1>6. ASSUME Scan PROVE FirstInv'
  <2>1. UNCHANGED <<archive, compaction, job>>
    BY <1>6 DEF Scan, ScanBegin, ScanLine, FixRecord, FixCommit, FixFails, ScanEnd,
                SaveCursor, ScanCrash, others
  <2>2. CASE FixCommit
    <3>1. sweep.next \in 1..Len(ledger) /\ Swept \in Lines
      BY <2>2 DEF FixCommit, SweepInLedger, Lines, Swept
    <3>2. InferredMarker(Swept).line = Swept
      BY DEF InferredMarker
    <3>3. MarkersBacked'
      BY <1>g, <2>2, <3>1, <3>2 DEF FixCommit, FirstInv, MarkersBacked, TypeOK
    <3> QED
      BY <1>2, <1>3, <1>4, <2>1, <3>3 DEF FirstInv
  <2>3. CASE ~FixCommit
    <3>1. UNCHANGED markers
      BY <1>6, <2>3 DEF Scan, ScanBegin, ScanLine, FixRecord, FixFails, ScanEnd,
                        SaveCursor, ScanCrash
    <3> QED
      BY <1>1, <1>2, <1>3, <1>4, <2>1, <3>1 DEF FirstInv
  <2> QED
    BY <2>2, <2>3
<1>7. ASSUME Compact PROVE FirstInv'
  <2>1. UNCHANGED job
    BY <1>7 DEF Compact, LoadMarkers, AppendArchive, ClearMarkers, CompactionCrash
  <2>c. compaction.at \in {"append", "clear"} =>
          compaction \in [at : {"append", "clear"}, run : Runs, seen : SUBSET Marker]
    BY DEF TypeOK, Compaction, AtRest
  <2>2. ASSUME NEW r \in Runs, LoadMarkers(r) PROVE FirstInv'
    <3>1. UNCHANGED <<markers, archive>>
      BY <2>2 DEF LoadMarkers, records
    <3>2. SeenBacked'
      BY <1>g, <2>2 DEF LoadMarkers, FirstInv, MarkersBacked, SeenBacked
    <3> QED
      BY <1>1, <1>2, <1>4, <2>1, <3>1, <3>2 DEF FirstInv
  <2>3. CASE AppendArchive
    <3>1. UNCHANGED markers
      BY <2>3 DEF AppendArchive
    <3>2. ArchiveBacked'
      BY <1>g, <2>3 DEF AppendArchive, FirstInv, ArchiveBacked, SeenBacked, TypeOK
    <3>3. SeenBacked'
      BY <1>g, <2>3, <2>c DEF AppendArchive, FirstInv, SeenBacked
    <3> QED
      BY <1>1, <1>4, <2>1, <3>1, <3>2, <3>3 DEF FirstInv
  <2>4. CASE ClearMarkers
    <3>1. MarkersBacked'
      BY <1>g, <2>4 DEF ClearMarkers, FirstInv, MarkersBacked, TypeOK
    <3>2. SeenBacked' /\ UNCHANGED archive
      BY <2>4 DEF ClearMarkers, SeenBacked, AtRest
    <3> QED
      BY <1>2, <1>4, <2>1, <3>1, <3>2 DEF FirstInv
  <2>5. CASE CompactionCrash
    <3>1. SeenBacked' /\ UNCHANGED <<markers, archive>>
      BY <2>5 DEF CompactionCrash, SeenBacked, AtRest, records
    <3> QED
      BY <1>1, <1>2, <1>4, <2>1, <3>1 DEF FirstInv
  <2> QED
    BY <1>7, <2>2, <2>3, <2>4, <2>5 DEF Compact
<1>8. CASE UNCHANGED vars
  BY <1>1, <1>2, <1>3, <1>4, <1>8 DEF vars, records, FirstInv
<1> QED
  BY <1>5, <1>6, <1>7, <1>8 DEF Next

LEMMA FirstInvariant == Spec => []FirstInv
<1>1. Init => FirstInv
  BY DEF Init, FirstInv, MarkersBacked, ArchiveBacked, SeenBacked, EventsOfCalls,
         EventsInLedger, NoJob, AtRest
<1>2. TypeOK /\ SweepInLedger /\ FirstInv /\ [Next]_vars => FirstInv'
  BY FirstStep
<1> QED
  BY <1>1, <1>2, TypesAndSweep, PTL DEF Spec

(* A marker, in a run record or archived, has its line in the ledger and   *)
(* belongs to the run of its call, whoever stamped it and wherever a       *)
(* process died.                                                           *)
THEOREM MarkersFollowLines == Spec => []LedgerFirst
<1>1. FirstInv => LedgerFirst
  BY DEF FirstInv, MarkersBacked, ArchiveBacked, LedgerFirst
<1> QED
  BY <1>1, FirstInvariant, PTL

-----------------------------------------------------------------------------
(* While the whole ledger is in the window, a fresh line is the first of   *)
(* its call.                                                               *)
LEMMA OneLineStep ==
  ASSUME TypeOK, SweepInLedger, OneLinePerCall, Len(ledger) <= Window, [Next]_vars
  PROVE  OneLinePerCall'
<1>1. CASE UNCHANGED ledger
  BY <1>1 DEF OneLinePerCall
<1>2. ASSUME NEW line \in Line, Fresh(line), ledger' = Append(ledger, line)
      PROVE  OneLinePerCall'
  <2>1. /\ Len(ledger) \in Nat
        /\ Len(ledger') = Len(ledger) + 1
        /\ ledger'[Len(ledger) + 1] = line
        /\ \A i \in 1..Len(ledger) : ledger'[i] = ledger[i]
    BY <1>2 DEF TypeOK
  <2>2. \A i \in 1..Len(ledger) : ledger[i].call # line.call
    BY <1>2, <2>1, SpendAssumption DEF Fresh, TailOf
  <2> QED
    BY <2>1, <2>2 DEF OneLinePerCall
<1> QED
  BY <1>1, <1>2, LedgerStep DEF Recorded

(* A call has one line in a ledger that fits the idempotency window,       *)
(* whoever made it, however often, and whatever the answers cost.          *)
THEOREM CallsHaveOneLine == Spec /\ [](Len(ledger) <= Window) => []OneLinePerCall
<1>1. Init => OneLinePerCall
  BY DEF Init, OneLinePerCall
<1>2. TypeOK /\ SweepInLedger /\ OneLinePerCall /\ Len(ledger) <= Window /\ [Next]_vars
        => OneLinePerCall'
  BY OneLineStep
<1> QED
  BY <1>1, <1>2, TypesAndSweep, PTL DEF Spec

-----------------------------------------------------------------------------
(* Without the daemon every marker has the source its own path gives it.   *)
OwnMarkers ==
  /\ sweep = AtRest
  /\ \A r \in Runs : \A m \in markers[r] : m = MarkerOf(m.line)

LEMMA OwnMarkersStep ==
  ASSUME "daemon" \notin Operators, TypeOK, OwnMarkers, [Next]_vars
  PROVE  OwnMarkers'
<1> USE DEF records
<1>1. ASSUME NEW w \in Workers, Commit(w) PROVE OwnMarkers'
  <2>1. MarkerOf(job[w].line) = MarkerOf(MarkerOf(job[w].line).line)
    BY DEF MarkerOf
  <2> QED
    BY <1>1, <2>1 DEF Commit, OwnMarkers, TypeOK
<1>2. ASSUME NEW w \in Workers, Work(w), ~Commit(w) PROVE OwnMarkers'
  <2>1. UNCHANGED <<markers, sweep>>
    BY <1>2 DEF Work, Reserve, Invoke, Reply, NoReply, RecordSpend, RejectSpend, SkipCommit,
                ExhaustBudget, Emit, Finish, Crash
  <2> QED
    BY <2>1 DEF OwnMarkers
<1>3. ASSUME Scan PROVE FALSE
  BY <1>3 DEF OwnMarkers, Scan, ScanBegin, ScanLine, FixRecord, FixCommit, FixFails,
              ScanEnd, SaveCursor, ScanCrash, AtRest
<1>4. ASSUME Compact PROVE OwnMarkers'
  BY <1>4 DEF OwnMarkers, Compact, LoadMarkers, AppendArchive, ClearMarkers,
              CompactionCrash, TypeOK
<1>5. CASE UNCHANGED vars
  BY <1>5 DEF vars, OwnMarkers
<1> QED
  BY <1>1, <1>2, <1>3, <1>4, <1>5 DEF Next

(* Where the daemon is not run, a call has one marker in its run record:   *)
(* its budget is drained along one path, once.                             *)
THEOREM CallsHaveOneMarker ==
  ASSUME "daemon" \notin Operators
  PROVE  Spec /\ [](Len(ledger) <= Window) => []OneMarkerPerCall
<1>1. Init => OwnMarkers
  BY DEF Init, OwnMarkers
<1>2. TypeOK /\ OwnMarkers /\ [Next]_vars => OwnMarkers'
  BY OwnMarkersStep
<1>3. OwnMarkers /\ FirstInv /\ OneLinePerCall => OneMarkerPerCall
  <2> SUFFICES ASSUME OwnMarkers, FirstInv, OneLinePerCall,
                      NEW r \in Runs, NEW m \in markers[r], NEW n \in markers[r],
                      m.line.call = n.line.call
               PROVE  m = n
    BY DEF OneMarkerPerCall
  <2>1. PICK i \in 1..Len(ledger), j \in 1..Len(ledger) : ledger[i] = m.line /\ ledger[j] = n.line
    BY DEF FirstInv, MarkersBacked, Lines
  <2>2. i = j
    BY <2>1 DEF OneLinePerCall
  <2> QED
    BY <2>1, <2>2 DEF OwnMarkers
<1> QED
  BY <1>1, <1>2, <1>3, FirstInvariant, CallsHaveOneLine, TypesAndSweep, PTL DEF Spec

-----------------------------------------------------------------------------
(* Where neither the daemon nor the compactor is run, a call is settled    *)
(* when its marker is there, and the evidence follows the marker.          *)
Settled(c) == \E r \in Runs : \E m \in markers[r] : m.line.call = c

Undisturbed == OwnMarkers /\ compaction = AtRest

EvidenceInv ==
  /\ \A c \in Calls : emitted[c] <= 1 /\ (emitted[c] # 0 => Settled(c))
  /\ \A w \in Workers, c \in Calls :
       job[w].at = "emit" /\ job[w].call = c => Settled(c) /\ emitted[c] = 0
  /\ \A v, w \in Workers :
       job[v].at = "emit" /\ job[w].at = "emit" /\ job[v].call = job[w].call => v = w

(* What is spent covers the estimate of every governed call that was       *)
(* reserved for and is not settled: so no settlement drives it below zero. *)
Pending(r) ==
  {c \in Calls : /\ RunOf[c] = r /\ PathOf[c] = "governed_call"
                 /\ tries[c] # 0 /\ ~Settled(c)}

Covered ==
  /\ \A w \in Workers : job[w] # NoJob => tries[job[w].call] # 0
  /\ \A r \in Runs : /\ IsFiniteSet(Pending(r))
                     /\ spent[r] >= Estimate * Cardinality(Pending(r))

LEMMA UndisturbedStep ==
  ASSUME "daemon" \notin Operators, "compactor" \notin Operators,
         TypeOK, Undisturbed, [Next]_vars
  PROVE  Undisturbed'
<1>1. OwnMarkers'
  BY OwnMarkersStep DEF Undisturbed
<1>2. compaction' = AtRest
  <2>1. ASSUME NEW w \in Workers, Work(w) PROVE UNCHANGED compaction
    BY <2>1 DEF Work, Reserve, Invoke, Reply, NoReply, RecordSpend, RejectSpend, Commit,
                SkipCommit, ExhaustBudget, Emit, Finish, Crash
  <2>2. ASSUME Scan PROVE UNCHANGED compaction
    BY <2>2 DEF Scan, ScanBegin, ScanLine, FixRecord, FixCommit, FixFails, ScanEnd, SaveCursor,
                ScanCrash, others
  <2>3. ~Compact
    BY DEF Undisturbed, Compact, LoadMarkers, AppendArchive, ClearMarkers, CompactionCrash, AtRest
  <2>4. UNCHANGED vars => UNCHANGED compaction
    BY DEF vars
  <2> QED
    BY <2>1, <2>2, <2>3, <2>4 DEF Undisturbed, Next
<1> QED
  BY <1>1, <1>2 DEF Undisturbed

(* Then only the workers work.                                             *)
LEMMA OnlyWorkers ==
  ASSUME "daemon" \notin Operators, "compactor" \notin Operators, Undisturbed, Next
  PROVE  \E w \in Workers : Work(w)
<1>1. ~Scan
  BY DEF Undisturbed, OwnMarkers, Scan, ScanBegin, ScanLine, FixRecord, FixCommit, FixFails,
         ScanEnd, SaveCursor, ScanCrash, AtRest
<1>2. ~Compact
  BY DEF Undisturbed, Compact, LoadMarkers, AppendArchive, ClearMarkers, CompactionCrash, AtRest
<1> QED
  BY <1>1, <1>2 DEF Next

(* What a worker's step does, but for its commit and its evidence.         *)
LEMMA OtherSteps ==
  ASSUME TypeOK, NEW w \in Workers, Work(w), ~Commit(w), ~Emit(w)
  PROVE  /\ UNCHANGED <<markers, emitted>>
         /\ \A v \in Workers : job'[v].at = "emit" => job'[v] = job[v]
<1>j. job \in [Workers -> Job]
  BY DEF TypeOK
<1>1. UNCHANGED <<markers, emitted>>
  BY DEF Work, Reserve, Invoke, Reply, NoReply, RecordSpend, RejectSpend, SkipCommit,
         ExhaustBudget, Finish, Crash, records
<1>2. \A v \in Workers : v # w => job'[v] = job[v]
  BY <1>j DEF Work, Reserve, Invoke, Reply, NoReply, RecordSpend, RejectSpend, SkipCommit,
              ExhaustBudget, Finish, Crash
<1>3. ASSUME NEW at \in {"commit", "finish"}, job' = [job EXCEPT ![w].at = at], job[w] # NoJob
      PROVE  job'[w].at # "emit"
  BY <1>j, <1>3 DEF Job, WithEvent
<1>4. job'[w].at # "emit"
  <2>1. CASE job' = [job EXCEPT ![w] = NoJob]
    BY <1>j, <2>1 DEF NoJob
  <2>2. ASSUME NEW c \in Calls, Reserve(w, c) \/ Invoke(w, c) PROVE job'[w].at # "emit"
    BY <1>j, <2>2 DEF Reserve, Invoke
  <2>3. ASSUME NEW cost \in Costs \cup {0}, NEW missing \in BOOLEAN, Reply(w, cost, missing)
        PROVE  job'[w].at # "emit"
    <3>1. job[w].at = "called" /\ job[w] \in Job
      BY <2>3 DEF Reply, TypeOK
    <3>2. job'[w] = [job[w] EXCEPT !.at = "record",
                       !.line = [call |-> job[w].call, cost |-> cost, missing |-> missing]]
      BY <1>j, <2>3 DEF Reply
    <3> QED
      BY <3>1, <3>2 DEF Job, NoJob, WithEvent
  <2>4. ASSUME NoReply(w) \/ RecordSpend(w) \/ SkipCommit(w) PROVE job'[w].at # "emit"
    BY <1>3, <2>4 DEF NoReply, RecordSpend, SkipCommit, NoJob
  <2> QED
    BY <2>1, <2>2, <2>3, <2>4 DEF Work, RejectSpend, ExhaustBudget, Finish, Crash
<1> QED
  BY <1>1, <1>2, <1>4

(* A commit settles a call that was not settled: another line or another   *)
(* marker of it there cannot be.                                           *)
LEMMA CommitSettles ==
  ASSUME TypeOK, FirstInv, OneLinePerCall, OwnMarkers, NEW w \in Workers, Commit(w)
  PROVE  /\ job[w] \in WithEvent /\ job[w].line.call = job[w].call /\ ~Settled(job[w].call)
         /\ job' = [job EXCEPT ![w] = [job[w] EXCEPT !.at = "emit"]]
         /\ \A c \in Calls : Settled(c)' <=> Settled(c) \/ c = job[w].call
<1> DEFINE line == job[w].line
           c == job[w].call
<1>1. /\ job[w] \in WithEvent /\ line.call = c /\ line \in Lines
      /\ job' = [job EXCEPT ![w] = [job[w] EXCEPT !.at = "emit"]]
      /\ MarkerOf(line) \notin markers[RunOf[c]]
      /\ markers' = [markers EXCEPT ![RunOf[c]] = @ \cup {MarkerOf(line)}]
  <2>1. job[w].at = "commit" /\ job[w] \in Job /\ job \in [Workers -> Job]
    BY DEF Commit, TypeOK
  <2>2. job[w] \in WithEvent
    BY <2>1 DEF Job, NoJob, WithEvent
  <2>3. line.call = c /\ line \in Lines
    BY <2>1 DEF FirstInv, EventsOfCalls, EventsInLedger
  <2>4. job' = [job EXCEPT ![w] = [job[w] EXCEPT !.at = "emit"]]
    BY <2>1 DEF Commit
  <2> QED
    BY <2>2, <2>3, <2>4 DEF Commit
<1>2. RunOf[c] \in Runs /\ MarkerOf(line).line = line
  BY <1>1, SpendAssumption DEF WithEvent, MarkerOf
<1> HIDE DEF line, c
<1>3. ~Settled(c)
  <2> SUFFICES ASSUME NEW r \in Runs, NEW m \in markers[r], m.line.call = c PROVE FALSE
    BY DEF Settled
  <2>1. m.line \in Lines /\ RunOf[c] = r /\ m = MarkerOf(m.line)
    BY DEF FirstInv, MarkersBacked, OwnMarkers
  <2>2. m.line = line
    BY <1>1, <2>1 DEF Lines, OneLinePerCall
  <2> QED
    BY <1>1, <2>1, <2>2
<1>4. \A d \in Calls : Settled(d)' <=> Settled(d) \/ d = c
  BY <1>1, <1>2 DEF Settled, TypeOK
<1> QED
  BY <1>1, <1>3, <1>4 DEF line, c

LEMMA EvidenceStep ==
  ASSUME "daemon" \notin Operators, "compactor" \notin Operators, TypeOK, FirstInv, OneLinePerCall,
         Undisturbed, EvidenceInv, [Next]_vars
  PROVE  EvidenceInv'
<1>t. job \in [Workers -> Job] /\ emitted \in [Calls -> Nat]
  BY DEF TypeOK
<1>1. ASSUME NEW w \in Workers, Commit(w) PROVE EvidenceInv'
  <2>1. /\ job[w] \in WithEvent /\ ~Settled(job[w].call)
        /\ job' = [job EXCEPT ![w] = [job[w] EXCEPT !.at = "emit"]]
        /\ \A c \in Calls : Settled(c)' <=> Settled(c) \/ c = job[w].call
    BY <1>1, CommitSettles DEF Undisturbed
  <2>2. /\ job'[w].at = "emit" /\ job'[w].call = job[w].call
        /\ \A v \in Workers : v # w => job'[v] = job[v]
    BY <1>t, <2>1 DEF WithEvent
  <2>3. job[w].call \in Calls
    BY <2>1 DEF WithEvent
  <2>4. emitted' = emitted
    BY <1>1 DEF Commit
  <2>5. emitted[job[w].call] = 0
    BY <2>1, <2>3 DEF EvidenceInv
  <2>6. \A c \in Calls : emitted'[c] <= 1 /\ (emitted'[c] # 0 => Settled(c)')
    BY <2>1, <2>4 DEF EvidenceInv
  <2>7. \A v \in Workers, c \in Calls :
          job'[v].at = "emit" /\ job'[v].call = c => Settled(c)' /\ emitted'[c] = 0
    BY <2>1, <2>2, <2>4, <2>5 DEF EvidenceInv
  <2>8. \A v, u \in Workers :
          job'[v].at = "emit" /\ job'[u].at = "emit" /\ job'[v].call = job'[u].call => v = u
    BY <2>1, <2>2, <2>3 DEF EvidenceInv
  <2> QED
    BY <2>6, <2>7, <2>8 DEF EvidenceInv
<1>2. ASSUME NEW w \in Workers, Emit(w) PROVE EvidenceInv'
  <2>1. /\ job[w] \in WithEvent /\ job[w].at = "emit" /\ markers' = markers
        /\ emitted' = [emitted EXCEPT ![job[w].call] = @ + 1]
        /\ job' = [job EXCEPT ![w].at = "finish"]
    BY <1>2, <1>t DEF Emit, records, Job, NoJob, WithEvent
  <2>2. job'[w].at = "finish" /\ \A v \in Workers : v # w => job'[v] = job[v]
    BY <1>t, <2>1 DEF WithEvent
  <2>3. emitted[job[w].call] = 0 /\ Settled(job[w].call) /\ job[w].call \in Calls
    BY <2>1 DEF EvidenceInv, WithEvent
  <2>4. \A c : Settled(c)' <=> Settled(c)
    BY <2>1 DEF Settled
  <2>5. emitted'[job[w].call] = 1 /\ \A c \in Calls : c # job[w].call => emitted'[c] = emitted[c]
    BY <1>t, <2>1, <2>3
  <2>6. \A v \in Workers : job'[v].at = "emit" => job'[v] = job[v] /\ job[v].call # job[w].call
    BY <2>1, <2>2 DEF EvidenceInv
  <2>7. \A c \in Calls : emitted'[c] <= 1 /\ (emitted'[c] # 0 => Settled(c)')
    BY <2>3, <2>4, <2>5 DEF EvidenceInv
  <2>8. \A v \in Workers, c \in Calls :
          job'[v].at = "emit" /\ job'[v].call = c => Settled(c)' /\ emitted'[c] = 0
    BY <2>4, <2>5, <2>6 DEF EvidenceInv
  <2>9. \A v, u \in Workers :
           job'[v].at = "emit" /\ job'[u].at = "emit" /\ job'[v].call = job'[u].call => v = u
    BY <2>6 DEF EvidenceInv
  <2> QED
    BY <2>7, <2>8, <2>9 DEF EvidenceInv
<1>3. ASSUME UNCHANGED <<markers, emitted>>,
             \A v \in Workers : job'[v].at = "emit" => job'[v] = job[v]
      PROVE  EvidenceInv'
  <2>1. \A c : Settled(c)' <=> Settled(c)
    BY <1>3 DEF Settled
  <2> QED
    BY <1>3, <2>1 DEF EvidenceInv
<1>4. CASE UNCHANGED vars
  BY <1>3, <1>4 DEF vars, records
<1> QED
  BY <1>1, <1>2, <1>3, <1>4, OnlyWorkers, OtherSteps

(* Where neither the daemon nor the compactor is run, a call leaves one    *)
(* spend event in the evidence, whichever of the processes that make it    *)
(* commits it, and wherever they die.                                      *)
THEOREM EvidenceIsEmittedOnce ==
  ASSUME "daemon" \notin Operators, "compactor" \notin Operators
  PROVE  Spec /\ [](Len(ledger) <= Window) => []EvidenceOnce
<1>1. Init => Undisturbed /\ EvidenceInv
  BY DEF Init, Undisturbed, OwnMarkers, EvidenceInv, NoJob
<1>2. TypeOK /\ Undisturbed /\ [Next]_vars => Undisturbed'
  BY UndisturbedStep
<1>3. TypeOK /\ FirstInv /\ OneLinePerCall /\ Undisturbed /\ EvidenceInv /\ [Next]_vars => EvidenceInv'
  BY EvidenceStep
<1>4. EvidenceInv => EvidenceOnce
  BY DEF EvidenceInv, EvidenceOnce
<1> QED
  BY <1>1, <1>2, <1>3, <1>4, FirstInvariant, CallsHaveOneLine, TypesAndSweep, PTL DEF Spec

-----------------------------------------------------------------------------
(* The budget                                                              *)

LEMMA Products ==
  ASSUME NEW e \in Nat, NEW m \in Nat, NEW n \in Nat
  PROVE  /\ e * n \in Nat /\ e * (n + 1) = e * n + e
         /\ m <= n => e * m <= e * n
  OBVIOUS

(* One more call to cover takes one more estimate at most; one fewer gives *)
(* one back.                                                               *)
LEMMA CoverMore ==
  ASSUME NEW S, NEW T, NEW c, IsFiniteSet(S), T \subseteq S \cup {c}
  PROVE  IsFiniteSet(T) /\ Estimate * Cardinality(T) <= Estimate * Cardinality(S) + Estimate
<1>1. /\ IsFiniteSet(S \cup {c}) /\ Cardinality(S) \in Nat
      /\ Cardinality(S \cup {c}) \in {Cardinality(S), Cardinality(S) + 1}
  BY FS_AddElement, FS_CardinalityType
<1>2. IsFiniteSet(T) /\ Cardinality(T) \in Nat /\ Cardinality(T) <= Cardinality(S) + 1
  BY <1>1, FS_Subset, FS_CardinalityType
<1>3. Estimate * Cardinality(T) <= Estimate * (Cardinality(S) + 1)
  BY <1>1, <1>2, Products, SpendAssumption
<1> QED
  BY <1>1, <1>2, <1>3, Products, SpendAssumption

LEMMA CoverFewer ==
  ASSUME NEW S, NEW c \in S, IsFiniteSet(S)
  PROVE  /\ IsFiniteSet(S \ {c})
         /\ Estimate * Cardinality(S \ {c}) \in Nat
         /\ Estimate * Cardinality(S \ {c}) + Estimate = Estimate * Cardinality(S)
<1>1. /\ IsFiniteSet(S \ {c}) /\ Cardinality(S \ {c}) \in Nat
      /\ Cardinality(S) = Cardinality(S \ {c}) + 1
  <2>1. IsFiniteSet(S \ {c}) /\ Cardinality(S \ {c}) = Cardinality(S) - 1
    BY FS_RemoveElement
  <2>2. Cardinality(S) \in Nat /\ Cardinality(S \ {c}) \in Nat
    BY <2>1, FS_CardinalityType
  <2> QED
    BY <2>1, <2>2
<1> QED
  BY <1>1, Products, SpendAssumption

LEMMA CoverSame ==
  ASSUME NEW S, IsFiniteSet(S)
  PROVE  Estimate * Cardinality(S) \in Nat
  BY FS_CardinalityType, Products, SpendAssumption

LEMMA CoveredStep ==
  ASSUME Managed, "daemon" \notin Operators, "compactor" \notin Operators, TypeOK, FirstInv,
         OneLinePerCall, Undisturbed, Covered, [Next]_vars
  PROVE  Covered'
<1>t. /\ job \in [Workers -> Job] /\ spent \in [Runs -> Int]
      /\ tries \in [Calls -> 0..MaxTries] /\ RunOf \in [Calls -> Runs]
  BY SpendAssumption DEF TypeOK
<1>c. \A r \in Runs :
        /\ IsFiniteSet(Pending(r)) /\ Estimate * Cardinality(Pending(r)) \in Nat
        /\ spent[r] >= Estimate * Cardinality(Pending(r)) /\ spent[r] \in Int
  BY <1>t, CoverSame DEF Covered
<1>1. ASSUME NEW w \in Workers, NEW c \in Calls, Reserve(w, c) PROVE Covered'
  <2>1. /\ spent' = [spent EXCEPT ![RunOf[c]] = @ + Estimate]
        /\ tries' = [tries EXCEPT ![c] = @ + 1] /\ markers' = markers
        /\ job' = [job EXCEPT ![w] = [at |-> "called", call |-> c, line |-> NoLine, base |-> 0]]
    BY <1>1 DEF Reserve
  <2>2. \A d : Settled(d)' <=> Settled(d)
    BY <2>1 DEF Settled
  <2>3. \A v \in Workers : job'[v] # NoJob => tries'[job'[v].call] # 0
    <3>1. tries'[c] # 0 /\ \A d \in Calls : tries[d] # 0 => tries'[d] # 0
      BY <1>t, <2>1, SpendAssumption
    <3>2. \A v \in Workers : job[v] # NoJob => job[v].call \in Calls
      BY <1>t DEF Job, WithEvent
    <3>3. \A v \in Workers : job'[v] = job[v] \/ job'[v].call = c
      BY <1>t, <2>1
    <3> QED
      BY <3>1, <3>2, <3>3 DEF Covered
  <2>4. ASSUME NEW r \in Runs
        PROVE  IsFiniteSet(Pending(r)') /\ spent'[r] >= Estimate * Cardinality(Pending(r)')
    <3>1. CASE r = RunOf[c]
      <4>1. Pending(r)' \subseteq Pending(r) \cup {c}
        BY <1>t, <2>1, <2>2 DEF Pending
      <4>2. /\ IsFiniteSet(Pending(r)')
            /\ Estimate * Cardinality(Pending(r)') <= Estimate * Cardinality(Pending(r)) + Estimate
        BY <1>c, <4>1, CoverMore
      <4>3. Estimate * Cardinality(Pending(r)') \in Nat
        BY <4>2, CoverSame
      <4> QED
        BY <1>t, <1>c, <2>1, <3>1, <4>2, <4>3, SpendAssumption
    <3>2. CASE r # RunOf[c]
      <4>1. Pending(r)' = Pending(r) /\ spent'[r] = spent[r]
        BY <1>t, <2>1, <2>2, <3>2 DEF Pending
      <4> QED
        BY <1>c, <4>1
    <3> QED
      BY <3>1, <3>2
  <2> QED
    BY <2>3, <2>4 DEF Covered
<1>2. ASSUME NEW w \in Workers, NEW c \in Calls, Invoke(w, c) PROVE Covered'
  <2>1. /\ PathOf[c] # "governed_call"
        /\ tries' = [tries EXCEPT ![c] = @ + 1] /\ UNCHANGED <<markers, spent>>
        /\ \E b : job' = [job EXCEPT ![w] = [at |-> "called", call |-> c, line |-> NoLine, base |-> b]]
    BY <1>2 DEF Invoke, records
  <2>2. \A r : Pending(r)' = Pending(r)
    BY <1>t, <2>1 DEF Pending, Settled
  <2>3. \A v \in Workers : job'[v] # NoJob => tries'[job'[v].call] # 0
    <3>1. tries'[c] # 0 /\ \A d \in Calls : tries[d] # 0 => tries'[d] # 0
      BY <1>t, <2>1, SpendAssumption
    <3>2. \A v \in Workers : job[v] # NoJob => job[v].call \in Calls
      BY <1>t DEF Job, WithEvent
    <3>3. \A v \in Workers : job'[v] = job[v] \/ job'[v].call = c
      BY <1>t, <2>1
    <3> QED
      BY <3>1, <3>2, <3>3 DEF Covered
  <2> QED
    BY <1>c, <2>1, <2>2, <2>3 DEF Covered
<1>3. ASSUME NEW w \in Workers, Commit(w) PROVE Covered'
  <2> DEFINE c == job[w].call
             line == job[w].line
  <2>1. /\ job[w] \in WithEvent /\ line.call = c /\ ~Settled(c)
        /\ job' = [job EXCEPT ![w] = [job[w] EXCEPT !.at = "emit"]]
        /\ \A d \in Calls : Settled(d)' <=> Settled(d) \/ d = c
    BY <1>3, CommitSettles DEF Undisturbed
  <2>2. /\ c \in Calls /\ line \in Line /\ tries[c] # 0
        /\ tries' = tries /\ spent' = [spent EXCEPT ![RunOf[c]] = @ + Drain(line)]
    BY <1>3, <2>1 DEF Commit, WithEvent, Covered, NoJob
  <2>3. \A v \in Workers : job'[v] # NoJob => tries'[job'[v].call] # 0
    <3>1. job'[w].call = c /\ \A v \in Workers : v # w => job'[v] = job[v]
      BY <1>t, <2>1 DEF WithEvent
    <3> QED
      BY <2>2, <3>1 DEF Covered
  <2>d. line.cost \in Nat /\ Drain(line) \in Int
    BY <2>2, CostsAreNaturals
  <2> HIDE DEF c, line
  <2>4. ASSUME NEW r \in Runs
        PROVE  IsFiniteSet(Pending(r)') /\ spent'[r] >= Estimate * Cardinality(Pending(r)')
    <3>1. CASE r = RunOf[c] /\ PathOf[c] = "governed_call"
      <4>1. c \in Pending(r) /\ Pending(r)' = Pending(r) \ {c}
        BY <2>1, <2>2, <3>1 DEF Pending
      <4>2. /\ IsFiniteSet(Pending(r)') /\ Estimate * Cardinality(Pending(r)') \in Nat
            /\ Estimate * Cardinality(Pending(r)') + Estimate = Estimate * Cardinality(Pending(r))
        BY <1>c, <4>1, CoverFewer
      <4>3. Drain(line) + Estimate >= 0
        <5>1. Drain(line) = 0 \/ Drain(line) = line.cost - Estimate
          BY <2>1, <3>1, Zenon DEF Drain
        <5> QED
          BY <2>d, <5>1, SpendAssumption
      <4>4. spent'[r] = spent[r] + Drain(line)
        BY <1>t, <2>2, <3>1
      <4> QED
        BY <1>c, <2>d, <4>2, <4>3, <4>4, SpendAssumption
    <3>2. CASE r = RunOf[c] /\ PathOf[c] # "governed_call"
      <4>1. Pending(r)' = Pending(r)
        BY <2>1, <2>2, <3>2 DEF Pending
      <4>2. Drain(line) = 0 \/ Drain(line) = line.cost
        BY <2>1, <3>2, Zenon DEF Drain
      <4>3. spent'[r] = spent[r] + Drain(line)
        BY <1>t, <2>2, <3>2
      <4>4. spent'[r] >= spent[r]
        BY <1>c, <2>d, <4>2, <4>3
      <4> QED
        BY <1>c, <2>d, <4>1, <4>3, <4>4
    <3>3. CASE r # RunOf[c]
      <4>1. Pending(r)' = Pending(r) /\ spent'[r] = spent[r]
        BY <1>t, <2>1, <2>2, <3>3 DEF Pending
      <4> QED
        BY <1>c, <4>1
    <3> QED
      BY <3>1, <3>2, <3>3
  <2> QED
    BY <2>3, <2>4 DEF Covered
<1>4. ASSUME UNCHANGED <<spent, markers, tries>>,
             \A v \in Workers : job'[v] # NoJob => job[v] # NoJob /\ job'[v].call = job[v].call
      PROVE  Covered'
  <2>1. \A r : Pending(r)' = Pending(r)
    BY <1>4 DEF Pending, Settled
  <2> QED
    BY <1>c, <1>4, <2>1 DEF Covered
<1>5. ASSUME NEW w \in Workers, Work(w), ~Commit(w), \A c \in Calls : ~Reserve(w, c) /\ ~Invoke(w, c)
      PROVE  Covered'
  <2>1. UNCHANGED <<spent, markers, tries>>
    BY <1>5 DEF Work, Reply, NoReply, RecordSpend, RejectSpend, SkipCommit, ExhaustBudget, Emit,
                Finish, Crash, records
  <2>2. \A v \in Workers : v # w => job'[v] = job[v]
    BY <1>t, <1>5 DEF Work, Reply, NoReply, RecordSpend, RejectSpend, SkipCommit, ExhaustBudget,
                      Emit, Finish, Crash
  <2>3. job'[w] # NoJob => job[w] # NoJob /\ job'[w].call = job[w].call
    <3>1. CASE job' = [job EXCEPT ![w] = NoJob]
      BY <1>t, <3>1
    <3>2. ASSUME NEW cost \in Costs \cup {0}, NEW missing \in BOOLEAN, Reply(w, cost, missing)
          PROVE  job[w] # NoJob /\ job'[w].call = job[w].call
      <4>1. job[w].at = "called" /\ job[w] \in Job
        BY <3>2 DEF Reply, TypeOK
      <4>2. job'[w] = [job[w] EXCEPT !.at = "record",
                         !.line = [call |-> job[w].call, cost |-> cost, missing |-> missing]]
        BY <1>t, <3>2 DEF Reply
      <4> QED
        BY <4>1, <4>2 DEF Job, NoJob, WithEvent
    <3>3. ASSUME NoReply(w) \/ RecordSpend(w) \/ SkipCommit(w) \/ Emit(w)
          PROVE  job[w] # NoJob /\ job'[w].call = job[w].call
      <4>1. job[w] # NoJob /\ job[w] \in Job /\ \E at : job' = [job EXCEPT ![w].at = at]
        BY <1>t, <3>3 DEF NoReply, RecordSpend, SkipCommit, Emit, NoJob
      <4> QED
        BY <1>t, <4>1 DEF Job, WithEvent
    <3> QED
      BY <1>5, <3>1, <3>2, <3>3 DEF Work, RejectSpend, ExhaustBudget, Finish, Crash
  <2> QED
    BY <1>4, <2>1, <2>2, <2>3
<1>6. CASE UNCHANGED vars
  BY <1>4, <1>6 DEF vars, records
<1> QED
  BY <1>1, <1>2, <1>3, <1>5, <1>6, OnlyWorkers

LEMMA CoveredInvariant ==
  ASSUME Managed, "daemon" \notin Operators, "compactor" \notin Operators
  PROVE  Spec /\ [](Len(ledger) <= Window) => []Covered
<1>1. Init => Covered /\ Undisturbed
  <2> SUFFICES ASSUME Init PROVE Covered /\ Undisturbed
    OBVIOUS
  <2>1. \A r \in Runs : Pending(r) = {} /\ spent[r] = 0
    BY DEF Init, Pending
  <2>2. IsFiniteSet({}) /\ Estimate * Cardinality({}) = 0
    BY FS_EmptySet, SpendAssumption
  <2>3. \A r \in Runs : IsFiniteSet(Pending(r)) /\ spent[r] >= Estimate * Cardinality(Pending(r))
    <3> SUFFICES ASSUME NEW r \in Runs
                 PROVE  IsFiniteSet(Pending(r)) /\ spent[r] >= Estimate * Cardinality(Pending(r))
      OBVIOUS
    <3>1. Estimate * Cardinality(Pending(r)) = 0
      BY <2>1, <2>2
    <3> QED
      BY <2>1, <2>2, <3>1
  <2>4. \A w \in Workers : job[w] = NoJob
    BY DEF Init
  <2> QED
    BY <2>3, <2>4 DEF Init, Covered, Undisturbed, OwnMarkers
<1>2. TypeOK /\ Undisturbed /\ [Next]_vars => Undisturbed'
  BY UndisturbedStep
<1>3. TypeOK /\ FirstInv /\ OneLinePerCall /\ Undisturbed /\ Covered /\ [Next]_vars => Covered'
  BY CoveredStep
<1> QED
  BY <1>1, <1>2, <1>3, FirstInvariant, CallsHaveOneLine, TypesAndSweep, PTL DEF Spec

-----------------------------------------------------------------------------
(* The protocol implements the account                                     *)

(* What the markers settle, as the account sees it.                        *)
SettledBy(r) == {[call |-> m.line.call, amount |-> Drain(m.line)] : m \in markers[r]}
Settlements == UNION {SettledBy(r) : r \in Runs}

LEMMA AccountInit == Init => Account!Init
  BY DEF Init, Account!Init

LEMMA AccountReserves ==
  ASSUME NEW r \in Runs, Account!InBudget(spent[r] + Estimate),
         spent' = [spent EXCEPT ![r] = @ + Estimate], UNCHANGED Settlements
  PROVE  Account!Next
<1>1. Account!Reserve(r)
  BY DEF Account!Reserve, Settlements, SettledBy
<1> QED
  BY <1>1 DEF Account!Next

LEMMA AccountSettles ==
  ASSUME NEW c \in Calls, NEW amount \in (-Estimate)..Limit,
         \A s \in Settlements : s.call # c, Account!InBudget(spent[RunOf[c]] + amount),
         spent' = [spent EXCEPT ![RunOf[c]] = @ + amount],
         Settlements' = Settlements \cup {[call |-> c, amount |-> amount]}
  PROVE  Account!Next
<1>1. Account!Settle(c, amount)
  BY DEF Account!Settle, Settlements, SettledBy
<1> QED
  BY <1>1 DEF Account!Next

LEMMA AccountStep ==
  ASSUME Managed, "daemon" \notin Operators, "compactor" \notin Operators, TypeOK, FirstInv,
         OneLinePerCall, Undisturbed, Covered, TypeOK', Covered', [Next]_vars
  PROVE  Account!Next \/ UNCHANGED <<spent, Settlements>>
<1>t. /\ job \in [Workers -> Job] /\ spent \in [Runs -> Int] /\ spent' \in [Runs -> Int]
      /\ markers \in [Runs -> SUBSET Marker] /\ RunOf \in [Calls -> Runs]
  BY SpendAssumption DEF TypeOK
<1>n. \A r \in Runs : spent[r] \in Nat /\ spent'[r] >= 0
  <2> TAKE r \in Runs
  <2>1. Estimate * Cardinality(Pending(r)) \in Nat /\ Estimate * Cardinality(Pending(r)') \in Nat
    BY CoverSame DEF Covered
  <2> QED
    BY <1>t, <2>1 DEF Covered
<1>1. ASSUME NEW w \in Workers, NEW c \in Calls, Reserve(w, c) PROVE Account!Next
  <2>1. /\ Limit - spent[RunOf[c]] >= Estimate
        /\ spent' = [spent EXCEPT ![RunOf[c]] = @ + Estimate]
        /\ markers' = markers
    BY <1>1 DEF Reserve
  <2>2. Account!InBudget(spent[RunOf[c]] + Estimate)
    BY <1>t, <1>n, <2>1, SpendAssumption DEF Account!InBudget
  <2> QED
    BY <1>t, <2>1, <2>2, AccountReserves DEF Settlements, SettledBy
<1>2. ASSUME NEW w \in Workers, Commit(w) PROVE Account!Next
  <2> DEFINE c == job[w].call
             line == job[w].line
  <2>1. job[w] \in WithEvent /\ line.call = c /\ ~Settled(c)
    BY <1>2, CommitSettles DEF Undisturbed
  <2>2. /\ c \in Calls /\ line \in Line /\ spent[RunOf[c]] + Drain(line) <= Limit
        /\ spent' = [spent EXCEPT ![RunOf[c]] = @ + Drain(line)]
        /\ markers' = [markers EXCEPT ![RunOf[c]] = @ \cup {MarkerOf(line)}]
    BY <1>2, <2>1 DEF Commit, WithEvent
  <2>3. line.cost \in Nat /\ Drain(line) \in Int
    BY <2>2, CostsAreNaturals
  <2>4. MarkerOf(line).line = line
    BY DEF MarkerOf
  <2> HIDE DEF c, line
  <2>5. Drain(line) \in (-Estimate)..Limit
    <3>1. Drain(line) = 0 \/ Drain(line) = line.cost - Estimate \/ Drain(line) = line.cost
      BY Zenon DEF Drain
    <3> QED
      BY <1>t, <1>n, <2>2, <2>3, <3>1, SpendAssumption
  <2>6. Account!InBudget(spent[RunOf[c]] + Drain(line))
    <3>1. spent'[RunOf[c]] = spent[RunOf[c]] + Drain(line) /\ spent'[RunOf[c]] >= 0
      BY <1>t, <1>n, <2>2
    <3> QED
      BY <2>2, <3>1 DEF Account!InBudget
  <2>7. \A s \in Settlements : s.call # c
    BY <2>1 DEF Settled, Settlements, SettledBy
  <2>8. Settlements' = Settlements \cup {[call |-> c, amount |-> Drain(line)]}
    <3>1. \A r \in Runs :
            SettledBy(r)' = IF r = RunOf[c]
                            THEN SettledBy(r) \cup {[call |-> c, amount |-> Drain(line)]}
                            ELSE SettledBy(r)
      BY <1>t, <2>1, <2>2, <2>4 DEF SettledBy
    <3> QED
      BY <1>t, <2>2, <3>1 DEF Settlements
  <2> QED
    BY <2>2, <2>5, <2>6, <2>7, <2>8, AccountSettles
<1>3. ASSUME UNCHANGED <<spent, markers>> PROVE UNCHANGED <<spent, Settlements>>
  BY <1>3 DEF Settlements, SettledBy
<1>4. ASSUME NEW w \in Workers, Work(w), ~Commit(w), \A c \in Calls : ~Reserve(w, c)
      PROVE  UNCHANGED <<spent, markers>>
  BY <1>4 DEF Work, Invoke, Reply, NoReply, RecordSpend, RejectSpend, SkipCommit, ExhaustBudget,
              Emit, Finish, Crash, records
<1>5. CASE UNCHANGED vars
  BY <1>3, <1>5 DEF vars, records
<1> QED
  BY <1>1, <1>2, <1>3, <1>4, <1>5, OnlyWorkers

(* Where neither the daemon nor the compactor is run and the driver writes *)
(* the run records, the calls reserve and settle as the account promises:  *)
(* each is settled once, with one amount, and no budget leaves its bounds. *)
THEOREM SpendIsAccount ==
  ASSUME Managed, "daemon" \notin Operators, "compactor" \notin Operators
  PROVE  Spec /\ [](Len(ledger) <= Window) => ImplementsAccount
<1>1. Init => Account!Init /\ Undisturbed
  BY AccountInit DEF Init, Undisturbed, OwnMarkers
<1>2. TypeOK /\ Undisturbed /\ [Next]_vars => Undisturbed'
  BY UndisturbedStep
<1>3. TypeOK /\ FirstInv /\ OneLinePerCall /\ Undisturbed /\ Covered /\ TypeOK' /\ Covered' /\ [Next]_vars
        => [Account!Next]_<<spent,
             UNION {{[call |-> m.line.call, amount |-> Drain(m.line)] : m \in markers[r]}
                      : r \in Runs}>>
  BY AccountStep DEF Settlements, SettledBy
<1> QED
  BY <1>1, <1>2, <1>3, FirstInvariant, CallsHaveOneLine, CoveredInvariant, TypesAndSweep, PTL
     DEF Spec, ImplementsAccount, Account!Spec

-----------------------------------------------------------------------------
(* What markers settle, summed. *)

Amount(m) == Drain(m.line)
Drained(S) == MapThenSumSet(LAMBDA m : Drain(m.line), S)

\* The module's sum is by recursion over the subsets, one element at a time.
One(s) == CHOOSE m \in s : TRUE
Adds(g, s) == g[s] = IF s = {} THEN 0 ELSE Amount(One(s)) + g[s \ {One(s)}]
IsSum(g, S) == DOMAIN g = SUBSET S /\ g = [s \in SUBSET S |-> g[s]] /\ \A s \in SUBSET S : Adds(g, s)

LEMMA AmountsAreIntegers ==
  ASSUME NEW m \in Marker
  PROVE  Amount(m) \in Int
BY CostsAreNaturals DEF Amount, Marker

LEMMA SumOfMarkers ==
  ASSUME NEW S \in SUBSET Marker, IsFiniteSet(S)
  PROVE  \E g : IsSum(g, S) /\ Drained(S) = g[S]
<1> DEFINE c == [s \in SUBSET S |-> One(s)]
           h == [m \in S |-> [n \in Int |-> Amount(m) + n]]
           Is(g) == g = [s \in SUBSET S |-> IF s = {} THEN 0
                                            ELSE Amount(One(s)) + g[s \ {One(s)}]]
<1>1. Drained(S) = (CHOOSE g : Is(g))[S]
  BY DEF Drained, MapThenSumSet, MapThenFoldSet, Amount, One
<1>2. \A s \in SUBSET S : s # {} => c[s] = One(s) /\ One(s) \in s
  BY DEF One
<1>3. h \in [S -> [Int -> Int]]
  BY AmountsAreIntegers
<1>4. PICK g \in [SUBSET S -> Int] : IsSolution(g, S, 0, h, c)
  <2> HIDE DEF c, h
  <2>1. IsFold(S, Int, 0, h, c)
    BY <1>2, <1>3 DEF IsFold
  <2> QED
    BY <2>1, SolutionExists
<1>5. ASSUME NEW s \in SUBSET S
      PROVE  g[s] = IF s = {} THEN 0 ELSE Amount(One(s)) + g[s \ {One(s)}]
  <2>1. CASE s = {}
    BY <1>4, <2>1 DEF IsSolution
  <2>2. CASE s # {}
    <3>1. c[s] = One(s) /\ One(s) \in S /\ g[s \ {One(s)}] \in Int
      BY <1>2, <2>2
    <3>2. h[One(s)][g[s \ {One(s)}]] = Amount(One(s)) + g[s \ {One(s)}]
      BY <3>1
    <3>3. g[s] = h[c[s]][g[s \ {c[s]}]]
      BY <1>4, <2>2 DEF IsSolution
    <3> HIDE DEF c, h
    <3> QED
      BY <2>2, <3>1, <3>2, <3>3
  <2> QED
    BY <2>1, <2>2
<1>6. Is(g)
  <2> HIDE DEF c, h
  <2> QED
    BY <1>5
<1> DEFINE f == CHOOSE x : Is(x)
<1>7. Is(f)
  <2> HIDE DEF Is
  <2> QED
    BY <1>6
<1>8. IsSum(f, S)
  <2> HIDE DEF f, c, h
  <2> QED
    BY <1>7 DEF IsSum, Adds
<1> QED
  <2> HIDE DEF Is
  <2> QED
    BY <1>1, <1>8

\* Its values are integers.
LEMMA SumsAreIntegers ==
  ASSUME NEW S \in SUBSET Marker, IsFiniteSet(S), NEW g, IsSum(g, S)
  PROVE  \A s \in SUBSET S : g[s] \in Int
<1> DEFINE G == {s \in SUBSET S : g[s] \in Int}
<1>1. {} \in G
  <2>1. {} \in SUBSET S /\ Adds(g, {})
    BY DEF IsSum
  <2>2. g[{}] = 0
    BY <2>1 DEF Adds
  <2> QED
    BY <2>1, <2>2
<1>2. ASSUME NEW s \in SUBSET S, s # {}, \A m \in s : s \ {m} \in G PROVE s \in G
  <2>1. One(s) \in s /\ One(s) \in Marker
    BY <1>2 DEF One
  <2>2. g[s] = Amount(One(s)) + g[s \ {One(s)}] /\ g[s \ {One(s)}] \in Int
    BY <1>2, <2>1 DEF IsSum, Adds
  <2>3. Amount(One(s)) \in Int
    BY <2>1, AmountsAreIntegers
  <2>4. g[s] \in Int
    BY <2>2, <2>3
  <2> QED
    BY <2>4
<1>3. G \in SUBSET (SUBSET S)
  OBVIOUS
<1> HIDE DEF G
<1>4. \A s \in SUBSET S : s \in G
  BY <1>1, <1>2, <1>3, SubsetInduction
<1> QED
  BY <1>4 DEF G

\* Any element can be the one that is added last.
LEMMA AnyAddsLast ==
  ASSUME NEW S \in SUBSET Marker, IsFiniteSet(S), NEW g, IsSum(g, S)
  PROVE  \A s \in SUBSET S : \A m \in s : g[s] = Amount(m) + g[s \ {m}]
<1> DEFINE G == {s \in SUBSET S : \A m \in s : g[s] = Amount(m) + g[s \ {m}]}
<1>1. {} \in G
  OBVIOUS
<1>2. ASSUME NEW s \in SUBSET S, s # {}, \A m \in s : s \ {m} \in G PROVE s \in G
  <2> SUFFICES ASSUME NEW m \in s PROVE g[s] = Amount(m) + g[s \ {m}]
    OBVIOUS
  <2> DEFINE n == One(s)
  <2>1. n \in s /\ g[s] = Amount(n) + g[s \ {n}]
    BY <1>2 DEF One, IsSum, Adds
  <2> HIDE DEF n
  <2>2. CASE m = n
    BY <2>1, <2>2
  <2>3. CASE m # n
    <3> DEFINE t == (s \ {n}) \ {m}
    <3>1. g[s \ {n}] = Amount(m) + g[t]
      BY <1>2, <2>1, <2>3
    <3>2. t = (s \ {m}) \ {n}
      OBVIOUS
    <3>3. g[s \ {m}] = Amount(n) + g[t]
      BY <1>2, <2>1, <2>3, <3>2
    <3>4. t \in SUBSET S
      OBVIOUS
    <3>5. g[t] \in Int
      BY <3>4, SumsAreIntegers
    <3>6. Amount(m) \in Int /\ Amount(n) \in Int
      BY <2>1, AmountsAreIntegers
    <3> HIDE DEF t
    <3> QED
      BY <2>1, <3>1, <3>3, <3>5, <3>6
  <2> QED
    BY <2>2, <2>3
<1>3. G \in SUBSET (SUBSET S)
  OBVIOUS
<1> HIDE DEF G
<1>4. \A s \in SUBSET S : s \in G
  BY <1>1, <1>2, <1>3, SubsetInduction
<1> QED
  BY <1>4 DEF G

\* Two sums agree on the sets they both sum.
LEMMA SumsAgree ==
  ASSUME NEW S \in SUBSET Marker, IsFiniteSet(S), NEW T, S \subseteq T,
         NEW f, IsSum(f, S), NEW g, IsSum(g, T)
  PROVE  \A s \in SUBSET S : f[s] = g[s]
<1> DEFINE G == {s \in SUBSET S : f[s] = g[s]}
<1>1. {} \in G
  BY DEF IsSum, Adds
<1>2. ASSUME NEW s \in SUBSET S, s # {}, \A m \in s : s \ {m} \in G PROVE s \in G
  <2>1. One(s) \in s /\ s \in SUBSET T
    BY <1>2 DEF One
  <2>2. /\ f[s] = Amount(One(s)) + f[s \ {One(s)}]
        /\ g[s] = Amount(One(s)) + g[s \ {One(s)}]
    BY <1>2, <2>1 DEF IsSum, Adds
  <2>3. f[s \ {One(s)}] = g[s \ {One(s)}]
    BY <1>2, <2>1
  <2> QED
    BY <2>2, <2>3
<1>3. G \in SUBSET (SUBSET S)
  OBVIOUS
<1> HIDE DEF G
<1>4. \A s \in SUBSET S : s \in G
  BY <1>1, <1>2, <1>3, SubsetInduction
<1> QED
  BY <1>4 DEF G

LEMMA DrainedIsInteger ==
  ASSUME NEW S \in SUBSET Marker, IsFiniteSet(S)
  PROVE  Drained(S) \in Int
<1>1. PICK g : IsSum(g, S) /\ Drained(S) = g[S]
  BY SumOfMarkers
<1> QED
  BY <1>1, SumsAreIntegers

(* One more marker settles its amount more.                                 *)
LEMMA MoreDrained ==
  ASSUME NEW S \in SUBSET Marker, IsFiniteSet(S), NEW m \in Marker \ S
  PROVE  /\ Drained(S) \in Int /\ Amount(m) \in Int
         /\ Drained(S \cup {m}) = Amount(m) + Drained(S)
<1> DEFINE T == S \cup {m}
<1>1. IsFiniteSet(T) /\ T \in SUBSET Marker
  BY FS_AddElement
<1>2. PICK f : IsSum(f, S) /\ Drained(S) = f[S]
  BY SumOfMarkers
<1>3. PICK g : IsSum(g, T) /\ Drained(T) = g[T]
  BY <1>1, SumOfMarkers
<1>4. T \ {m} = S /\ T \in SUBSET T /\ m \in T
  OBVIOUS
<1>5. g[T] = Amount(m) + g[S]
  BY <1>1, <1>3, <1>4, AnyAddsLast
<1>6. f[S] = g[S]
  BY <1>2, <1>3, SumsAgree
<1>7. f[S] \in Int
  BY <1>2, SumsAreIntegers
<1>8. Amount(m) \in Int
  BY AmountsAreIntegers
<1> QED
  BY <1>2, <1>3, <1>5, <1>6, <1>7, <1>8

(* The budget of a run, when each of its markers is drained as it is        *)
(* stamped, and the markers are finitely many.                              *)
BudgetInv ==
  \A r \in Runs : /\ IsFiniteSet(markers[r])
                  /\ spent[r] = Estimate * reserves[r] + Drained(markers[r])

LEMMA BudgetInit == Init => BudgetInv
<1> SUFFICES ASSUME Init, NEW r \in Runs
             PROVE  IsFiniteSet(markers[r]) /\ spent[r] = Estimate * reserves[r] + Drained(markers[r])
  BY DEF BudgetInv
<1>1. markers[r] = {} /\ spent[r] = 0 /\ reserves[r] = 0
  BY DEF Init
<1>2. IsFiniteSet({}) /\ {} \in SUBSET Marker
  BY FS_EmptySet
<1>3. PICK g : IsSum(g, {}) /\ Drained({}) = g[{}]
  BY <1>2, SumOfMarkers
<1>4. Drained({}) = 0
  <2>1. Adds(g, {})
    BY <1>3 DEF IsSum
  <2> QED
    BY <1>3, <2>1 DEF Adds
<1>5. Estimate * 0 = 0
  BY SpendAssumption
<1> QED
  BY <1>1, <1>2, <1>4, <1>5

LEMMA BudgetReserve ==
  ASSUME TypeOK, BudgetInv, NEW w \in Workers, NEW c \in Calls, Reserve(w, c)
  PROVE  BudgetInv'
<1> SUFFICES ASSUME NEW r \in Runs
             PROVE  /\ IsFiniteSet(markers'[r])
                    /\ spent'[r] = Estimate * reserves'[r] + Drained(markers'[r])
  BY DEF BudgetInv
<1>1. IsFiniteSet(markers[r]) /\ spent[r] = Estimate * reserves[r] + Drained(markers[r])
  BY DEF BudgetInv
<1>2. markers' = markers
  BY DEF Reserve
<1>3. /\ reserves[r] \in Nat /\ spent[r] \in Int
      /\ Estimate \in Nat /\ RunOf[c] \in Runs
  BY SpendAssumption DEF TypeOK
<1>4. CASE r # RunOf[c]
  <2>1. spent'[r] = spent[r] /\ reserves'[r] = reserves[r]
    BY <1>4 DEF Reserve, TypeOK
  <2> QED
    BY <1>1, <1>2, <2>1
<1>5. CASE r = RunOf[c]
  <2>1. spent'[r] = spent[r] + Estimate /\ reserves'[r] = reserves[r] + 1
    BY <1>3, <1>5 DEF Reserve, TypeOK
  <2>2. /\ Estimate * (reserves[r] + 1) = Estimate * reserves[r] + Estimate
        /\ Estimate * reserves[r] \in Nat
    BY <1>3, Products
  <2>3. Drained(markers[r]) \in Int
    BY <1>1, DrainedIsInteger DEF TypeOK
  <2> HIDE DEF Drained
  <2> QED
    BY <1>1, <1>2, <1>3, <2>1, <2>2, <2>3
<1> QED
  BY <1>4, <1>5

LEMMA BudgetCommit ==
  ASSUME TypeOK, BudgetInv, NEW w \in Workers, Commit(w)
  PROVE  BudgetInv'
<1> DEFINE line == job[w].line
           m == MarkerOf(line)
           q == RunOf[job[w].call]
<1>1. line \in Line /\ m \in Marker /\ Amount(m) = Drain(line)
  <2>1. job[w] \in Job /\ job[w].at = "commit"
    BY DEF TypeOK, Commit
  <2>2. line \in Line
    BY <2>1 DEF Job, NoJob, WithEvent
  <2>3. m.line = line
    BY DEF MarkerOf
  <2>4. m \in Marker
    BY <2>2, SpendAssumption DEF MarkerOf, Marker, Paths, Line
  <2> QED
    BY <2>2, <2>3, <2>4 DEF Amount
<1>2. /\ m \notin markers[q] /\ reserves' = reserves
      /\ spent' = [spent EXCEPT ![q] = @ + Drain(line)]
      /\ markers' = [markers EXCEPT ![q] = @ \cup {m}]
  BY DEF Commit
<1> HIDE DEF line, m, q
<1> SUFFICES ASSUME NEW r \in Runs
             PROVE  /\ IsFiniteSet(markers'[r])
                    /\ spent'[r] = Estimate * reserves[r] + Drained(markers'[r])
  BY <1>2 DEF BudgetInv
<1>3. /\ IsFiniteSet(markers[r]) /\ spent[r] = Estimate * reserves[r] + Drained(markers[r])
      /\ markers[r] \in SUBSET Marker /\ spent[r] \in Int /\ reserves[r] \in Nat
  BY DEF BudgetInv, TypeOK
<1>4. CASE r # q
  <2>1. spent'[r] = spent[r] /\ markers'[r] = markers[r]
    BY <1>2, <1>4 DEF TypeOK
  <2> QED
    BY <1>3, <2>1
<1>5. CASE r = q
  <2>1. spent'[r] = spent[r] + Amount(m) /\ markers'[r] = markers[r] \cup {m}
    BY <1>1, <1>2, <1>5 DEF TypeOK
  <2>2. /\ Drained(markers[r]) \in Int /\ Amount(m) \in Int
        /\ Drained(markers[r] \cup {m}) = Amount(m) + Drained(markers[r])
    BY <1>1, <1>2, <1>3, <1>5, MoreDrained
  <2>3. IsFiniteSet(markers[r] \cup {m})
    BY <1>3, FS_AddElement
  <2>4. Estimate * reserves[r] \in Nat
    BY <1>3, Products, SpendAssumption
  <2> HIDE DEF Drained
  <2> QED
    BY <1>3, <2>1, <2>2, <2>3, <2>4
<1> QED
  BY <1>4, <1>5

LEMMA BudgetStep ==
  ASSUME Managed, "daemon" \notin Operators, "compactor" \notin Operators,
         TypeOK, Undisturbed, BudgetInv, [Next]_vars
  PROVE  BudgetInv'
<1>1. ASSUME UNCHANGED <<spent, markers, reserves>> PROVE BudgetInv'
  BY <1>1 DEF BudgetInv
<1>2. ASSUME NEW w \in Workers, Work(w),
             ~Commit(w), \A c \in Calls : ~Reserve(w, c)
      PROVE  UNCHANGED <<spent, markers, reserves>>
  BY <1>2 DEF Work, Invoke, Reply, NoReply, RecordSpend, RejectSpend, SkipCommit, ExhaustBudget,
              Emit, Finish, Crash, records
<1>3. UNCHANGED vars => UNCHANGED <<spent, markers, reserves>>
  BY DEF vars, records
<1> QED
  BY <1>1, <1>2, <1>3, OnlyWorkers, BudgetReserve, BudgetCommit

(* Where neither the daemon nor the compactor is run, and the driver writes *)
(* the run record, the budget of a run is what was reserved and what its    *)
(* markers settle: no retry, crash or concurrent call drains it twice or    *)
(* forgets a drain, however small the idempotency window.                   *)
THEOREM BudgetStaysExact ==
  ASSUME Managed, "daemon" \notin Operators, "compactor" \notin Operators
  PROVE  Spec => []BudgetExact
<1>1. Init => Undisturbed /\ BudgetInv
  BY BudgetInit DEF Init, Undisturbed, OwnMarkers
<1>2. TypeOK /\ Undisturbed /\ [Next]_vars => Undisturbed'
  BY UndisturbedStep
<1>3. TypeOK /\ Undisturbed /\ BudgetInv /\ [Next]_vars => BudgetInv'
  BY BudgetStep
<1>4. BudgetInv => BudgetExact
  BY DEF BudgetInv, BudgetExact, Drained
<1> QED
  BY <1>1, <1>2, <1>3, <1>4, TypesAndSweep, PTL DEF Spec
=============================================================================

-------------------------- MODULE ProviderCircuit --------------------------
(***************************************************************************)
(* The circuit breaker of one provider, shared by every thread that calls  *)
(* it, and the two transports that ask it for permission and report back.  *)
(* Each breaker method runs under the breaker's lock, so it is one action; *)
(* between a call's permission and its report anything may happen.         *)
(***************************************************************************)
EXTENDS Naturals

CONSTANTS
  Calls,             \* the calls that can be in flight at the same time
  Streams,           \* those made through execute_stream_request
  FailureThreshold,  \* CircuitBreakerConfig, the same three names
  RecoveryTimeout,   \* in ticks
  HalfOpenMaxCalls

ASSUME CircuitAssumption ==
  /\ Streams \subseteq Calls
  /\ FailureThreshold \in Nat \ {0}
  /\ RecoveryTimeout \in Nat \ {0}
  /\ HalfOpenMaxCalls \in Nat \ {0}

VARIABLES
  mode,      \* _state, as stored
  failures,  \* _failure_count, counted up to the threshold: nothing tells more apart
  tests,     \* _half_open_calls
  age,       \* ticks since _opened_at, up to the timeout
  call       \* call[c]: "idle", or the permission c was admitted with

breaker == <<mode, failures, tests, age>>
vars == <<breaker, call>>

Modes == {"closed", "open", "half_open"}

Init ==
  /\ mode = "closed"
  /\ failures = 0
  /\ tests = 0
  /\ age = 0
  /\ call = [c \in Calls |-> "idle"]

-----------------------------------------------------------------------------
(* _get_state_locked: an OPEN circuit turns HALF_OPEN when somebody looks. *)
Recovered == mode = "open" /\ age = RecoveryTimeout
ModeNow == IF Recovered THEN "half_open" ELSE mode
TestsUsed == tests  \* mutant: _half_open_calls is not reset
TestsNow == IF Recovered THEN 0 ELSE tests

\* Mutant: <= half_open_max_calls.
AllowOneMoreTest(c) ==
  /\ call[c] = "idle" /\ ModeNow = "half_open" /\ TestsNow <= HalfOpenMaxCalls
  /\ mode' = ModeNow /\ tests' = TestsNow + 1
  /\ call' = [call EXCEPT ![c] = "test"] /\ UNCHANGED <<failures, age>>

\* allow_request, its three answers.
Allow(c) ==
  /\ call[c] = "idle"
  /\ ModeNow = "closed"
  /\ call' = [call EXCEPT ![c] = "normal"]
  /\ UNCHANGED breaker

AllowTest(c) ==
  /\ call[c] = "idle"
  /\ ModeNow = "half_open"
  /\ TestsNow < HalfOpenMaxCalls
  /\ mode' = ModeNow
  /\ tests' = TestsNow + 1
  /\ call' = [call EXCEPT ![c] = "test"]
  /\ UNCHANGED <<failures, age>>

\* A refusal, or a reader of the state or of status_dict.
Look ==
  /\ mode' = ModeNow
  /\ tests' = TestsNow
  /\ UNCHANGED <<failures, age, call>>

Succeed(c) ==
  /\ call[c] # "idle"
  /\ call' = [call EXCEPT ![c] = "idle"]
  /\ mode' = "closed"
  /\ failures' = 0
  /\ tests' = 0
  /\ UNCHANGED age

CountedFailures == IF failures < FailureThreshold THEN failures + 1 ELSE failures

\* Mutant: no branch for HALF_OPEN, and == for >= at the threshold.
FailAtThreshold(c) ==
  /\ call[c] # "idle" /\ call' = [call EXCEPT ![c] = "idle"]
  /\ failures' = CountedFailures /\ tests' = TestsNow
  /\ IF failures + 1 = FailureThreshold THEN mode' = "open" /\ age' = 0
                                        ELSE mode' = ModeNow /\ UNCHANGED age

\* record_failure: counted first, then judged; it also extends an OPEN.
Fail(c) ==
  /\ call[c] # "idle"
  /\ call' = [call EXCEPT ![c] = "idle"]
  /\ failures' = CountedFailures
  /\ tests' = TestsNow
  /\ IF ModeNow = "half_open" \/ failures' >= FailureThreshold
     THEN mode' = "open" /\ age' = 0
     ELSE mode' = ModeNow /\ UNCHANGED age

\* execute_stream_request's early return on an unexpected Content-Type: the
\* status is read for the answer, the outcome is not recorded.
LeaveUnrecorded(c) ==
  /\ c \in Streams
  /\ call[c] # "idle"
  /\ call' = [call EXCEPT ![c] = "idle"]
  /\ mode' = ModeNow
  /\ tests' = TestsNow
  /\ UNCHANGED <<failures, age>>

Elapse ==
  /\ mode = "open"
  /\ age < RecoveryTimeout
  /\ age' = age + 1
  /\ UNCHANGED <<mode, failures, tests, call>>

Return(c) == Succeed(c) \/ Fail(c) \/ LeaveUnrecorded(c)

Next ==
  \/ \E c \in Calls : Allow(c) \/ AllowTest(c) \/ Return(c)
  \/ Look
  \/ Elapse

Spec == Init /\ [][Next]_vars

\* Time passes, and every request has a timeout.  Nobody has to call.
Fairness == WF_vars(Elapse) /\ \A c \in Calls : WF_vars(Return(c))
FairSpec == Spec /\ Fairness

-----------------------------------------------------------------------------
(* The breaker's fields and the permissions out.  Counts stay in their     *)
(* limits: no more tests are let through than half_open_max_calls.         *)
TypeOK ==
  /\ mode \in Modes
  /\ failures \in 0..FailureThreshold
  /\ tests \in 0..HalfOpenMaxCalls
  /\ age \in 0..RecoveryTimeout
  /\ call \in [Calls -> {"idle", "normal", "test"}]

(* The circuit is closed exactly while the failures since the last success *)
(* are below the threshold, however late each of them is reported.         *)
ClosedBelowThreshold == mode = "closed" <=> failures < FailureThreshold

TestInFlight ==
  (mode = "half_open" /\ tests > 0) => \E c \in Calls : call[c] = "test"
NoTestStreamed == \A c \in Streams : call[c] # "test"

(* As long as no test goes through execute_stream_request, a half-open     *)
(* circuit that has given a permission away has a test in flight: the      *)
(* report that will close or reopen it is still to come.                   *)
TestsReported == []NoTestStreamed => []TestInFlight

Admits == ModeNow = "closed" \/ (ModeNow = "half_open" /\ TestsNow < HalfOpenMaxCalls)

(* Whoever asks again and again is let through again: a provider that      *)
(* failed is not refused for good.                                         *)
NeverRefusedForGood == []<>Admits

(* That it is so when the tests go over the non-streaming transport.       *)
RecoversOverHttp == []NoTestStreamed => []<>Admits

(* Once opened, the circuit is closed by a test only, not by a report of a *)
(* call admitted before the failures.  The code does not keep this: see    *)
(* README.md, What TLC refutes.                                            *)
ClosedByTest ==
  [][(mode # "closed" /\ mode' = "closed")
       => \E c \in Calls : call[c] = "test" /\ call'[c] = "idle"]_vars
=============================================================================
